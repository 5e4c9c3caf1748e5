CONSTANTS
  s1 = s1  s2 = s2  v = v  w = w  x = x
  v1 = v1  v2 = v2  w1 = w1  x1 = x1
  Service = {s1, s2}
  Vdu = {v, w, x}
  Machine = {v1, v2, w1, x1}
  Vdus <- TwoVdus
  VduOf <- TwoVduOf
  Remote = {s2}
  Request = {r1, r2}
  Faults = {"boot"}
  r1 = r1  r2 = r2
SPECIFICATION SerialSpec
INVARIANTS
  DeletedMeansGone
PROPERTY DeletionCompletes
CHECK_DEADLOCK FALSE
