CONSTANTS
  u1 = u1  u2 = u2  u3 = u3
  k1 = k1  k2 = k2  k3 = k3
  Unit = {u1, u2, u3}
  Id = {k1, k2, k3}
  Faults = {"cast"}
SPECIFICATION FairPoolSpec
INVARIANTS
  PoolInv
  NoMissedResult
  AckedOnce
PROPERTIES EveryThreadAcked Implements
CHECK_DEADLOCK FALSE
