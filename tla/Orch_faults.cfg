CONSTANTS
  a = a  b = b  c = c  d = d
  a1 = a1  a2 = a2  b1 = b1  c1 = c1  d1 = d1
  Vdu = {a, b, c, d}
  Inst = {a1, a2, b1, c1, d1}
  VduOf <- DiamondVduOf
  Deps <- DiamondDeps
  InitDriven = {a, c, d}
  ConfigEvent = {a, b, c}
  ConfigDriven = {a, b}
  Faults <- AllFaults
SPECIFICATION Spec
INVARIANTS
  DependencyOrder
  ActiveMeansInitDone
  InitErrorKeepsInactive
  ConfiguredOnce
  PostConfigureOrder
  InitBeforeConfig
  IInv
PROPERTY Implements
CHECK_DEADLOCK FALSE
