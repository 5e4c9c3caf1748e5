CONSTANTS
  MaxMachines = 3
  Net = {"mgmt", "svc"}
  Mgmt = "mgmt"
  Service = {"s", "t"}
  Network = {"m", "x", "y"}
  Router = {"r1", "r2"}
  NetsOf <- NetsOfST
  MgmtOf <- MgmtOfST
  RoutedOf <- RoutedOfST
  RouterOf <- RouterOfST
  WithPuppet = {"s"}
  ServiceNet = "sn"
  NoNet = "no"
  Retries = 2
  MaxHups = 2
  Process = {"p", "q"}
  Window = 3
SPECIFICATION Spec
CHECK_DEADLOCK FALSE
INVARIANTS
  BringUpTrue
  ProcessesTrue
PROPERTIES
  LoopsEnd
  SignalsServed
