SPECIFICATION RunSpec
CHECK_DEADLOCK FALSE
CONSTANTS
  Flows = {f1}
  NPkts = 4
  Mtu = 2
  Hdr = 1
  Quantum = 2
  MaxWnd = 2
  CreditPerPull = 1
  ActiveSources = {1}
  MaxRts = 0
  MaxLoss = 1
  MaxEarly = 0
INVARIANTS
  TypeOK
  ActiveListAgrees
  PacerAwake
  Bank
  DemandBounded
  WindowsAndPaths
  RoutesAreListed
  WorkloadFaithful
