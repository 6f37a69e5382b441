SPECIFICATION RunSpec
CHECK_DEADLOCK FALSE
CONSTANTS
  Scheme = 3
  NPkts = 4
  NSlots = 2
  EvSpace = 8
  Probes = TRUE
  ProbeEvery = 2
  RtxProbes = TRUE
  Coalescing = TRUE
  AcceptPromoted = FALSE
  Faults = {"drop", "promote"}
  MaxFaults = 2
  MaxChange = 1
  MaxRto = 0
  MaxRts = 0
INVARIANTS
  TypeOK
  NoFalseNack
  ReportsAreTrue
  BooksAgree
  NeverStranded
