SPECIFICATION RunSpec
CONSTANTS
  Hosts = {h1, h2}
  Outs = {o1, o2}
  High = 2
  Low = 1
  MaxSize = 5
  Delay = 1
  Total = 0
SYMMETRY FabricSymmetry
INVARIANTS
  TypeOK
  CountsItsPackets
  Lossless
  FramesAgree
  Accounted
  KeepsServing
PROPERTIES
  LeaveInOrder
