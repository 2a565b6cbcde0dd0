SPECIFICATION RelaySpec
CONSTANTS
  n1 = n1
  n2 = n2
  n3 = n3
  l1 = l1
  Coordinator = {n1, n2, n3}
  LeafId = {l1}
  None = None
  Protocols = {"echo"}
  Levels = {60}
  FullLevel = 60
  Value = {1}
  Splits = {}
  MaxBatch = 2
  MaxTerm = 4
  MaxEvents = 2
  MaxRegisters = 0
  MaxBacklog = 1
  ElectionLoad = 1
  LeaderLoad = 0
CHECK_DEADLOCK FALSE
PROPERTIES RelayEnds
