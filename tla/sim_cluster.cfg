SPECIFICATION Spec
CONSTANTS
  n1 = n1
  n2 = n2
  n3 = n3
  l1 = l1
  Coordinator = {n1, n2, n3}
  LeafId = {l1}
  None = None
  Protocols = {"raft", "echo", "echod"}
  Levels = {12, 17, 60}
  FullLevel = 60
  Value = {1, 2}
  Splits <- Isolations
  MaxBatch = 2
  MaxTerm = 2
  MaxEvents = 2
  MaxRegisters = 1
  MaxBacklog = 2
  ElectionLoad = 0
  LeaderLoad = 0
SYMMETRY Symmetry
CHECK_DEADLOCK FALSE
INVARIANTS TypeOK OneWinnerPerTerm DrainedNeverLeads LeaderCompleteness  
PROPERTIES CommittedIsStable
