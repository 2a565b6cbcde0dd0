SPECIFICATION LedSpec
CONSTANTS
  n1 = n1
  n2 = n2
  n3 = n3
  Node = {n1, n2, n3}
  None = None
  Protocol = "echo"
  Levels = {60}
  Recharge = FALSE
  Leaf = {l1}
  Value = {1, 2}
  Splits = {}
  MaxBatch = 2
  RecentCap = 2
  RecentCut = 1
  Lossy = TRUE
  MaxTerm = 2
  MaxReports = 3
  MaxControls = 0
  ElectionLoad = 0
  LeaderLoad = 0
  EnvLoad = 0
SYMMETRY FollowerSymmetry
INVARIANTS LogMatching StateMachineSafety LeaderCompleteness CommittedOnMajority EntriesFromWinners
PROPERTIES LeaderAppendOnly ImplementsCommittedLog
