SPECIFICATION OvertakenSpec
CONSTANTS
  n1 = n1
  n2 = n2
  n3 = n3
  n4 = n4
  n5 = n5
  l1 = l1
  Node = {n1, n2, n3, n4, n5}
  None = None
  Protocol = "echo"
  Levels = {60}
  Recharge = FALSE
  Leaf = {l1}
  Value = {1, 2}
  Splits = {}
  MaxBatch = 2
  RecentCap = 2
  RecentCut = 1
  Lossy = FALSE
  MaxTerm = 3
  MaxReports = 4
  MaxControls = 0
  ElectionLoad = 2
  LeaderLoad = 0
  EnvLoad = 5
SYMMETRY OtherSymmetry
INVARIANTS CommittedOnMajority
