SPECIFICATION LedSpec
CONSTANTS
  n1 = n1
  n2 = n2
  n3 = n3
  Node = {n1, n2, n3}
  None = None
  Protocol = "echod"
  Levels = {60}
  Recharge = FALSE
  Leaf = {l1}
  Value = {1}
  Splits <- LeaderCutOff
  MaxBatch = 1
  RecentCap = 2
  RecentCut = 1
  Lossy = FALSE
  MaxTerm = 2
  MaxReports = 2
  MaxControls = 2
  ElectionLoad = 0
  LeaderLoad = 0
  EnvLoad = 0
SYMMETRY FollowerSymmetry
INVARIANTS  LocalLeaderIsProvisional
PROPERTIES LocalLeaderNeverCommits CommittedIsStable
