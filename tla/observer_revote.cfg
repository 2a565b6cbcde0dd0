SPECIFICATION Spec
CONSTANTS
  n1 = n1
  n2 = n2
  n3 = n3
  Node = {n1, n2, n3}
  None = None
  Protocol = "echod"
  Levels = {12, 30}
  Recharge = TRUE
  Leaf = {l1}
  Value = {}
  Splits = {}
  MaxBatch = 2
  RecentCap = 2
  RecentCut = 1
  Lossy = FALSE
  MaxTerm = 2
  MaxReports = 0
  MaxControls = 0
  ElectionLoad = 2
  LeaderLoad = 0
  EnvLoad = 6
SYMMETRY Symmetry
INVARIANTS ElectionSafety
