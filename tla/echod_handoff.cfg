SPECIFICATION LedSpec
CONSTANTS
  n1 = n1
  n2 = n2
  n3 = n3
  Node = {n1, n2, n3}
  None = None
  Protocol = "echod"
  Levels = {12, 17, 60}
  Recharge = FALSE
  Leaf = {l1}
  Value = {}
  Splits = {}
  MaxBatch = 2
  RecentCap = 2
  RecentCut = 1
  Lossy = FALSE
  MaxTerm = 2
  MaxReports = 0
  MaxControls = 0
  ElectionLoad = 1
  LeaderLoad = 0
  EnvLoad = 0
SYMMETRY FollowerSymmetry
INVARIANTS ElectionSafety EnergyGate NominationIsFinal
