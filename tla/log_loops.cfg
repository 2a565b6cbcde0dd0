SPECIFICATION Spec
CONSTANTS
  Peer = {p1, p2, p3, p4}
  Terms = {1, 2, 3}
  MaxLen = 4
INVARIANTS LoopIsMerge ScanFindsGreatest
