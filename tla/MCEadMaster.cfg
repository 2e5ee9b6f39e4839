\* Two interfaces, two bridges, three process numbers that are reused by new
\* instances and by strangers; everything that can end an instance does.
SPECIFICATION Spec
CONSTANTS
  p1 = p1
  p2 = p2
  p3 = p3
  p4 = p4
  p5 = p5
  N = 2
  NumBridges = 2
  Pids <- MCPids
  Statuses <- MCStatuses
  Faults = {"crash", "term", "stranger", "fork", "stop"}
  MaxMoves = 2
INVARIANTS TypeOK AllRecorded BridgeAgreement NoOrphans HarmOnlyAfterCrash
PROPERTIES OnlyMovedEnd
SYMMETRY PidSymmetry
CHECK_DEADLOCK FALSE
