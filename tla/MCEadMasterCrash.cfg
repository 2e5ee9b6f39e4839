\* One interface; its instance crashes.
SPECIFICATION FairSpec
CONSTANTS
  p1 = p1
  p2 = p2
  p3 = p3
  p4 = p4
  p5 = p5
  N = 1
  NumBridges = 1
  Pids <- FivePids
  Statuses <- MCStatuses
  Faults = {"crash"}
  MaxMoves = 0
PROPERTIES AccessRestored
CHECK_DEADLOCK FALSE
