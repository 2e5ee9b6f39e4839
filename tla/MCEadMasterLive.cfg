\* Two interfaces, two bridges, one move, and no instance ends but by the hand
\* of its master. Five process numbers are enough: two instances, three zombies.
SPECIFICATION FairSpec
CONSTANTS
  p1 = p1
  p2 = p2
  p3 = p3
  p4 = p4
  p5 = p5
  N = 2
  NumBridges = 2
  Pids <- FivePids
  Statuses <- MCStatuses
  Faults = {}
  MaxMoves = 1
PROPERTIES Converges
CHECK_DEADLOCK FALSE
