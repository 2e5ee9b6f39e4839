\* Increments 1..3, a window of 6: two lost messages are tolerated, four may
\* not be. The counters cannot overflow; damage leaves the vector readable.
SPECIFICATION Spec
CONSTANTS
  IvInit = 1
  Wrap = 32
  MaxIncr = 6
  MaxOfs = 3
  Period = 2
  MaxSend = 5
  Garbled <- NoIv
INVARIANTS TypeOK AtMostOnce BurstTolerance
PROPERTIES ImplementsOrdered
CHECK_DEADLOCK FALSE
