\* One processor, as on the board: two links, two filters (one being freed
\* while the other is active), a dump of up to two messages.
SPECIFICATION FairSpec
CONSTANTS
  None = None
  l1 = l1  l2 = l2
  f1 = f1  f2 = f2
  d1 = d1
  SMP = FALSE
  Links <- TwoLinks
  Filters <- TwoFilters
  Dumps <- OneDump
  MaxItems = 2
INVARIANTS TypeOK TimerFollowsInterval TimerGoneFirst FiltersAccounted
PROPERTIES ImplementsRcu RemovalEnds RequestEnds
CHECK_DEADLOCK FALSE
