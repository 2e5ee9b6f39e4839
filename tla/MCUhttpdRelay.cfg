\* Output of up to three units against a header buffer and pipes of two, bodies
\* as in MCUhttpdRelay; a failed fork leaves too few descriptors for a script.
SPECIFICATION FairSpec
CONSTANTS
  MaxOut = 3
  Bodies <- WithPost
  HdrSize = 2
  PipeSize = 2
  MaxFds = 7
INVARIANTS TypeOK ReplyComplete ChildrenReaped DescriptorsAccounted
PROPERTIES ImplementsReply RelayEnds
CHECK_DEADLOCK FALSE
