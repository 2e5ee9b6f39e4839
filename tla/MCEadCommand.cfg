\* Three commands, streamed or in the background: the third may run while the
\* first two are still alive. Timeouts of 1 and 2 seconds of 2 ticks; the
\* descriptors last for two pipes.
SPECIFICATION FairSpec
CONSTANTS
  MaxJobs = 3
  Background = TRUE
  ForkMayFail = TRUE
  Timeouts = {0, 1}
  EAD_CMD_TIMEOUT = 2
  TicksPerSecond = 2
  ClientTimeout = 1
  FdLimit = 3
  PipeSize = 2
  MaxOutput = 2
  MaxTimeout = 2
  HistoryCap = 0
INVARIANTS TypeOK ReaperNeverBlocks DoneMeansExited DrainedBeforeDone KilledNotEarly
PROPERTIES StreamEnds
CHECK_DEADLOCK FALSE
