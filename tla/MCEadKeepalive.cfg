\* One command that outlives the client's deadline, no packet lost.
SPECIFICATION Spec
CONSTANTS
  MaxJobs = 1
  Background = TRUE
  ForkMayFail = TRUE
  Timeouts = {0, 1}
  EAD_CMD_TIMEOUT = 2
  TicksPerSecond = 2
  ClientTimeout = 3
  FdLimit = 3
  PipeSize = 1
  MaxOutput = 2
  MaxTimeout = 2
  HistoryCap = 3
INVARIANTS KeepalivesKeepClient
CHECK_DEADLOCK FALSE
