\* The 504 that the configuration file promises.
SPECIFICATION Spec
CONSTANTS
  MaxOut = 1
  Bodies <- NoPost
  HdrSize = 2
  PipeSize = 2
  MaxFds = 8
PROPERTIES ScriptTimeout
CHECK_DEADLOCK FALSE
