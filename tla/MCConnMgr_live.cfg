SPECIFICATION FairSpec
CONSTANTS
  Fd = {f1}
  Stray = {x}
  NoFd = NoFd
  NULL = NULL
  Sensor = {0, 1}
  MAX_CONN = 1
  TIMEOUT = 1
  MaxBacklog = 1
  MaxInbox = 1
CHECK_DEADLOCK FALSE
PROPERTIES LoopEnds DataMgrServed SignalServed
