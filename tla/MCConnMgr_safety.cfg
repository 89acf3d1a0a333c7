SPECIFICATION Spec
CONSTANTS
  Fd = {f1, f2}
  Stray = {x}
  NoFd = NoFd
  NULL = NULL
  Sensor = {0, 1}
  MAX_CONN = 2
  TIMEOUT = 1
  MaxBacklog = 1
  MaxInbox = 1
SYMMETRY Symmetry
CONSTRAINT TwoClients
CHECK_DEADLOCK FALSE
INVARIANTS TypeOK ListsAgree LockDiscipline
PROPERTIES StopsigUnderLock CloseJustified SignalStopsOne
