SPECIFICATION FairSpec
CONSTANTS
  Writer = {connmgr, datamgr}
  PIPE_SIZE = 3
  Length = {2, 3}
  Capacity = 5
  MaxMessages = 4
CHECK_DEADLOCK FALSE
INVARIANTS TypeOK Terminated LogInOrder WrittenIsLogged
PROPERTIES LogEnds WritersGoOn
