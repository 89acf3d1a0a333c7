SPECIFICATION FairStreamSpec
CONSTANTS
  Size <- MCSize
  LOOPS = 3
  Capacity = 7
CHECK_DEADLOCK FALSE
INVARIANTS StreamTypeOK IntactUnlessShort AllInserted
PROPERTY ReceiveReturns
