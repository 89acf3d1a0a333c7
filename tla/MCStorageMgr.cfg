SPECIFICATION Spec
CONSTANTS
  MaxSent = 3
  MaxRecorded = 2
  Value <- MCValue
  Ts <- MCTs
  QueryValue <- MCQueryValue
  EDigits = 2
  GDigits = 1
  MaxRows = 4
  MaxLeaked = 1
INVARIANTS ConnHasTable RowsFollowBuffer
PROPERTIES RowsDurable FoundByOwnValue
