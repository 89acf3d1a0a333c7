SPECIFICATION Spec
CONSTANTS
  Addr = {a1, a2, a3}
  Reading = {r1, r2}
  NULL = NULL
  NoReading = NoReading
INVARIANTS NoLeak ListShape
PROPERTY ImplementsQueue
