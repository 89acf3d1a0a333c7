SPECIFICATION Spec
CONSTANTS
  Consumers = {datamgr, storagemgr}
  Producer = connmgr
  Addr = {a1, a2, a3}
  NULL = NULL
  Wild = Wild
  Words = {w1, w2}
  MaxReadings = 4
SYMMETRY Symmetry
INVARIANTS TypeOK SafeWhileNotDrained OnlyInserted NoDoubleFree
CONSTRAINT Asked
