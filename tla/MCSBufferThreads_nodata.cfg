SPECIFICATION Spec
CONSTANTS
  Consumers = {datamgr}
  Producer = connmgr
  Addr = {a1, a2, a3}
  NULL = NULL
  Wild = Wild
  Words = {w1, w2}
  MaxReadings = 3
SYMMETRY Symmetry
INVARIANT NoDataOnlyWhenEmpty
