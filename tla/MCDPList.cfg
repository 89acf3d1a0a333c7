SPECIFICATION Spec
CONSTANTS
  Addr = {a1, a2, a3, a4}
  NULL = NULL
  Element = {1, 2, 3}
  Index <- MCIndex
SYMMETRY Symmetry
INVARIANTS TypeOK Shape
 
