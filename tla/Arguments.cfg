SPECIFICATION Spec
CONSTANTS
  Calls = {c1, c2}
  Literals = {a1}
  Size <- MCSize
  Methods = {m1}
  Objects = {o1, o2}
  NULL = NULL
  MaxDepth = 4
  MaxNested = 1
SYMMETRY Symmetry
INVARIANTS ArgumentsInOrder LiteralsAllOrNothing MethodsKeepInstance
