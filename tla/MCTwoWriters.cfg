CONSTANTS
  Writers = {0, 1}
  Readers = {2}
  Nodes = {n1, n2, n3}
  Null = Null
  Size = 1
  Calls = 1
SPECIFICATION Spec
SYMMETRY Places
INVARIANT NoUseAfterFree
CHECK_DEADLOCK FALSE
