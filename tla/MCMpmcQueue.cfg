CONSTANTS
  Writers = {0, 1}
  Readers = {2, 3}
  Nodes = {n1, n2, n3}
  Null = Null
  Size = 1
  Calls = 1
SPECIFICATION DefinedSpec
SYMMETRY Places
INVARIANTS TypeOK Conserved InOrder EmptyIsTrue ReadersSafe NodesAccounted
CHECK_DEADLOCK FALSE
