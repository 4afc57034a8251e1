SPECIFICATION Spec
CONSTANTS
  Node = {n1, n2, n3}
  Root = root
  None = None
  MaxId = 3
  MaxSent = 2
  MaxNet = 3
  Batch = 1
SYMMETRY Symmetry
INVARIANTS OneCopy CallsArrive SameTree
CHECK_DEADLOCK FALSE
