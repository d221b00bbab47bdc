SPECIFICATION Spec
CONSTANTS
  n1 = n1
  n2 = n2
  c1 = c1
  c2 = c2
  Nodes <- MCNodes
  Calls <- MCCalls
  Sizes = {2}
  MaxBatches = 2
  MaxXid = 3
SYMMETRY MCSymmetry
INVARIANT OptimisticLocking
CHECK_DEADLOCK FALSE
