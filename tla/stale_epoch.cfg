CONSTANTS
  Node = {n1, n2, n3}
  MaxEpoch = 3
  InitialMembers = {n1, n2, n3}
  Loaders = {}
  Restarters = {}
  Task = {t1}
  Overtaking = TRUE
SPECIFICATION SpecAfterHandoff
SYMMETRY Symmetry
INVARIANT AbortedIsNotCommitted
CHECK_DEADLOCK FALSE
