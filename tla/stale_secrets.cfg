CONSTANTS
  Node = {n1, n2, n3}
  MaxEpoch = 2
  InitialMembers = {n1, n2, n3}
  Loaders = {}
  Restarters = {}
  Task = {t1}
  Overtaking = FALSE
SPECIFICATION SpecAfterHandoff
SYMMETRY Symmetry
INVARIANT SameConfiguration
CHECK_DEADLOCK FALSE
