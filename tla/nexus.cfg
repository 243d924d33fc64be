CONSTANTS
  Node = {n1, n2, n3}
  MaxEpoch = 3
  InitialMembers = {n1, n2, n3}
  Task = {t1}
  Overtaking = TRUE
SPECIFICATION Spec
SYMMETRY Symmetry
INVARIANT ChainOfCommits
INVARIANT ActiveIsLatest
PROPERTY RowsOnlyAdvance
PROPERTY OneHistory
CHECK_DEADLOCK FALSE
