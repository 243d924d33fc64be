CONSTANTS
  Node = {n1, n2, n3}
  MaxEpoch = 2
  InitialMembers = {n1, n2, n3}
  Loaders = {}
  Restarters = {n1, n2, n3}
  Task = {t1}
  Overtaking = TRUE
SPECIFICATION Spec
SYMMETRY Symmetry
INVARIANT RecordedIsCommitted
INVARIANT CommittedIsPrepared
INVARIANT AckedIsPrepared
INVARIANT DecidedIsRecoverable
CHECK_DEADLOCK FALSE
PROPERTY OneRack
