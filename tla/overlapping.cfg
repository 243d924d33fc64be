CONSTANTS
  Node = {n1, n2, n3, n4}
  MaxEpoch = 3
  InitialMembers = {n1, n2, n3, n4}
  Loaders = {}
  Restarters = {}
  Task = {t1}
  Overtaking = FALSE
SPECIFICATION SpecOverlapping
INVARIANT TypeOK
INVARIANT CommittedIsDecided
INVARIANT CollectingCanPrepare
INVARIANT NotCoordinatingAndComputing
INVARIANT CommittedIsPrepared
INVARIANT RecordedIsCommitted
INVARIANT SameMembership
CHECK_DEADLOCK FALSE
