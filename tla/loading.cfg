CONSTANTS
  Node = {n1, n2, n3, n4}
  MaxEpoch = 2
  InitialMembers = {n1, n2, n3, n4}
  Loaders = {n4}
  Restarters = {n4}
  Task = {}
  Overtaking = FALSE
SPECIFICATION FairLoading
INVARIANT ExpungedIsRemoved
INVARIANT CommitNeverLost
PROPERTY LoadEnds
CHECK_DEADLOCK FALSE
