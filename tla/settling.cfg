CONSTANTS
  Node = {n1, n2, n3, n4, m1, m2, m3}
  MaxEpoch = 2
  InitialMembers = {n1, n2, n3, n4}
  Loaders = {}
  Restarters = {n1, n2, n3, n4}
  Task = {t1}
  Overtaking = FALSE
SPECIFICATION FairSettling
PROPERTY ReconfigurationEnds
CHECK_DEADLOCK FALSE
