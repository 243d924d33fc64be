CONSTANTS
  Node = {n1, n2, n3}
  MaxEpoch = 4
  InitialMembers = {n1, n2, n3}
  Loaders = {}
  Restarters = {}
  Task = {t1}
  Overtaking = FALSE
SPECIFICATION SpecStraggler
INVARIANT AcceptedWhileNotComputing
CHECK_DEADLOCK FALSE
