SPECIFICATION Spec
CONSTANTS
  Nexus = {a}
  Lost = {}
  NoNexus = NoNexus
  Owner = {a}
  Saga = {s1, s2}
  SlowInsert = FALSE
  LostReply = TRUE
  Transient = TRUE
  MaxBlueprint = 2
  MaxGeneration = 0
  DiskExpunge = FALSE
  Crashers = {a}
  Restarters = {a}
INVARIANTS
  NoDoubleResume
  AssertionsHold
CHECK_DEADLOCK FALSE
SYMMETRY Symmetry
