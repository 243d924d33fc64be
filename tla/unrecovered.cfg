SPECIFICATION SpecUpdating
CONSTANTS
  Nexus = {a, b}
  Lost = {b}
  NoNexus = NoNexus
  Owner = {b}
  Saga = {s1}
  SlowInsert = FALSE
  LostReply = FALSE
  Transient = TRUE
  MaxBlueprint = 3
  MaxGeneration = 0
  DiskExpunge = FALSE
  Crashers = {}
  Restarters = {}
INVARIANT DrainedHasNoSagas
CHECK_DEADLOCK FALSE
