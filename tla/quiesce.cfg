SPECIFICATION SpecUpdating
CONSTANTS
  Nexus = {a, b}
  Lost = {}
  NoNexus = NoNexus
  Owner = {b}
  Saga = {s1}
  SlowInsert = FALSE
  LostReply = FALSE
  Transient = FALSE
  MaxBlueprint = 3
  MaxGeneration = 0
  DiskExpunge = FALSE
  Crashers = {b}
  Restarters = {b}
INVARIANTS
  RunsInOneProcess
  DrainedHasNoSagas
  HandoffAfterSagas
CHECK_DEADLOCK FALSE
