SPECIFICATION FairUpdating
CONSTANTS
  Nexus = {a, b}
  Lost = {b}
  NoNexus = NoNexus
  Owner = {b}
  Saga = {s1}
  SlowInsert = FALSE
  LostReply = FALSE
  Transient = TRUE
  MaxBlueprint = 3
  MaxGeneration = 1
  DiskExpunge = TRUE
  Crashers = {}
  Restarters = {}
PROPERTY HandoffHappens
CHECK_DEADLOCK FALSE
