SPECIFICATION Spec
CONSTANTS
  SvnMax = 1
  BmcCheckpointRecovery = TRUE
  PchCheckpointRecovery = FALSE
  MaxUpdFailed = 2
  HeapEvents = 4
  Scenario <- PchDuringBmcReset
INVARIANTS UpdateOwnsFlash
CHECK_DEADLOCK FALSE
