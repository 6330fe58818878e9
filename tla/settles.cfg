SPECIFICATION FairSpec
CONSTANTS
  SvnMax = 1
  BmcCheckpointRecovery = TRUE
  PchCheckpointRecovery = FALSE
  MaxUpdFailed = 2
  HeapEvents = 4
  Scenario <- Settling
INVARIANTS TypeOK UndefinedNeverRead
PROPERTIES Settles
CHECK_DEADLOCK FALSE
