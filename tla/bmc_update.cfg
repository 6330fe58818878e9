SPECIFICATION Spec
CONSTANTS
  SvnMax = 2
  BmcCheckpointRecovery = TRUE
  PchCheckpointRecovery = FALSE
  MaxUpdFailed = 2
  HeapEvents = 3
  Scenario <- BmcUpdates
INVARIANTS ImageSurvives RecoveryRaisesFloor
PROPERTIES TimeoutRestoresRecovery
CHECK_DEADLOCK FALSE
