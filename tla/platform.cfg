SPECIFICATION Spec
CONSTANTS
  SvnMax = 1
  BmcCheckpointRecovery = TRUE
  PchCheckpointRecovery = TRUE
  MaxUpdFailed = 2
  HeapEvents = 4
  Scenario <- Platform
INVARIANTS CompletionPending PchIntentStaysInPch SingleFaultKeepsRot RunningHostHasFlash RunningHostVerified
PROPERTIES SvnFloorMonotone BmcReleasedVerified LockdownHolds ImplementsGate
CHECK_DEADLOCK FALSE
