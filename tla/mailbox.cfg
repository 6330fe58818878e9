SPECIFICATION FairSpec
CONSTANTS
  Scenarios <- MCScenarios
  FifoSize = 4
  Size <- MCSize
INVARIANTS MailboxTypeOK PayloadWhole
PROPERTIES LockKept AcknowledgedIsDone ScriptEnds LastRequestDelivered
CHECK_DEADLOCK FALSE
