CONSTANTS
  Images <- MCImages
  Factory <- MCFactory
  Staged <- MCStaged
  PfmAt = 5
  StagingAt = 9
  RecoveryAt = 10
  Sig = 1
  Digest = "SHA384"
  BlockPages = 2
  Checkpoint = TRUE
  PfmKB = 4
  MaxTrouble = 1
SPECIFICATION Spec
PROPERTIES InstalledExactly
CHECK_DEADLOCK FALSE
