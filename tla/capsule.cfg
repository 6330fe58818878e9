CONSTANTS
  Images <- MCImages
  Factory <- MCFactory
  Staged <- MCStaged
  PfmAt = 5
  StagingAt = 7
  RecoveryAt = 8
  Sig = 1
  Digest = "SHA384"
  BlockPages = 2
  Checkpoint = TRUE
  PfmKB = 2
  MaxTrouble = 3
SPECIFICATION Spec
PROPERTIES InstalledExactly PfmComesLast RecoveryHeals HostCannotBreak
CHECK_DEADLOCK FALSE
