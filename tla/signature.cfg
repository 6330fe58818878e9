SPECIFICATION Spec
CONSTANTS
  Images <- MCImages
  Factory <- MCFactory
  Provisioned <- MCProvisioned
  LeftBehind <- MCLeftBehind
  SvnMax = 64
  MaxStaged = 2
  MaxLost = 1
CHECK_DEADLOCK FALSE
INVARIANTS VerdictsAreGenuine
PROPERTIES CancellationSparesPfm InstalledWasGenuine RunsGenuine RecoveryRepairs
