CONSTANTS
  Slots <- MCSlots
  Manifests <- MCManifests
  Capsules <- MCCapsules
  Scenarios <- MCScenarios
SPECIFICATION Spec
PROPERTIES
  CancelledStaysOut
  HostHeals
  FloorHolds
CHECK_DEADLOCK FALSE
