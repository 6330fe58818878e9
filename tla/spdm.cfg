SPECIFICATION Spec
CONSTANTS
  rot = rot
  cpu = cpu
  Nodes <- MCNodes
  Scenarios <- MCScenarios
  Period = 2
  MaxSession = 2
  RekeyCount = 3
  KeyEpochs = 2
  Slots <- MCSlots
  ChainParts = 2
  RootedChain <- MCRootedChain
  ChainOwner <- MCChainOwner
  AllMeasurements = 5
INVARIANTS SpdmTypeOK NoFalsePass NoFalseFail SessionKeysAgree
