SPECIFICATION FairSpec
CONSTANTS
  rot = rot
  cpu = cpu
  Nodes <- MCNodes
  Scenarios <- MCOneFault
  Period = 2
  MaxSession = 2
  RekeyCount = 3
  KeyEpochs = 2
  Slots <- MCSlots
  ChainParts = 2
  RootedChain <- MCRootedChain
  ChainOwner <- MCChainOwner
  AllMeasurements = 5
PROPERTIES AttestationRecovers ChangeDetected SealsAdvance
