CONSTANTS
  ClusterSectors = 2
  L1Slots = 2
  SlotsPerPage = 2
  HeaderSlots = 1
  WordBits = 3
  IsecValues <- MCIsecValues
  FileSizes <- MCFileSizes
  BdSizes <- MCBdSizes
SPECIFICATION FairSpec
CHECK_DEADLOCK FALSE
INVARIANTS
  TypeOK
  RepairLeavesConsistentImage
  RepairIsFixedPoint
  RecheckableAfterInterruption
PROPERTIES
  Terminates
