CONSTANTS
  ClusterSectors = 2
  L1Slots = 2
  SlotsPerPage = 2
  HeaderSlots = 1
  WordBits = 3
  IsecValues <- MCIsecData
  FileSizes <- MCFileSizes
  BdSizes <- MCBdSizes
SPECIFICATION Spec
CHECK_DEADLOCK FALSE
INVARIANTS
  SlotsWithinDevice
