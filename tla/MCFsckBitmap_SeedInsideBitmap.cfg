CONSTANTS
  Cluster = 1048576
  MaxBlocks = 70
  MaxL1 = 70
  HeaderBytes = 64
SPECIFICATION Spec
INVARIANTS
  SeedInsideBitmap
