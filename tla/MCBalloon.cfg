CONSTANTS
  p1 = p1
  p2 = p2
  b1 = b1
  b2 = b2
  NoProc = NoProc
  Procs <- MCProcs
  Blocks <- MCBlocks
  MaxCrashes = 1
SYMMETRY MCSymmetry
SPECIFICATION Spec
INVARIANTS
  TypeOK
  FreeListInBalloon
PROPERTIES
  ImplementsDevice
