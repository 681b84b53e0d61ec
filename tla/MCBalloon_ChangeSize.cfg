CONSTANTS
  p1 = p1
  p2 = p2
  b1 = b1
  b2 = b2
  NoProc = NoProc
  Procs <- MCProcs
  Blocks <- MCBlocks
  MaxCrashes = 0
SYMMETRY MCSymmetry
SPECIFICATION Spec
CONSTRAINT ChangeSizeOnly
INVARIANTS
  BalloonStateReleased
