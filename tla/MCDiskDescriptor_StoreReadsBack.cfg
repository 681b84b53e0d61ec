CONSTANTS
  Basedir <- MCBasedir
  FileNames <- MCFileNames
  Geometry <- MCGeometry
  MaxImages = 2
  MaxShots = 2
SPECIFICATION Spec
CHECK_DEADLOCK FALSE
INVARIANT
  StoreReadsBack
