CONSTANTS
  MaxEntries = 4
  MaxHolders = 2
  ArrayIds = {1, 2}
SPECIFICATION Spec
CHECK_DEADLOCK FALSE
INVARIANTS
  TypeOK
  MemorySafe
  NoLeakOnReturn
  ResultIsListing
