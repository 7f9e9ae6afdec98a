CONSTANTS
  MaxTables = 2
  MaxOptions = 3
SPECIFICATION Spec
INVARIANTS
  MainTypeOK
  NoMemoryFault
  FreesInAnyOrder
  FilesClosedOnce
  NothingHeldAtExit
  BuildLeaksNothing
