CONSTANTS
  LibraryDetailWorkers = 4
  MaxLibraries = 6
SPECIFICATION FairSpec
INVARIANTS
  TypeOK
  OnePlaceEach
  CompleteOrFailed
PROPERTIES
  CollectReturns
