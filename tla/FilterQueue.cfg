CONSTANTS
  MaxQueued = 2
  MaxFilter = 3
  WinSize = 2
  Target = 2
  MaxMatch = 2
  Requests = {1, 2}
  MaxDecoded = 5
  MaxRecords = 3
  Members = 2
SPECIFICATION FairSpec
INVARIANTS
  FilteredExactly
  CursorsAgree
PROPERTIES
  NoEmptyRead
  ReadReturns
CHECK_DEADLOCK FALSE
