CONSTANTS
  MinSize = 4
  MaxFill = 2
  Decommits = 4
  MaxMatch = 2
  Dicts = {0, 5}
  Caps = {4, 5}
  Bytes = {0, 1}
  Zero = 0
  Requests = {1, 2}
  MaxHistory = 7
SPECIFICATION Spec
INVARIANTS
  TypeOK
  HistoryMatches
  ServesInOrder
  ReadKeepsPromise
  WindowFitsMember
  CapacityMeansCapped
PROPERTIES
  SolidKeepsHistory
