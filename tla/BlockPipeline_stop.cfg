SPECIFICATION FairSpec
CONSTANTS
  Workers = 2
  Blocks = 2
  Members = 2
  Gens = 2
  Closers = {c1}
  Shapes <- Plain
INVARIANTS SlotsPrivate ClosedLeavesNoWorkers
PROPERTIES MatchesSerial TraversalReturns CloseReturns
CHECK_DEADLOCK FALSE
