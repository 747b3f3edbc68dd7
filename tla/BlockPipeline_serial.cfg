SPECIFICATION Spec
CONSTANTS
  Workers = 1
  Blocks = 3
  Members = 2
  Gens = 2
  Closers = {}
  Shapes <- EveryEnd
INVARIANTS TypeOK TableSetsSuffice
PROPERTY MatchesSerial
CHECK_DEADLOCK FALSE
