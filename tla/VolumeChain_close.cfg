CONSTANTS
  Archives = 1
  Volumes = 3
  Closers = {c1, c2}
  None = None
SYMMETRY CloserSymmetry
SPECIFICATION Spec
INVARIANTS
  ClosedAtMostOnce
  CleanEndIsComplete
  CancelNeverBlamesArchive
