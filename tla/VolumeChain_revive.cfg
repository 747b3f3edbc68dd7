CONSTANTS
  Archives = 2
  Volumes = 1
  Closers = {c1}
  None = None
SPECIFICATION Spec
INVARIANT RevivedWorkersRun
