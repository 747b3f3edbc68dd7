CONSTANTS
  MaxVolumes = 2
  MaxHeaders = 3
  MaxPayload = 1
  Bounds <- StagedEmptyRar5
SPECIFICATION Spec
INVARIANTS
  StagedKeepsVolume
