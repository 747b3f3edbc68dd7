CONSTANTS
  MaxVolumes = 2
  MaxHeaders = 3
  MaxPayload = 1
  Bounds <- OneSizeRar5
SPECIFICATION Spec
PROPERTIES
  SolidRefusedAfterCut
