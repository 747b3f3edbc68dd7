CONSTANTS
  MaxVolumes = 2
  MaxHeaders = 4
  MaxPayload = 1
  Bounds <- BothFormats
SPECIFICATION Spec
INVARIANTS
  StagedKeepsVolume
  OwnUnitsOnly
  EveryMemberHandedOut
  CutIsReported
  LateStartIsReal
PROPERTIES
  SolidNeedsWholeHistory
  NothingAfterFatal
