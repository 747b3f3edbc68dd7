CONSTANTS
  Secret = {p, q}
  Empty = Empty
  MaxGuesses = 2
  MaxBlocks = 2
  MaxVolumes = 2
SYMMETRY SecretSymmetry
SPECIFICATION Spec
INVARIANTS
  LatchIsVerified
  RefusalIsDeserved
  InspectionAgrees
