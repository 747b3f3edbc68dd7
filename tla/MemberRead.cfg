CONSTANTS
  Leaves = 2
  HBlock = 2
  CBlock = 2
  InCap = 4
  PlainSizes = {0, 9}
  CryptSizes = {5}
  Payloads = {0, 3, 9}
  MaxParts = 2
  Requests = {0, 1, 3}
  CopyBuf = 9
  Damaged = {2}
SPECIFICATION FairSpec
INVARIANTS
  DeliversContent
  CleanVerdictIsTrue
  FailureIsNamed
  NothingAfterClose
PROPERTY ReadReturns
