SPECIFICATION Spec
CONSTANTS
  Drafts <- MCDrafts
  FileSizes <- MCFileSizes
  ReadSizes <- MCReadSizes
  MaxInputs = 1
  MaxReads = 3
CHECK_DEADLOCK FALSE
INVARIANTS ReadBackAsSent LostToEscapes StoredInPlace
