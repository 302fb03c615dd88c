SPECIFICATION Spec
CONSTANTS
  RESERVATION_BLOCK_TEXT = 1
  RESERVATION_BLOCK_CHUNK = 2
  MAX_COUNTER = 3
  MaxKey = 1
  MaxFrames = 3
  MaxOverrun = 1
INVARIANTS TypeOK NonceUnique RecordAhead
PROPERTIES NeverRollback
CHECK_DEADLOCK FALSE
