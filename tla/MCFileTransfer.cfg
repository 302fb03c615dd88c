SPECIFICATION Spec
CONSTANTS
  Chunks = 3
  INITIAL_CREDIT = 2
  RECV_INITIAL_CREDIT = 1
  RECV_PENDING_HARD_CAP = 1
  MaxTransfers = 2
  Faults = {"drop", "backpressure", "file", "disk", "post", "kill"}
  MaxFaults = 2
CHECK_DEADLOCK FALSE
INVARIANTS TypeOK FinalizeIsComplete StoredIsWhole CreditExact SendingHasLoop
PROPERTIES TransfersEnd
