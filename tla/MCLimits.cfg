SPECIFICATION Spec
CONSTANTS
  V4 = {a4}
  Network <- MCNetwork
  Host <- MCHost
  Socket = {s1}
  Limit = 3
  Cost = 2
  Refill = 1
  RelayLimit = 2
  RelayRefill = 1
  IDLE_BUCKET_TTL = 3
  MAX_BUCKETS = 2
  MaxTime = 5
CHECK_DEADLOCK FALSE
INVARIANTS TypeOK
PROPERTIES ImplementsAllowance RelayImplementsAllowance
