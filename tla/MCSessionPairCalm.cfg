SPECIFICATION Spec
CONSTANTS
  MaxTexts = 1
  MaxOffers = 1
  Faults = {}
  MaxFaults = 0
CHECK_DEADLOCK FALSE
INVARIANTS TypeOK NobodyTerminates NoTextLost
PROPERTIES BothHarden
