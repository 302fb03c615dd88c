SPECIFICATION Spec
CONSTANTS
  MaxTexts = 0
  MaxOffers = 0
  Faults = {"drop", "reload", "leave", "failure", "backpressure"}
  MaxFaults = 2
CHECK_DEADLOCK FALSE
INVARIANTS InSync
PROPERTIES TerminatedIsSilent PassagesEnd
