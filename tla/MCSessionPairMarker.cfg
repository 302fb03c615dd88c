SPECIFICATION Spec
CONSTANTS
  MaxTexts = 0
  MaxOffers = 0
  Faults = {"drop"}
  MaxFaults = 1
CHECK_DEADLOCK FALSE
PROPERTIES MarkerCleared
