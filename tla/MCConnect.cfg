SPECIFICATION Spec
CONSTANTS
  Pages = 3
  Faults = {"leave", "drop", "expire", "refuse", "failure"}
  MaxFaults = 1
CHECK_DEADLOCK FALSE
INVARIANTS TypeOK KeyOfTwo OnlyThirdTurnedAway
PROPERTIES PairsUp Settles
