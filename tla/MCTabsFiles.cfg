SPECIFICATION Spec
CONSTANTS
  Tab = {t1, t2}
  Room = {r1, r2}
  NoTab = NoTab
  MaxDocs = 2
  MaxSends = 0
CHECK_DEADLOCK FALSE
PROPERTIES OrphansGo
