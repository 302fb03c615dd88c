SPECIFICATION Spec
CONSTANTS
  Tab = {t1, t2}
  Room = {r1, r2}
  NoTab = NoTab
  MaxDocs = 3
  MaxSends = 1
SYMMETRY TabSymmetry
CHECK_DEADLOCK FALSE
INVARIANTS DirectoryKept ReuseNeedsLateCopy
