CONSTANTS
  w1 = w1
  w2 = w2
  w3 = w3
  t1 = t1
  Writers = {w1, w2, w3}
  Watchers = {t1}
  Capacity = 1
  Base = 1
  Sync = FALSE
  MaxRev = 3
SPECIFICATION Spec
SYMMETRY Symmetry
INVARIANT
  SpoolJustified
CHECK_DEADLOCK FALSE
