CONSTANTS
  w1 = w1
  w2 = w2
  t1 = t1
  Writers = {w1, w2}
  Watchers = {t1}
  Capacity = 3
  Base = 0
  Sync = FALSE
  MaxRev = 3
  NumKeys = 2
SPECIFICATION WatchSpec
SYMMETRY Symmetry
INVARIANTS
  SkippedWereSent
CHECK_DEADLOCK FALSE
