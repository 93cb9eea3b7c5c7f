CONSTANTS
  w1 = w1
  w2 = w2
  t1 = t1
  Writers = {w1, w2}
  Watchers = {t1}
  Capacity = 2
  Base = 0
  Sync = FALSE
  MaxRev = 3
  NumKeys = 1
SPECIFICATION WatchSpec
SYMMETRY Symmetry
INVARIANTS
  OnceInOrder
  NothingMissed

  
CHECK_DEADLOCK FALSE
