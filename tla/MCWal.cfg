CONSTANTS
  a = a
  b = b
  c = c
  h1 = h1
  h2 = h2
  Prefixes = {a, b, c}
  NoPersist = {c}
  Threads = {h1, h2}
  Sync = TRUE
  MaxFailures = 1
  MaxRev = 3
SPECIFICATION FairSpec
INVARIANTS
  RecordsInOrder
  AckedReplayed
  ReplayInOrder
PROPERTIES
  EveryRecordHandled
CHECK_DEADLOCK FALSE
