CONSTANTS
  w1 = w1
  w2 = w2
  t1 = t1
  Writers = {w1, w2}
  Watchers = {t1}
  Capacity = 1
  Base = 0
  Sync = TRUE
  MaxRev = 3
SPECIFICATION FairSpec
INVARIANTS
  TypeOK
  WalInOrder
  WatchersInOrder
  ProgressCovers
  JobsAccounted
  SpoolJustified
PROPERTIES
  SyncAckAfterWal
  EverySetAnswers
  EveryCommitPublished
CHECK_DEADLOCK FALSE
