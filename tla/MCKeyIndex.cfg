SPECIFICATION Spec
CONSTANTS
  Keys <- MCKeys
  Starts <- MCStarts
  Ends <- MCEnds
  Watches = {w1}
  MaxRev = 2
CHECK_DEADLOCK FALSE
INVARIANTS TypeOK DirectoriesListed WatchAgreesWithRange OnlyAskedFor
