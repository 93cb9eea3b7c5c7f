CONSTANTS
  Nodes = {n1, n2, n3}
  NumKeys = 1
  MaxIndex = 3
  MaxSnapshots = 0
  MaxRestarts = 1
  MaxTerm = 2
SPECIFICATION RestartSpec
SYMMETRY Symmetry
PROPERTIES
  CommittedStays
CHECK_DEADLOCK FALSE
