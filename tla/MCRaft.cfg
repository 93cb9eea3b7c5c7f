CONSTANTS
  Nodes = {n1, n2, n3}
  NumKeys = 1
  MaxIndex = 3
  MaxSnapshots = 1
  MaxRestarts = 0
  MaxTerm = 2
SPECIFICATION RaftSpec
SYMMETRY Symmetry
INVARIANTS
  ReplicasAgree
  RevisionsAgree
PROPERTIES
  ImplementsStateMachine
CHECK_DEADLOCK FALSE
