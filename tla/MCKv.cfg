CONSTANTS
  Nodes = {n1, n2}
  NumKeys = 1
  MaxIndex = 3
  MaxSnapshots = 0
  MaxRestarts = 0
  Calls = {c1, c2}
  Kinds = {"put_prev_kv", "put_ignore_value", "delete", "txn_put", "txn_delete", "range", "unsupported"}
  Requirements <- MCRequirements
  Modes = {TRUE, FALSE}
SPECIFICATION Spec
SYMMETRY Symmetry
INVARIANTS TxnEntitled PrevReplaced  
CHECK_DEADLOCK FALSE
