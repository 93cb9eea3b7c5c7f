CONSTANTS
  s1 = s1
  s2 = s2
  g1 = g1
  Setters = {s1, s2}
  Rangers = {g1}
  NumKeys = 2
  Requirements = {}
  Limits = {1, 2}
  MaxRev = 3
  MaxCompact = 2
SPECIFICATION Spec
SYMMETRY Symmetry
INVARIANTS
  TypeOK
  ItemsMatchLog
  
  
