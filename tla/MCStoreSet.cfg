CONSTANTS
  s1 = s1
  s2 = s2
  Setters = {s1, s2}
  Rangers = {}
  NumKeys = 1
  Requirements <- MCRequirements
  Limits = {}
  MaxRev = 3
  MaxCompact = 2
SPECIFICATION Spec
SYMMETRY Symmetry
INVARIANTS
  VersionChain
  CompareExcludes
  PrevNotStale
CHECK_DEADLOCK FALSE
