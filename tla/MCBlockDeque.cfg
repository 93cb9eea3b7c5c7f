CONSTANTS
  p1 = p1
  p2 = p2
  p3 = p3
  r1 = r1
  Pushers = {p1, p2, p3}
  Readers = {r1}
  BlockSize = 2
  MaxIndex = 5
  MaxRemoves = 2
SPECIFICATION Spec
SYMMETRY Symmetry
INVARIANTS
  TypeOK
  EntriesInPlace
  PushedReadable
  PanicsOnlyOvertaken
PROPERTIES
  
  ImplementsLog
CHECK_DEADLOCK FALSE
