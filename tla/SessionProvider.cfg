SPECIFICATION Spec
CONSTANTS
  Sessions = {s1, s2}
  Providers = {p1, p2, p3}
  Fallbacks = {p2, p3}
  First = p1
  None = None
  Threshold = 2
  MaxRebuilds = 1
  MaxTries = 2
INVARIANTS
  TypeOK
  NoLentPinLeft
SYMMETRY Symmetry
CHECK_DEADLOCK FALSE
