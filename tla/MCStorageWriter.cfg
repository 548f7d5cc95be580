SPECIFICATION Spec
CONSTANTS
  c1 = c1
  c2 = c2
  b1 = b1
  b2 = b2
  r1 = r1
  r2 = r2
  Clusters = {c1, c2}
  Backends = {b1, b2}
  Restores = {r1}
  None = None
  MaxChanges = 2
CHECK_DEADLOCK FALSE
SYMMETRY Symmetry
INVARIANTS OneWriter RestoreAlone
