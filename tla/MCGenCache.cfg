SPECIFICATION Spec
CONSTANTS
  k1 = k1
  k2 = k2
  r1 = r1
  r2 = r2
  w1 = w1
  w2 = w2
  Keys = {k1, k2}
  Readers = {r1, r2}
  Writers = {w1, w2}
  MaxWrites = 3
SYMMETRY Symmetry
INVARIANTS
  AckedIsVisible
  StaleOnlyUnannounced
CHECK_DEADLOCK FALSE
