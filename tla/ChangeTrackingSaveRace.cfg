CONSTANTS
  c1 = c1
  c2 = c2
  v1 = v1
  v2 = v2
  u1 = u1
  u2 = u2
  NoChange = NoChange
  Changes = {c1, c2}
  Saves = {v1, v2}
  Undos = {u1, u2}
  MaxPruned = 0
  MaxLosses = 0
SPECIFICATION Spec
SYMMETRY MCSymmetry
INVARIANT
  AnyWriteMarks
CHECK_DEADLOCK FALSE
