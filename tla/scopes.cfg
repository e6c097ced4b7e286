CONSTANTS
  x = x
  y = y
  A = A
  S = S
  U = U
  Name = {x, y}
  Value = {v, w}
  None = none
  Class = {A, S, U}
  Static = {S}
  Unlaid = {U}
  Fields <- MCFields
  MaxDepth = 3
SPECIFICATION Spec
INVARIANTS WalkInv
PROPERTY ScopingSpec
SYMMETRY MCSymmetry
CHECK_DEADLOCK FALSE
