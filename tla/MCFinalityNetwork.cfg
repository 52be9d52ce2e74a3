SPECIFICATION Spec
CONSTANTS
  a = a
  b = b
  c = c
  d = d
  x = x
  y = y
  w = w
  None = None
  Validators = {a, b, c, d}
  Byzantine = {d}
  Heights = {1, 2}
  Blocks = {x, y, w}
  HeightOf <- MCHeightOf
  Committee <- Shared
  MinCommittee = 4
SYMMETRY Symmetric
INVARIANTS Agreement
PROPERTIES ImplementsFinality
CHECK_DEADLOCK FALSE
