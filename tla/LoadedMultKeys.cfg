SPECIFICATION Spec
CONSTANTS
  None = None
  p1 = p1
  p2 = p2
  a = a
  b = b
  ParamSets = {p1, p2}
  Contexts = {c1, c2}
  Tags = {a, b}
  Indices = {1, 2}
  Maps = {m1, m2, m3}
  Programs <- MCPrograms
SYMMETRY MCSymmetry
CHECK_DEADLOCK FALSE
PROPERTY LoadKeepsOthers
