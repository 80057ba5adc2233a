SPECIFICATION Spec
CONSTANTS
  Q = 5
  P = 8191
  Debug = TRUE
  NumLimbs = 3
  None = None
  Kinds <- MCShort
CHECK_DEADLOCK FALSE
INVARIANT ReplayEqualMod
