SPECIFICATION Spec
CONSTANTS
  Q = 5
  P = 8191
  Debug = TRUE
  NumLimbs = 2
  None = None
  Kinds <- MCRepeating
CHECK_DEADLOCK FALSE
INVARIANT ReplaySatisfied
