SPECIFICATION Spec
CONSTANTS
  Q = 5
  P = 8191
  Debug = FALSE
  NumLimbs = 2
  None = None
  Kinds <- MCFinalizingLate
CHECK_DEADLOCK FALSE
INVARIANT ReducedOutputBound
