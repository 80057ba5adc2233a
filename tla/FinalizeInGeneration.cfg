SPECIFICATION Spec
CONSTANTS
  Q = 5
  P = 8191
  Debug = FALSE
  NumLimbs = 2
  None = None
  Kinds <- MCFinalizing
CHECK_DEADLOCK FALSE
INVARIANT GeneratedOutputBound
