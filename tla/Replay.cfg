SPECIFICATION Spec
CONSTANTS
  Q = 5
  P = 8191
  Debug = FALSE
  NumLimbs = 2
  None = None
  Kinds <- MCTestsAndBenchmark
CHECK_DEADLOCK FALSE
INVARIANTS TypeOK ReplaySatisfied ReplayEqualMod ReplayNeverStops LateOutputBound DeclaredFirstIsPrimary
PROPERTY ReplayKeepsConstraints
