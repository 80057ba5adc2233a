SPECIFICATION Spec
CONSTANTS
  T = 5
  L = 4
  QModT <- MCQModT
  Handles = {x, y}
  Null = Null
  Messages = {2}
  Techniques = {"FIXEDMANUAL", "FIXEDAUTO", "FLEXIBLEAUTO", "FLEXIBLEAUTOEXT"}
  MaxDeg = 3
SYMMETRY HandleSymmetry
CHECK_DEADLOCK FALSE
INVARIANTS TypeOK DecryptsRight CompressKeepsMessage CanonicalFactor LevelInv OperandsAgree DepthSuffices
