SPECIFICATION Spec
CONSTANTS
  P = 257
  FieldBits = 9
  Moduli <- MCModuli
  MaxWires = 4
CHECK_DEADLOCK FALSE
INVARIANTS TypeOK BoundInv CongruentInv RangeInv OutputExact
