SPECIFICATION Spec
CONSTANTS
  XLEN = 8
  HLEN = 4
  Operands <- MCOperands
INVARIANTS Decoding ArithmeticLaws WordLaws
