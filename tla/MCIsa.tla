-------------------------------- MODULE MCIsa ---------------------------------
(* Instance of Isa for TLC: all RVC words; bytes as registers, nibbles as  *)
(* their halves, and every value near a boundary of either as operand.     *)
EXTENDS Isa

MCOperands ==
  {-128, -127, -121, -120, -119, -113, -112, -17, -16, -15, -9, -8, -7, -2, -1,
   0, 1, 2, 3, 7, 8, 9, 15, 16, 17, 24, 31, 119, 120, 126, 127}
==============================================================================
