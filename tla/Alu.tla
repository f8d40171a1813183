--------------------------------- MODULE Alu ---------------------------------
(***************************************************************************)
(* Integer arithmetic, comparisons and the arithmetic of AMOs, for words   *)
(* of XLEN bits with halves of HLEN bits (64 and 32 in the code).          *)
(* Source: cpu.cpp (OP_IMM to OP_32, BRANCH, AMO).  A register holds a     *)
(* signed number; the encodings of OP_IMM_32 and OP_32 that the ISA does   *)
(* not define are left out.                                                *)
(***************************************************************************)
EXTENDS Integers, Bitwise

CONSTANTS XLEN, HLEN

ASSUME WidthAssumption ==
  /\ XLEN \in {4, 8, 16} /\ HLEN \in Nat /\ 2 * HLEN = XLEN

Signed(v, w) == LET u == v % 2^w IN IF u >= 2^(w - 1) THEN u - 2^w ELSE u

S(v) == Signed(v, XLEN)      \* (int64_t)
U(v) == v % 2^XLEN           \* (uint64_t)
SW(v) == Signed(v, HLEN)     \* (int32_t)
UW(v) == v % 2^HLEN          \* (uint32_t)
Regs == -2^(XLEN - 1) .. 2^(XLEN - 1) - 1

(* The process is killed by SIGFPE: the host's division overflows.  No      *)
(* register can hold this number.                                          *)
Killed == 2^XLEN

(* C's division rounds towards zero.                                       *)
Abs(a) == IF a < 0 THEN -a ELSE a
Quot(a, b) == IF (a < 0) = (b < 0) THEN Abs(a) \div Abs(b) ELSE -(Abs(a) \div Abs(b))
Rem(a, b) == a - b * Quot(a, b)
Bool(b) == IF b THEN 1 ELSE 0

BaseOps == {"add", "sub", "sll", "slt", "sltu", "xor", "srl", "sra", "or", "and"}

(* OP_IMM and OP: y is the immediate or the second register.               *)
Base(op, x, y) ==
  CASE op = "add" -> S(x + y)
    [] op = "sub" -> S(x - y)
    [] op = "sll" -> S(x * 2^(y % XLEN))
    [] op = "slt" -> Bool(x < y)
    [] op = "sltu" -> Bool(U(x) < U(y))
    [] op = "xor" -> S(U(x) ^^ U(y))
    [] op = "or" -> S(U(x) | U(y))
    [] op = "and" -> S(U(x) & U(y))
    [] op = "srl" -> S(U(x) \div 2^(y % XLEN))
    [] op = "sra" -> x \div 2^(y % XLEN)

WordOps == {"addw", "subw", "sllw", "srlw", "sraw"}

(* OP_IMM_32 and OP_32.                                                    *)
BaseWord(op, x, y) ==
  CASE op = "addw" -> SW(SW(x) + SW(y))
    [] op = "subw" -> SW(SW(x) - SW(y))
    [] op = "sllw" -> SW(SW(x) * 2^(y % HLEN))
    [] op = "srlw" -> SW(UW(x) \div 2^(y % HLEN))
    [] op = "sraw" -> SW(x) \div 2^(y % HLEN)

MulDivOps == {"mul", "mulh", "mulhsu", "mulhu", "div", "divu", "rem", "remu"}
Overflows(x, y) == x = -2^(XLEN - 1) /\ y = -1

(* Mutant: MULHSU takes its second operand as signed.                      *)
MulHighSigned(op, x, y) ==
  S((CASE op = "mulh" -> x * y [] op = "mulhsu" -> x * y [] op = "mulhu" -> U(x) * U(y))
    \div 2^XLEN)

(* The high half of the product, computed with twice the width.            *)
MulHigh(op, x, y) ==
  S((CASE op = "mulh" -> x * y [] op = "mulhsu" -> x * U(y) [] op = "mulhu" -> U(x) * U(y))
    \div 2^XLEN)

Divide(op, x, y) ==
  CASE op = "div" -> IF y = 0 THEN -1 ELSE IF Overflows(x, y) THEN x ELSE Quot(x, y)
    [] op = "rem" -> IF y = 0 THEN x ELSE IF Overflows(x, y) THEN 0 ELSE Rem(x, y)
    [] op = "divu" -> IF y = 0 THEN -1 ELSE S(U(x) \div U(y))
    [] op = "remu" -> IF y = 0 THEN x ELSE S(U(x) % U(y))

MulDiv(op, x, y) ==
  CASE op = "mul" -> S(x * y)
    [] op \in {"mulh", "mulhsu", "mulhu"} -> MulHigh(op, x, y)
    [] OTHER -> Divide(op, x, y)

MulDivWordOps == {"mulw", "divw", "divuw", "remw", "remuw"}
MinW == -2^(HLEN - 1)

(* The test for overflow in DIVW is of whole registers; the division is of *)
(* halves, and the host's instruction traps on overflow.                   *)
MulDivWord(op, x, y) ==
  CASE op = "mulw" -> SW(SW(x) * SW(y))
    [] op = "divw" -> IF SW(y) = 0 THEN -1
                      ELSE IF x = MinW /\ y = -1 THEN SW(x)
                      ELSE IF SW(x) = MinW /\ SW(y) = -1 THEN Killed
                      ELSE Quot(SW(x), SW(y))
    [] op = "divuw" -> IF UW(y) = 0 THEN -1 ELSE SW(UW(x) \div UW(y))
    [] op = "remw" -> IF SW(y) = 0 THEN SW(x)
                      ELSE IF SW(x) = MinW /\ SW(y) = -1 THEN 0
                      ELSE Rem(SW(x), SW(y))
    [] op = "remuw" -> IF UW(y) = 0 THEN SW(x) ELSE SW(UW(x) % UW(y))

AmoOps == {"amoswap", "amoadd", "amoxor", "amoand", "amoor",
           "amomin", "amomax", "amominu", "amomaxu"}

(* ovalue, from the value loaded and the source, both of them already cut  *)
(* to the width of the access; what is stored is cut again.                *)
Combine(op, o, src, uo, usrc) ==
  CASE op = "amoswap" -> src
    [] op = "amoadd" -> S(o + src)
    [] op = "amoxor" -> S(U(o) ^^ U(src))
    [] op = "amoand" -> S(U(o) & U(src))
    [] op = "amoor" -> S(U(o) | U(src))
    [] op = "amomin" -> IF o < src THEN o ELSE src
    [] op = "amomax" -> IF o > src THEN o ELSE src
    [] op = "amominu" -> S(IF uo < usrc THEN uo ELSE usrc)
    [] op = "amomaxu" -> S(IF uo > usrc THEN uo ELSE usrc)

Amo(op, x, y) == Combine(op, x, y, U(x), U(y))

(* Mutant: the unsigned operands of an AMO.W are the sign-extended ones.   *)
AmoWordSigned(op, x, y) == Combine(op, SW(x), SW(y), SW(x), SW(y))

AmoWord(op, x, y) == Combine(op, SW(x), SW(y), UW(x), UW(y))

Branches == {"beq", "bne", "blt", "bge", "bltu", "bgeu"}

(* jflag.                                                                  *)
Taken(op, x, y) ==
  CASE op = "beq" -> x = y
    [] op = "bne" -> x # y
    [] op = "blt" -> x < y
    [] op = "bge" -> x >= y
    [] op = "bltu" -> U(x) < U(y)
    [] op = "bgeu" -> U(x) >= U(y)
==============================================================================
