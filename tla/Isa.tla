--------------------------------- MODULE Isa ---------------------------------
(***************************************************************************)
(* Decoding and arithmetic against the instruction set: one instruction at *)
(* a time is decoded or computed as cpu.cpp does it (modules Decode and    *)
(* Alu), and the outcome is compared with the layouts and the laws of the  *)
(* RISC-V unprivileged specification, which cpu.cpp says it follows.       *)
(***************************************************************************)
EXTENDS Decode, Alu

CONSTANT Operands   \* register values the arithmetic is tried with

ASSUME OperandsAssumption == Operands \subseteq Regs

VARIABLE ran        \* the instruction the hart has just executed, if any

None == [kind |-> "none"]
HalfWords == SUBSET (0 .. 15)

-----------------------------------------------------------------------------
(* The instruction set: layouts of immediates and the expansion of RVC.    *)

(* Which bit of the immediate each of the bits 12 to 2 of an RVC word is.  *)
Layout ==
  [ADDI4SPN |-> <<5, 4, 9, 8, 7, 6, 2, 3, -1, -1, -1>>,
   W        |-> <<5, 4, 3, -1, -1, -1, 2, 6, -1, -1, -1>>,
   D        |-> <<5, 4, 3, -1, -1, -1, 7, 6, -1, -1, -1>>,
   CI       |-> <<5, -1, -1, -1, -1, -1, 4, 3, 2, 1, 0>>,
   LUI      |-> <<17, -1, -1, -1, -1, -1, 16, 15, 14, 13, 12>>,
   ADDI16SP |-> <<9, -1, -1, -1, -1, -1, 4, 6, 8, 7, 5>>,
   J        |-> <<11, 4, 9, 8, 10, 6, 7, 3, 2, 1, 5>>,
   B        |-> <<8, 4, 3, -1, -1, -1, 7, 6, 2, 1, 5>>,
   LWSP     |-> <<5, -1, -1, -1, -1, -1, 4, 3, 2, 7, 6>>,
   LDSP     |-> <<5, -1, -1, -1, -1, -1, 4, 3, 8, 7, 6>>,
   SWSP     |-> <<5, 4, 3, 2, 7, 6, -1, -1, -1, -1, -1>>,
   SDSP     |-> <<5, 4, 3, 8, 7, 6, -1, -1, -1, -1, -1>>]

LaidOut(h, name) == {Layout[name][13 - i] : i \in h \cap 2 .. 12} \ {-1}
SignedImm(h, name) == SignFrom(LaidOut(h, name), Layout[name][1])

Insn(op, f3, rd, rs1, rs2, imm) ==
  [op |-> op, rd |-> rd, rs1 |-> rs1, rs2 |-> rs2, funct3 |-> f3, funct7 |-> {},
   alt |-> FALSE, imm |-> imm]
Alternate(d) == [d EXCEPT !.alt = TRUE]

(* The 32-bit instruction an RVC word stands for.                          *)
Expand(h) ==
  LET full == {i - 7 : i \in h \cap 7 .. 11}
      second == {i - 2 : i \in h \cap 2 .. 6}
      p1 == {i - 7 : i \in h \cap 7 .. 9} \cup {3}
      p2 == {i - 2 : i \in h \cap 2 .. 4} \cup {3}
      op16 == OpFun16(h)
      ca(op, f3) == Insn(op, f3, p1, p1, p2, {})
  IN
  CASE op16 = "ADDI4SPN" -> Insn("OP_IMM", {}, p2, sp, {}, LaidOut(h, "ADDI4SPN"))
    [] op16 = "LW" -> Insn("LOAD", {1}, p2, p1, {}, LaidOut(h, "W"))
    [] op16 = "LD" -> Insn("LOAD", {0, 1}, p2, p1, {}, LaidOut(h, "D"))
    [] op16 = "SW" -> Insn("STORE", {1}, {}, p1, p2, LaidOut(h, "W"))
    [] op16 = "SD" -> Insn("STORE", {0, 1}, {}, p1, p2, LaidOut(h, "D"))
    [] op16 = "ADDI" -> Insn("OP_IMM", {}, full, full, {}, SignedImm(h, "CI"))
    [] op16 = "ADDIW" -> Insn("OP_IMM_32", {}, full, full, {}, SignedImm(h, "CI"))
    [] op16 = "LI" -> Insn("OP_IMM", {}, full, {}, {}, SignedImm(h, "CI"))
    [] op16 = "LUI" /\ full = sp -> Insn("OP_IMM", {}, sp, sp, {}, SignedImm(h, "ADDI16SP"))
    [] op16 = "LUI" /\ full # sp -> Insn("LUI", {}, full, {}, {}, SignedImm(h, "LUI"))
    [] op16 = "J" -> Insn("JAL", {}, {}, {}, {}, SignedImm(h, "J"))
    [] op16 = "BEQZ" -> Insn("BRANCH", {}, {}, p1, {}, SignedImm(h, "B"))
    [] op16 = "BNEZ" -> Insn("BRANCH", {0}, {}, p1, {}, SignedImm(h, "B"))
    [] op16 = "SLLI" -> Insn("OP_IMM", {0}, full, full, {}, LaidOut(h, "CI"))
    [] op16 = "LWSP" -> Insn("LOAD", {1}, full, sp, {}, LaidOut(h, "LWSP"))
    [] op16 = "LDSP" -> Insn("LOAD", {0, 1}, full, sp, {}, LaidOut(h, "LDSP"))
    [] op16 = "SWSP" -> Insn("STORE", {1}, {}, sp, second, LaidOut(h, "SWSP"))
    [] op16 = "SDSP" -> Insn("STORE", {0, 1}, {}, sp, second, LaidOut(h, "SDSP"))
    [] op16 = "JALR" /\ second = {} /\ full # {} ->
         Insn("JALR", {}, IF 12 \in h THEN {0} ELSE {}, full, {}, {})
    [] op16 = "JALR" /\ second # {} ->
         Insn("OP", {}, full, IF 12 \in h THEN full ELSE {}, second, {})
    [] op16 = "MISC_ALU" ->
         CASE h \cap {10, 11} = {} -> Insn("OP_IMM", {0, 2}, p1, p1, {}, LaidOut(h, "CI"))
           [] h \cap {10, 11} = {10} ->
                Alternate(Insn("OP_IMM", {0, 2}, p1, p1, {}, LaidOut(h, "CI")))
           [] h \cap {10, 11} = {11} -> Insn("OP_IMM", {0, 1, 2}, p1, p1, {}, SignedImm(h, "CI"))
           [] OTHER ->
                CASE h \cap {5, 6, 12} = {} -> Alternate(ca("OP", {}))
                  [] h \cap {5, 6, 12} = {5} -> ca("OP", {2})
                  [] h \cap {5, 6, 12} = {6} -> ca("OP", {1, 2})
                  [] h \cap {5, 6, 12} = {5, 6} -> ca("OP", {0, 1, 2})
                  [] h \cap {5, 6, 12} = {12} -> Alternate(ca("OP_32", {}))
                  [] h \cap {5, 6, 12} = {5, 12} -> ca("OP_32", {})

(* RVC words that stand for no instruction of RV64IMAC, and C.EBREAK.      *)
Unexpanded(h) ==
  \/ OpFun16(h) \in {"FLD", "FSD", "FLDSP", "FSDSP", "RES1"}
  \/ OpFun16(h) = "MISC_ALU" /\ {6, 10, 11, 12} \subseteq h
  \/ OpFun16(h) = "JALR" /\ h \cap 2 .. 11 = {}

(* The 32-bit word of an instruction.                                      *)
Put(field, at) == {i + at : i \in field}
ImmWord(type, imm) ==
  CASE type = "I" -> Put(imm \cap 0 .. 11, 20)
    [] type = "S" -> Put(imm \cap 5 .. 11, 20) \cup Put(imm \cap 0 .. 4, 7)
    [] type = "B" -> Put(imm \cap {12}, 19) \cup Put(imm \cap 5 .. 10, 20)
                     \cup Put(imm \cap 1 .. 4, 7) \cup Put(imm \cap {11}, -4)
    [] type = "U" -> imm \cap 12 .. 31
    [] type = "J" -> Put(imm \cap {20}, 11) \cup Put(imm \cap 1 .. 10, 20)
                     \cup Put(imm \cap {11}, 9) \cup (imm \cap 12 .. 19)
    [] OTHER -> {}
Encode(d) ==
  LET code == CHOOSE n \in SUBSET (0 .. 4) : inst_op_32[1 + Num(n)] = d.op IN
  {0, 1} \cup Put(code, 2) \cup Put(d.rd, 7) \cup Put(d.funct3, 12) \cup Put(d.rs1, 15)
  \cup Put(d.rs2, 20) \cup (IF d.alt THEN {30} ELSE {})
  \cup ImmWord(inst_type_lookup_32(d.op), d.imm)

(* The fields that execution looks at; the others are whatever is there.   *)
Used(d) ==
  LET type == inst_type_lookup_32(d.op)
      shift == d.op = "OP_IMM" /\ d.funct3 \in {{0}, {0, 2}}
  IN [op |-> d.op,
      rd |-> IF type \in {"S", "B"} THEN {} ELSE d.rd,
      rs1 |-> IF type \in {"U", "J"} THEN {} ELSE d.rs1,
      rs2 |-> IF type \in {"R", "S", "B"} THEN d.rs2 ELSE {},
      funct3 |-> IF type \in {"U", "J"} THEN {} ELSE d.funct3,
      funct7 |-> IF type = "R" THEN d.funct7 \ {5} ELSE {},
      alt |-> d.alt /\ (type = "R" \/ (shift /\ d.funct3 = {0, 2})),
      imm |-> IF type = "R" THEN {} ELSE IF shift THEN d.imm \cap 0 .. 5 ELSE d.imm]

(* Immediates of a type, with up to two bits set below the sign or with    *)
(* the sign and one more.                                                  *)
TopBit == [I |-> 11, S |-> 11, B |-> 12, U |-> 31, J |-> 20]
LowBit == [I |-> 0, S |-> 0, B |-> 1, U |-> 12, J |-> 1]
WideInsns ==
  UNION {{Insn(op, {}, IF op \in {"STORE", "BRANCH"} THEN {} ELSE {0, 4},
               IF op \in {"LUI", "JAL"} THEN {} ELSE {1, 4},
               IF op \in {"STORE", "BRANCH"} THEN {2, 4} ELSE {},
               SignFrom({i, j}, TopBit[inst_type_lookup_32(op)])) :
            i, j \in LowBit[inst_type_lookup_32(op)] .. TopBit[inst_type_lookup_32(op)]} :
         op \in {"LOAD", "STORE", "BRANCH", "LUI", "JAL"}}

-----------------------------------------------------------------------------
(* The hart executes one instruction after another.                        *)

(* Decoding of an RVC word.                                                *)
Compressed ==
  /\ ran = None
  /\ \E h \in HalfWords :
       /\ Field(h, 0, 2) # {0, 1}
       /\ ran' = [kind |-> "rvc", word |-> h, dec |-> Decode16(h)]

(* Decoding of a 32-bit word.                                              *)
Wide ==
  /\ ran = None
  /\ \E d \in WideInsns : ran' = [kind |-> "wide", insn |-> d, dec |-> Decode32(Encode(d))]

Result(op, x, y) ==
  CASE op \in BaseOps -> Base(op, x, y)
    [] op \in WordOps -> BaseWord(op, x, y)
    [] op \in MulDivOps -> MulDiv(op, x, y)
    [] op \in MulDivWordOps -> MulDivWord(op, x, y)
    [] op \in Branches -> Bool(Taken(op, x, y))
    [] op \in AmoOps -> Amo(op, x, y)

Computed ==
  /\ ran = None
  /\ \E x, y \in Operands,
        op \in BaseOps \cup WordOps \cup MulDivOps \cup MulDivWordOps \cup Branches \cup AmoOps :
       ran' = [kind |-> "alu", op |-> op, x |-> x, y |-> y, res |-> Result(op, x, y)]

(* An AMO on half a word stores the low half of ovalue.                    *)
ComputedAmoWord ==
  /\ ran = None
  /\ \E x, y \in Operands, op \in AmoOps :
       ran' = [kind |-> "amow", op |-> op, x |-> x, y |-> y, res |-> SW(AmoWord(op, x, y))]

Retire == ran # None /\ ran' = None

Init == ran = None
Next == Compressed \/ Wide \/ Computed \/ ComputedAmoWord \/ Retire
Spec == Init /\ [][Next]_ran

-----------------------------------------------------------------------------
(* Properties.                                                             *)

(* Every result fits a register, except where the host's division traps.   *)
TypeOK ==
  ran.kind \in {"alu", "amow"} =>
    ran.res \in Regs \/ (ran.op = "divw" /\ ran.res = Killed)

(* Every RVC instruction decodes into the fields of the instruction it     *)
(* stands for, scrambled immediates and implied registers included.        *)
RvcExpands ==
  ran.kind = "rvc" /\ ~Unexpanded(ran.word) => Used(ran.dec) = Expand(ran.word)

(* The decoder of 32-bit words agrees with the encoding, and so with the   *)
(* decoder of RVC: both get the same fields for the same instruction.      *)
DecodersAgree ==
  /\ ran.kind = "wide" => Used(ran.dec) = ran.insn
  /\ ran.kind = "rvc" /\ ~Unexpanded(ran.word) =>
       Used(Decode32(Encode(Expand(ran.word)))) = Used(ran.dec)

(* Quotient and remainder fit together for every pair of operands, zero    *)
(* and overflow included, signed and unsigned: dividend = quotient *       *)
(* divisor + remainder, with a remainder that is smaller than the divisor  *)
(* and has the sign of the dividend.                                       *)
DivisionLaw ==
  ran.kind = "alu" /\ ran.op \in {"div", "divu"} =>
    LET x == ran.x  y == ran.y  q == ran.res
        r == MulDiv(IF ran.op = "div" THEN "rem" ELSE "remu", x, y)
    IN /\ S(q * y + r) = x
       /\ y = 0 => q = -1
       /\ ran.op = "div" /\ y # 0 => Abs(r) < Abs(y) /\ (r = 0 \/ (r < 0 <=> x < 0))
       /\ ran.op = "divu" /\ y # 0 => U(r) < U(y)

(* MUL and the MULH of any signedness are the halves of one product.       *)
ProductLaw ==
  ran.kind = "alu" /\ ran.op \in {"mulh", "mulhsu", "mulhu"} =>
    LET x == IF ran.op = "mulhu" THEN U(ran.x) ELSE ran.x
        y == IF ran.op = "mulh" THEN ran.y ELSE U(ran.y)
        high == IF ran.op = "mulhu" THEN U(ran.res) ELSE ran.res
    IN high * 2^XLEN + U(MulDiv("mul", ran.x, ran.y)) = x * y

(* A W instruction sees the low halves of its operands only and returns a  *)
(* sign-extended half.  DIVW is the exception: where the low halves        *)
(* overflow and the registers are not their sign extensions, the emulator  *)
(* is killed.                                                              *)
WordOpsLocal ==
  ran.kind = "alu" /\ ran.op \in WordOps \cup MulDivWordOps =>
    \/ ran.res = SW(ran.res) /\ ran.res = Result(ran.op, SW(ran.x), SW(ran.y))
    \/ /\ ran.op = "divw" /\ ran.res = Killed
       /\ SW(ran.x) = MinW /\ SW(ran.y) = -1 /\ ~(ran.x = MinW /\ ran.y = -1)

(* An AMO.W stores what the same AMO would make of the low halves alone:   *)
(* minimum and maximum are those of the halves, signed and unsigned.       *)
AmoWordLocal ==
  ran.kind = "amow" =>
    /\ ran.op = "amomin" => ran.res = IF SW(ran.x) < SW(ran.y) THEN SW(ran.x) ELSE SW(ran.y)
    /\ ran.op = "amomax" => ran.res = IF SW(ran.x) > SW(ran.y) THEN SW(ran.x) ELSE SW(ran.y)
    /\ ran.op = "amominu" => UW(ran.res) = IF UW(ran.x) < UW(ran.y) THEN UW(ran.x) ELSE UW(ran.y)
    /\ ran.op = "amomaxu" => UW(ran.res) = IF UW(ran.x) > UW(ran.y) THEN UW(ran.x) ELSE UW(ran.y)

(* Both decoders agree with the instruction set and with each other, for   *)
(* every RVC word and the immediates of every format.                      *)
Decoding == RvcExpands /\ DecodersAgree

(* Multiplication and division obey their laws at every boundary, and all  *)
(* results fit a register.                                                 *)
ArithmeticLaws == TypeOK /\ DivisionLaw /\ ProductLaw

(* Instructions of half width depend on the low halves only: the W forms   *)
(* of OP and OP_IMM, of multiplication and division, and of AMOs.          *)
WordLaws == WordOpsLocal /\ AmoWordLocal

==============================================================================
