------------------------------- MODULE Decode --------------------------------
(***************************************************************************)
(* Instruction decoding: RVC instructions are turned into the fields of    *)
(* the 32-bit instruction they stand for, 32-bit ones are taken apart.     *)
(* Source: cpu.cpp (decode_exc up to "execute") and the tables of cpu.h.   *)
(*                                                                         *)
(* A word is the set of its 1 bits, so that shifting and masking are set   *)
(* operations; an immediate is the set of the low 32 bits of imm, which is *)
(* sign-extended beyond them.                                              *)
(***************************************************************************)
EXTENDS Integers, Sequences, FiniteSetsExt

(* (w >> s), or (w << -s).                                                 *)
Moved(w, s) == {i - s : i \in w} \cap 0 .. 31

(* ((w >> s) & mask) for the mask of bits hi to lo.                        *)
Piece(w, s, hi, lo) == Moved(w, s) \cap lo .. hi

(* The n bits of w from s on.                                              *)
Field(w, s, n) == Piece(w, s, n - 1, 0)

Num(w) == MapThenSumSet(LAMBDA i : 2 ^ i, w)

(* (imm << k) >> k with k such that bit n becomes the sign.                *)
SignFrom(imm, n) == IF n \in imm THEN imm \cup n .. 31 ELSE imm

-----------------------------------------------------------------------------
(* RVC.                                                                    *)

inst_op_16 ==
  <<"ADDI4SPN", "FLD", "LW", "LD", "RES1", "FSD", "SW", "SD",
    "ADDI", "ADDIW", "LI", "LUI", "MISC_ALU", "J", "BEQZ", "BNEZ",
    "SLLI", "FLDSP", "LWSP", "LDSP", "JALR", "FSDSP", "SWSP", "SDSP">>

OpFun16(inst) == inst_op_16[1 + 8 * Num(Field(inst, 0, 2)) + Num(Field(inst, 13, 3))]

REG16TO32(x) == x \cup {3}
sp == {1}    \* x2

(* The fields when the switch over op_fun_16 begins; L4 is no instruction. *)
Begin16(inst) ==
  [op |-> "L4", rd |-> REG16TO32(Field(inst, 2, 3)), rs1 |-> REG16TO32(Field(inst, 7, 3)),
   rs2 |-> {}, funct3 |-> {}, funct7 |-> {}, alt |-> FALSE, imm |-> {}]

RegFull(inst) == Field(inst, 7, 5)
Imm6(inst) == Piece(inst, 7, 5, 5) \cup Piece(inst, 2, 4, 0)
OffsetW(inst) == Piece(inst, -1, 6, 6) \cup Piece(inst, 7, 5, 3) \cup Piece(inst, 4, 2, 2)
OffsetD(inst) == Piece(inst, -1, 7, 6) \cup Piece(inst, 7, 5, 3)

Quadrant0(inst, op16) ==
  LET d == Begin16(inst) IN
  CASE op16 = "ADDI4SPN" ->
         [d EXCEPT !.op = "OP_IMM", !.rs1 = sp,
                   !.imm = Piece(inst, 1, 9, 6) \cup Piece(inst, 7, 5, 4)
                           \cup Piece(inst, 2, 3, 3) \cup Piece(inst, 4, 2, 2)]
    [] op16 = "LW" -> [d EXCEPT !.op = "LOAD", !.funct3 = {1}, !.imm = OffsetW(inst)]
    [] op16 = "LD" -> [d EXCEPT !.op = "LOAD", !.funct3 = {0, 1}, !.imm = OffsetD(inst)]
    [] op16 = "SW" -> [d EXCEPT !.op = "STORE", !.funct3 = {1}, !.rs2 = d.rd,
                                !.imm = OffsetW(inst)]
    [] op16 = "SD" -> [d EXCEPT !.op = "STORE", !.funct3 = {0, 1}, !.rs2 = d.rd,
                                !.imm = OffsetD(inst)]
    [] op16 = "RES1" -> [d EXCEPT !.op = "ILLEGAL"]
    [] op16 \in {"FLD", "FSD"} -> d

(* The arithmetic on rd' (MISC_ALU), chosen by bits 11:10, 12 and 6:5.     *)
MiscAlu(inst, d) ==
  LET e == [d EXCEPT !.rs2 = REG16TO32(Field(inst, 2, 3)), !.rd = d.rs1, !.imm = Imm6(inst)]
      low == Field(inst, 5, 2)
  IN
  CASE Field(inst, 10, 2) = {} -> [e EXCEPT !.op = "OP_IMM", !.funct3 = {0, 2}]
    [] Field(inst, 10, 2) = {0} -> [e EXCEPT !.op = "OP_IMM", !.funct3 = {0, 2}, !.alt = TRUE]
    [] Field(inst, 10, 2) = {1} -> [e EXCEPT !.op = "OP_IMM", !.funct3 = {0, 1, 2},
                                             !.imm = SignFrom(@, 5)]
    [] Field(inst, 10, 2) = {0, 1} ->
         IF 12 \in inst
         THEN [e EXCEPT !.op = "OP_32", !.alt = 5 \notin inst]
         ELSE [e EXCEPT !.op = "OP", !.alt = (low = {}),
                        !.funct3 = IF low = {} THEN {}
                                   ELSE IF low = {0} THEN {2} ELSE low \cup {1, 2}]

(* Mutant: two bits of the offset of C.J are exchanged.                    *)
OffsetJSwapped(inst) ==
  Piece(inst, 1, 11, 11) \cup Piece(inst, 1, 9, 8) \cup Piece(inst, 1, 6, 6)
  \cup Piece(inst, 2, 3, 1) \cup Piece(inst, 7, 4, 4) \cup Piece(inst, -2, 7, 7)
  \cup Piece(inst, -2, 10, 10) \cup Piece(inst, -3, 5, 5)

OffsetJ(inst) ==
  Piece(inst, 1, 11, 11) \cup Piece(inst, 1, 9, 8) \cup Piece(inst, 1, 6, 6)
  \cup Piece(inst, 2, 3, 1) \cup Piece(inst, 7, 4, 4) \cup Piece(inst, -1, 7, 7)
  \cup Piece(inst, -2, 10, 10) \cup Piece(inst, -3, 5, 5)

OffsetB(inst) ==
  Piece(inst, 4, 8, 8) \cup Piece(inst, -1, 7, 6) \cup Piece(inst, -3, 5, 5)
  \cup Piece(inst, 7, 4, 3) \cup Piece(inst, 2, 2, 1)

(* C.LUI, or C.ADDI16SP if rd is the stack pointer.                        *)
LuiOr16sp(inst, d) ==
  IF RegFull(inst) = sp
  THEN [d EXCEPT !.op = "OP_IMM", !.rs1 = sp, !.rd = sp,
          !.imm = SignFrom(Piece(inst, 3, 9, 9) \cup Piece(inst, -4, 8, 7)
                           \cup Piece(inst, -1, 6, 6) \cup Piece(inst, -3, 5, 5)
                           \cup Piece(inst, 2, 4, 4), 9)]
  ELSE [d EXCEPT !.op = "LUI", !.rd = RegFull(inst),
          !.imm = SignFrom(Piece(inst, -5, 17, 17) \cup Piece(inst, -10, 16, 12), 17)]

Quadrant1(inst, op16) ==
  LET d == Begin16(inst)
      ci == [d EXCEPT !.rd = RegFull(inst), !.rs1 = RegFull(inst), !.imm = SignFrom(Imm6(inst), 5)]
  IN
  CASE op16 = "ADDI" -> [ci EXCEPT !.op = "OP_IMM"]
    [] op16 = "ADDIW" -> [ci EXCEPT !.op = "OP_IMM_32"]
    [] op16 = "LI" -> [ci EXCEPT !.op = "OP_IMM", !.rs1 = {}]
    [] op16 = "LUI" -> LuiOr16sp(inst, d)
    [] op16 = "MISC_ALU" -> MiscAlu(inst, d)
    [] op16 = "J" -> [d EXCEPT !.op = "JAL", !.rd = {}, !.rs1 = RegFull(inst),
                               !.imm = SignFrom(OffsetJ(inst), 11)]
    [] op16 \in {"BEQZ", "BNEZ"} ->
         [d EXCEPT !.op = "BRANCH", !.funct3 = Field(inst, 13, 1),
                   !.imm = SignFrom(OffsetB(inst), 8)]

(* JALR: C.EBREAK, C.ADD, C.JALR, C.MV or C.JR.                            *)
JrMvAdd(inst, d) ==
  LET e == [d EXCEPT !.rs1 = RegFull(inst), !.rs2 = Field(inst, 2, 5)] IN
  IF inst = {1, 12, 15} THEN [d EXCEPT !.op = "EBREAK"]
  ELSE IF e.rs2 = {} THEN [e EXCEPT !.op = "JALR", !.rd = IF 12 \in inst THEN {0} ELSE {}]
  ELSE [e EXCEPT !.op = "OP", !.rd = e.rs1, !.rs1 = IF 12 \in inst THEN @ ELSE {}]

Quadrant2(inst, op16) ==
  LET d == Begin16(inst)
      load == [d EXCEPT !.op = "LOAD", !.rd = RegFull(inst), !.rs1 = sp]
      store == [d EXCEPT !.op = "STORE", !.rs2 = Field(inst, 2, 5), !.rs1 = sp]
  IN
  CASE op16 = "SLLI" -> [d EXCEPT !.op = "OP_IMM", !.funct3 = {0}, !.rs1 = RegFull(inst),
                                  !.rd = RegFull(inst), !.imm = Imm6(inst)]
    [] op16 = "LWSP" -> [load EXCEPT !.funct3 = {1},
         !.imm = Piece(inst, -4, 7, 6) \cup Piece(inst, 7, 5, 5) \cup Piece(inst, 2, 4, 2)]
    [] op16 = "LDSP" -> [load EXCEPT !.funct3 = {0, 1},
         !.imm = Piece(inst, -4, 8, 6) \cup Piece(inst, 7, 5, 5) \cup Piece(inst, 2, 4, 3)]
    [] op16 = "JALR" -> JrMvAdd(inst, d)
    [] op16 = "SWSP" -> [store EXCEPT !.funct3 = {1},
         !.imm = Piece(inst, 1, 7, 6) \cup Piece(inst, 7, 5, 2)]
    [] op16 = "SDSP" -> [store EXCEPT !.funct3 = {0, 1},
         !.imm = Piece(inst, 1, 8, 6) \cup Piece(inst, 7, 5, 3)]
    [] op16 \in {"FLDSP", "FSDSP"} -> d

Decode16(inst) ==
  LET op16 == OpFun16(inst) IN
  CASE Field(inst, 0, 2) = {} -> Quadrant0(inst, op16)
    [] Field(inst, 0, 2) = {0} -> Quadrant1(inst, op16)
    [] Field(inst, 0, 2) = {1} -> Quadrant2(inst, op16)

-----------------------------------------------------------------------------
(* 32-bit instructions.                                                    *)

inst_op_32 ==
  <<"LOAD", "LOAD_FP", "CST0", "MISC_MEM", "OP_IMM", "AUIPC", "OP_IMM_32", "L1",
    "STORE", "STORE_FP", "CST1", "AMO", "OP", "LUI", "OP_32", "L2",
    "MADD", "MSUB", "NMSUB", "NMADD", "OP_FP", "RES1", "CST2", "L3",
    "BRANCH", "JALR", "RES2", "JAL", "SYSTEM", "RES3", "CST3", "L4">>

inst_type_lookup_32(op) ==
  CASE op \in {"LOAD", "MISC_MEM", "OP_IMM", "OP_IMM_32", "JALR", "SYSTEM"} -> "I"
    [] op \in {"AMO", "OP", "OP_32", "OP_FP"} -> "R"
    [] op \in {"MADD", "MSUB", "NMSUB", "NMADD"} -> "R4"
    [] op = "STORE" -> "S"
    [] op = "BRANCH" -> "B"
    [] op \in {"AUIPC", "LUI"} -> "U"
    [] op = "JAL" -> "J"
    [] OTHER -> "DIFF"

(* inst is an int32_t: a right shift copies its sign.                      *)
Sar(inst, s) == Moved(inst, s) \cup (IF 31 \in inst THEN 31 - s .. 31 ELSE {})

(* Bit 0 of the raw immediate is its bit 11, whose place held the sign.    *)
Bit0To11(imm) == (imm \ {0, 11}) \cup (IF 0 \in imm THEN {11} ELSE {})

ImmJ(inst) ==
  Bit0To11((Sar(inst \ (0 .. 11), 20) \ (12 .. 19)) \cup (inst \cap 12 .. 19))

Imm32(type, inst) ==
  LET split == Sar(inst \cap 25 .. 31, 20) \cup Field(inst, 7, 5) IN
  CASE type = "I" -> Sar(inst, 20)
    [] type = "S" -> split
    [] type = "B" -> Bit0To11(split)
    [] type = "U" -> inst \ (0 .. 11)
    [] type = "J" -> ImmJ(inst)
    [] OTHER -> {}

Decode32(inst) ==
  LET op == inst_op_32[1 + Num(Field(inst, 2, 5))]
      type == inst_type_lookup_32(op)
  IN [op |-> op, rd |-> Field(inst, 7, 5), rs1 |-> Field(inst, 15, 5),
      rs2 |-> IF type \in {"R", "R4", "S", "B"} THEN Field(inst, 20, 5) ELSE {},
      funct3 |-> Field(inst, 12, 3), funct7 |-> IF type = "R" THEN Field(inst, 25, 7) ELSE {},
      alt |-> 30 \in inst, imm |-> Imm32(type, inst)]
==============================================================================
