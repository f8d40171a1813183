---------------------------- MODULE UartTxProofs -----------------------------
(***************************************************************************)
(* Theorems about UartTx: types for any number of writers, and memory      *)
(* safety of the output buffer for any buffer size and any interleaving    *)
(* when a single hart writes.                                              *)
(***************************************************************************)
EXTENDS UartTx, WellFoundedInduction, TLAPS

(* The terminator is a character.                                          *)
LEMMA NulIsChar == NUL \in Chars
  BY WriteBoundAssumption DEF NUL, Chars

(* The string pty_print sees ends at the first NUL of the buffer, or with  *)
(* the buffer.                                                             *)
LEMMA TextEnds ==
  /\ TextLength \in 0 .. IBUF_SIZE
  /\ \A k \in 0 .. TextLength - 1 : k \in Slots /\ output[k] # NUL
<1>. DEFINE S == {IBUF_SIZE} \cup {k \in Slots : output[k] = NUL}
<1>1. S \subseteq 0 .. IBUF_SIZE /\ S \subseteq Nat /\ S # {}
  BY BufferAssumption DEF Slots
<1>2. TextLength = Min(S)
  BY DEF TextLength
<1>3. Min(S) \in S /\ \A y \in S : Min(S) <= y
  <2>. HIDE DEF S
  <2>1. PICK x \in S : \A y \in S : ~(<<y, x>> \in OpToRel(<, Nat))
    BY <1>1, WFMin, NatLessThanWellFounded
  <2>2. \A u, v \in Nat : u < v => <<u, v>> \in OpToRel(<, Nat)
    BY DEF OpToRel
  <2>3. \A y \in S : y \in Nat /\ x \in Nat /\ ~(y < x)
    BY <1>1, <2>1, <2>2
  <2>4. \A y \in S : x <= y
    BY <2>3
  <2>. QED
    BY <2>4 DEF Min
<1>4. \A k \in 0 .. TextLength - 1 : k \in Slots /\ k \notin S
  <2>. DEFINE m == TextLength
  <2>. HIDE DEF S, m
  <2>1. m \in 0 .. IBUF_SIZE /\ \A y \in S : m <= y
    BY <1>1, <1>2, <1>3 DEF m
  <2>2. \A k \in 0 .. m - 1 : k \in Slots /\ k \notin S
    BY <2>1, BufferAssumption DEF Slots
  <2>. QED
    BY <2>2 DEF m
<1>. QED
  BY <1>1, <1>2, <1>3, <1>4

(* What pty_print prints are numbers of characters.                        *)
LEMMA TextIsSeq ==
  ASSUME TypeOK
  PROVE  Text \in Seq(Nat)
<1>1. TextLength \in 0 .. IBUF_SIZE
  BY TextEnds
<1>2. \A i \in 1 .. TextLength : output[i - 1].n \in Nat
  <2>1. \A i \in 1 .. TextLength : i - 1 \in Slots
    BY <1>1, BufferAssumption DEF Slots
  <2>2. \A k \in Slots : output[k].n \in 0 .. MaxWrites
    BY DEF TypeOK, Chars
  <2>3. \A k \in Slots : output[k].n \in Nat
    BY <2>2, WriteBoundAssumption
  <2>. QED
    BY <2>1, <2>3
<1>3. TextLength \in Nat
  BY <1>1, BufferAssumption
<1>. QED
  BY <1>2, <1>3 DEF Text

(* The registers of a hart outside uart_w are well typed.                  *)
LEMMA IdleIsRegs == Idle \in HartRegs
  BY NulIsChar DEF Idle, HartRegs, HartPc

(* The state uart_init leaves is well typed.                               *)
LEMMA InitTypeOK == Init => TypeOK
<1>. SUFFICES ASSUME Init PROVE TypeOK
  OBVIOUS
<1>1. output \in [Slots -> Chars] /\ hart \in [Writers -> HartRegs]
  BY IdleIsRegs, NulIsChar DEF Init
<1>2. /\ tx_offset \in Nat /\ spurious \in 0 .. MaxSpurious
      /\ written \in 0 .. MaxWrites
  BY WriteBoundAssumption DEF Init
<1>3. /\ tx_required \in BOOLEAN /\ uart_end \in BOOLEAN /\ interrupted \in BOOLEAN
      /\ lsr \subseteq TxBits /\ loop_lsr \subseteq TxBits /\ main_lsr \subseteq TxBits
  BY DEF Init
<1>4. loop \in LoopPc /\ main \in MainPc
  BY DEF Init, LoopPc, MainPc
<1>5. loop_cut \in Seq(Nat) /\ printed \in Seq(Nat)
  BY DEF Init
<1>. QED
  BY <1>1, <1>2, <1>3, <1>4, <1>5 DEF TypeOK

(* Every step of every thread keeps the types.                             *)
LEMMA NextTypeOK == TypeOK /\ [Next]_vars => TypeOK'
<1>. SUFFICES ASSUME TypeOK, [Next]_vars PROVE TypeOK'
  OBVIOUS
<1>. USE DEF TypeOK, buffer, flags, history, loop_regs
<1>1. ASSUME NEW h \in Writers, WriteThr(h) PROVE TypeOK'
  <2>1. \A lf \in BOOLEAN : [n |-> written + 1, lf |-> lf] \in Chars
    BY <1>1, WriteBoundAssumption DEF WriteThr, Chars
  <2>2. hart' \in [Writers -> HartRegs]
    <3>1. PICK lf \in BOOLEAN :
            hart' = [hart EXCEPT ![h].pc = "spin",
                                 ![h].chr = [n |-> written + 1, lf |-> lf]]
      BY <1>1 DEF WriteThr
    <3>. DEFINE c == [n |-> written + 1, lf |-> lf]
    <3>2. c \in Chars
      BY <2>1
    <3>. HIDE DEF c
    <3>3. hart' = [hart EXCEPT ![h].pc = "spin", ![h].chr = c]
      BY <3>1 DEF c
    <3>. QED
      BY <3>2, <3>3 DEF HartRegs, HartPc
  <2>3. written' \in 0 .. MaxWrites
    BY <1>1, WriteBoundAssumption DEF WriteThr
  <2>. QED
    BY <1>1, <2>2, <2>3 DEF WriteThr
<1>2. ASSUME NEW h \in Writers, HartStep(h) PROVE TypeOK'
  <2>1. CASE SpinExit(h)
    BY <2>1 DEF SpinExit, Goto, HartRegs, HartPc
  <2>2. CASE LoadOffset(h)
    BY <2>2 DEF LoadOffset, HartRegs, HartPc
  <2>3. CASE StoreChar(h)
    BY <2>3 DEF StoreChar, Goto, HartRegs, HartPc
  <2>4. CASE StoreOffset(h)
    <3>1. hart[h].off + 1 \in Nat
      BY DEF HartRegs
    <3>2. hart' \in [Writers -> HartRegs]
      BY <2>4 DEF StoreOffset, Goto, HartRegs, HartPc
    <3>. QED
      BY <2>4, <3>1, <3>2 DEF StoreOffset
  <2>5. CASE LsrLoad(h)
    BY <2>5 DEF LsrLoad, HartRegs, HartPc
  <2>6. CASE LsrClearTemt(h)
    <3>1. hart[h].lsr \ {"TEMT"} \subseteq TxBits
      BY DEF HartRegs
    <3>2. CASE Return(h)
      BY <2>6, <3>1, <3>2, IdleIsRegs DEF LsrClearTemt, Return
    <3>3. CASE Goto(h, "lsrThre")
      <4>1. hart' \in [Writers -> HartRegs]
        BY <3>3 DEF Goto, HartRegs, HartPc
      <4>. QED
        BY <2>6, <3>1, <4>1 DEF LsrClearTemt
    <3>. QED
      BY <2>6, <3>2, <3>3 DEF LsrClearTemt
  <2>7. CASE LsrClearThre(h)
    <3>1. hart[h].lsr \ TxBits \subseteq TxBits
      BY DEF HartRegs
    <3>2. hart' \in [Writers -> HartRegs]
      BY <2>7 DEF LsrClearThre, Goto, HartRegs, HartPc
    <3>. QED
      BY <2>7, <3>1, <3>2 DEF LsrClearThre
  <2>8. CASE HartFlush(h)
    BY <2>8, IdleIsRegs DEF HartFlush, Return, Notified, LoopPc
  <2>9. CASE HartExit(h)
    BY <2>9 DEF HartExit, Goto, HartRegs, HartPc
  <2>10. CASE PollStore(h)
    <3>1. hart[h].lsr \subseteq TxBits
      BY DEF HartRegs
    <3>. QED
      BY <2>10, <3>1, IdleIsRegs DEF PollStore, Return
  <2>. QED
    BY <1>2, <2>1, <2>2, <2>3, <2>4, <2>5, <2>6, <2>7, <2>8, <2>9, <2>10 DEF HartStep
<1>3. ASSUME LoopStep PROVE TypeOK'
  <2>1. CASE LoopLock \/ LoopCheck \/ LoopBlock \/ LoopClear
    BY <2>1 DEF LoopLock, LoopCheck, LoopBlock, LoopClear, LoopGoto, LoopPc
  <2>2. CASE LoopTest
    <3>1. CharAt(tx_offset) \in Chars
      BY NulIsChar DEF CharAt
    <3>2. CharAt(tx_offset).n \in Nat
      BY <3>1, WriteBoundAssumption DEF Chars
    <3>3. loop_cut' \in Seq(Nat)
      BY <2>2, <3>2 DEF LoopTest
    <3>4. output' \in [Slots -> Chars]
      BY <2>2, NulIsChar DEF LoopTest
    <3>. QED
      BY <2>2, <3>3, <3>4 DEF LoopTest, LoopGoto, LoopPc
  <2>3. CASE LoopPrint
    <3>1. printed' \in Seq(Nat) /\ loop_cut' \in Seq(Nat)
      BY <2>3, TextIsSeq DEF LoopPrint
    <3>. QED
      BY <2>3, <3>1 DEF LoopPrint, LoopGoto, LoopPc
  <2>4. CASE LoopReset
    BY <2>4 DEF LoopReset, LoopGoto, LoopPc
  <2>5. CASE LoopMemset
    BY <2>5, NulIsChar DEF LoopMemset, LoopGoto, LoopPc
  <2>6. CASE LoopLsrLoad
    BY <2>6 DEF LoopLsrLoad, LoopGoto, LoopPc
  <2>7. CASE LoopLsrStore
    BY <2>7 DEF LoopLsrStore, LoopGoto, LoopPc
  <2>. QED
    BY <1>3, <2>1, <2>2, <2>3, <2>4, <2>5, <2>6, <2>7 DEF LoopStep
<1>4. ASSUME SpuriousWakeup PROVE TypeOK'
  BY <1>4, WriteBoundAssumption DEF SpuriousWakeup, LoopGoto, LoopPc
<1>5. ASSUME MainStep PROVE TypeOK'
  <2>1. CASE ChkOffset \/ ChkRequired \/ ChkInterrupted \/ JoinHarts \/ JoinUart \/ SetEnd
    BY <2>1 DEF ChkOffset, ChkRequired, ChkInterrupted, JoinHarts, JoinUart, SetEnd,
                MainGoto, MainPc
  <2>2. CASE ChkLsrLoad \/ ChkLsrStore
    BY <2>2 DEF ChkLsrLoad, ChkLsrStore, MainGoto, MainPc
  <2>3. CASE ChkFlush \/ NotifyAll
    BY <2>3 DEF ChkFlush, NotifyAll, Notified, MainGoto, MainPc, LoopPc
  <2>. QED
    BY <1>5, <2>1, <2>2, <2>3 DEF MainStep
<1>6. CASE Sigint
  BY <1>6 DEF Sigint
<1>7. ASSUME NEW h \in Writers, HartHalt(h) PROVE TypeOK'
  BY <1>7 DEF HartHalt, Goto, HartRegs, HartPc
<1>8. ASSUME NEW h \in Writers, PollLoad(h) PROVE TypeOK'
  BY <1>8 DEF PollLoad, HartRegs, HartPc
<1>9. ASSUME NEW h \in Writers, WriteLsr(h) PROVE TypeOK'
  BY <1>9, LsrAssumption DEF WriteLsr
<1>10. CASE UNCHANGED vars
  BY <1>10 DEF vars
<1>. QED
  BY <1>1, <1>2, <1>3, <1>4, <1>5, <1>6, <1>7, <1>8, <1>9, <1>10 DEF Next

(* Types hold for any number of writers, whatever the interleaving.        *)
THEOREM TypeCorrect == Spec => []TypeOK
  BY InitTypeOK, NextTypeOK, PTL DEF Spec

-----------------------------------------------------------------------------
(* One writer.                                                             *)

(* The writer has seen that the buffer is full and will ask for a flush.   *)
AboutToFlush(h) ==
  /\ hart[h].pc \in {"lsrLoad", "lsrTemt", "lsrThre", "flush"}
  /\ hart[h].off + 1 >= IBUF_SIZE - 1

(* uart_loop has emptied the buffer but not yet cleared tx_required.       *)
Emptied == loop \in {"memset", "lsrLoad", "lsrStore", "clear"}

(* Why the index stays in bounds: a full buffer is always somebody's       *)
(* business - a flush is requested and not yet under way, or the writer is *)
(* about to request one - and between its spin and its store the writer    *)
(* relies on an index nobody else can raise.                               *)
BoundInv(h) ==
  /\ tx_offset < IBUF_SIZE
  /\ output[IBUF_SIZE - 1] = NUL
  /\ hart[h].pc = "load" => tx_offset < IBUF_SIZE - 1
  /\ hart[h].pc \in {"storeChar", "storeOffset"} => hart[h].off < IBUF_SIZE - 1
  /\ tx_offset = IBUF_SIZE - 1 => (tx_required /\ ~Emptied) \/ AboutToFlush(h)

(* Every step preserves the bound on the single writer's index.            *)
LEMMA BoundInvStep ==
  ASSUME NEW w, Writers = {w}, TypeOK, TypeOK', BoundInv(w), [Next]_vars
  PROVE  BoundInv(w)'
<1>. USE BufferAssumption
     DEF BoundInv, AboutToFlush, Emptied, buffer, flags, history, loop_regs
<1>0. /\ w \in Writers /\ hart[w].off \in Nat /\ tx_offset \in Nat
      /\ hart \in [Writers -> HartRegs] /\ IBUF_SIZE - 1 \in Slots
  BY DEF TypeOK, HartRegs, Slots
<1>1. CASE WriteThr(w)
  <2>1. hart'[w].pc = "spin"
    BY <1>0, <1>1 DEF WriteThr, HartRegs
  <2>2. UNCHANGED <<output, tx_offset, tx_required, loop>> /\ hart[w].pc = "idle"
    BY <1>1 DEF WriteThr
  <2>. QED
    BY <2>1, <2>2
<1>2. CASE SpinExit(w)
  BY <1>0, <1>2 DEF SpinExit, Goto, HartRegs
<1>3. CASE LoadOffset(w)
  BY <1>0, <1>3 DEF LoadOffset, HartRegs
<1>4. CASE StoreChar(w)
  BY <1>0, <1>4 DEF StoreChar, Goto, HartRegs
<1>5. CASE StoreOffset(w)
  BY <1>0, <1>5 DEF StoreOffset, Goto, HartRegs
<1>6. CASE LsrLoad(w)
  BY <1>0, <1>6 DEF LsrLoad, HartRegs
<1>7. CASE LsrClearTemt(w)
  BY <1>0, <1>7 DEF LsrClearTemt, MustFlush, Goto, Return, Idle, HartRegs
<1>8. CASE LsrClearThre(w)
  BY <1>0, <1>8 DEF LsrClearThre, Goto, HartRegs
<1>9. CASE HartFlush(w)
  BY <1>0, <1>9 DEF HartFlush, MutexFree, Notified, Return, Idle, HartRegs
<1>10. CASE HartExit(w)
  BY <1>0, <1>10 DEF HartExit, Goto, HartRegs
<1>11. CASE LoopLock \/ LoopBlock \/ LoopCheck
  BY <1>0, <1>11 DEF LoopLock, LoopBlock, LoopCheck, LoopGoto
<1>12. CASE LoopTest
  <2>1. output'[IBUF_SIZE - 1] = NUL
    BY <1>0, <1>12 DEF LoopTest, TypeOK
  <2>. QED
    BY <1>0, <1>12, <2>1 DEF LoopTest, LoopGoto
<1>13. CASE LoopPrint
  BY <1>0, <1>13 DEF LoopPrint, LoopGoto
<1>14. CASE LoopReset
  BY <1>0, <1>14 DEF LoopReset, LoopGoto
<1>15. CASE LoopMemset
  BY <1>0, <1>15 DEF LoopMemset, LoopGoto
<1>16. CASE LoopLsrLoad \/ LoopLsrStore \/ LoopClear
  BY <1>0, <1>16 DEF LoopLsrLoad, LoopLsrStore, LoopClear, LoopGoto
<1>17. CASE SpuriousWakeup
  BY <1>0, <1>17 DEF SpuriousWakeup, LoopGoto
<1>18. CASE MainStep
  <2>1. CASE ChkFlush
    BY <1>0, <2>1 DEF ChkFlush, MutexFree, Notified
  <2>2. CASE NotifyAll
    BY <1>0, <2>2 DEF NotifyAll, Notified
  <2>3. CASE ~ChkFlush /\ ~NotifyAll
    <3>1. UNCHANGED <<output, tx_offset, tx_required, hart, loop>>
      BY <1>18, <2>3 DEF MainStep, ChkOffset, ChkLsrLoad, ChkLsrStore, ChkRequired,
         ChkInterrupted, JoinHarts, SetEnd, JoinUart
    <3>. QED
      BY <3>1
  <2>. QED
    BY <2>1, <2>2, <2>3
<1>19. CASE Sigint
  BY <1>19 DEF Sigint
<1>20. CASE HartHalt(w)
  BY <1>0, <1>20 DEF HartHalt, Goto, HartRegs
<1>21. CASE UNCHANGED vars
  BY <1>21 DEF vars
<1>22. CASE PollLoad(w) \/ PollStore(w) \/ WriteLsr(w)
  BY <1>0, <1>22 DEF PollLoad, PollStore, WriteLsr, Return, Idle, HartRegs
<1>. QED
  BY <1>1, <1>2, <1>3, <1>4, <1>5, <1>6, <1>7, <1>8, <1>9, <1>10, <1>11, <1>12,
     <1>13, <1>14, <1>15, <1>16, <1>17, <1>18, <1>19, <1>20, <1>21, <1>22
     DEF Next, HartStep, LoopStep

(* With one hart writing, no interleaving of uart_w with uart_loop, the    *)
(* periodic uart_chk and the shutdown moves the index out of the buffer or *)
(* destroys the terminator, for every buffer size and output length.       *)
THEOREM SingleWriterInBounds ==
  ASSUME NEW w, Writers = {w}
  PROVE  Spec => []TxInBounds
<1>1. Init => BoundInv(w)
  BY BufferAssumption DEF Init, BoundInv, Idle, Slots
<1>2. TypeOK /\ TypeOK' /\ BoundInv(w) /\ [Next]_vars => BoundInv(w)'
  BY BoundInvStep
<1>3. BoundInv(w) => TxInBounds
  BY DEF BoundInv, TxInBounds
<1>. QED
  BY <1>1, <1>2, <1>3, TypeCorrect, PTL DEF Spec

-----------------------------------------------------------------------------
(* One writer: the order of the output.                                    *)

(* The writer has taken a number for its character and not stored it yet.  *)
Unstored(w) == hart[w].pc \in {"spin", "load", "storeChar"}

(* uart_loop has printed the buffer and not yet cleared it.                *)
Stale == loop \in {"reset", "memset"}

(* The slots that hold a character.                                        *)
Full == {i \in Slots : output[i] # NUL}

(* Every number in use is at most that of the character being written, and *)
(* less while that is not stored.                                          *)
NotLater(w, n) == n <= written /\ (Unstored(w) => n < written)
NumbersInv(w) ==
  /\ hart[w].pc \notin {"idle", "poll", "exited"} => hart[w].chr.n = written
  /\ \A k \in 1 .. Len(printed) : NotLater(w, printed[k])
  /\ \A i \in Full : NotLater(w, output[i].n)

(* Where a character may be: below the index, or in the slot the writer    *)
(* has just filled; and below the copy of the index the writer will store  *)
(* through, even if a flush has set the index back in the meantime.        *)
Below(w, i, top) == i < top \/ (hart[w].pc = "storeOffset" /\ i = hart[w].off)
PlacesInv(w) ==
  ~Stale =>
    /\ \A i \in Full : Below(w, i, tx_offset)
    /\ hart[w].pc \in {"storeChar", "storeOffset"} => \A i \in Full : Below(w, i, hart[w].off)
    /\ hart[w].pc = "storeOffset" /\ hart[w].off \in Full => output[hart[w].off] = hart[w].chr

(* The buffer is in order and comes after everything printed.              *)
BufferInv ==
  ~Stale =>
    /\ \A i, j \in Full : i < j => output[i].n < output[j].n
    /\ \A i \in Full, k \in 1 .. Len(printed) : printed[k] < output[i].n

(* The line feed that uart_loop has cut off is the character of a writer   *)
(* that has stored it and will end up waiting for the mutex.               *)
CutInv(w) ==
  loop_cut # <<>> =>
    /\ loop = "print" /\ loop_cut = <<written>> /\ hart[w].chr.lf
    /\ hart[w].pc \in {"storeOffset", "lsrLoad", "lsrTemt", "lsrThre", "flush"}
    /\ \A i \in Full : output[i].n < written
    /\ \A k \in 1 .. Len(printed) : printed[k] < written

OrderInv(w) ==
  NumbersInv(w) /\ PlacesInv(w) /\ BufferInv /\ CutInv(w) /\ PrintedInOrder

(* A step that leaves buffer, writer and output alone keeps the order.     *)
LEMMA OrderUntouched ==
  ASSUME NEW w, OrderInv(w), UNCHANGED <<output, tx_offset, hart, written, printed, loop_cut>>,
         Stale' => Stale, Stale => Stale', loop = "print" => loop' = "print"
  PROVE  OrderInv(w)'
BY DEF OrderInv, NumbersInv, PlacesInv, BufferInv, CutInv, PrintedInOrder, NotLater, Unstored,
       Full, Below

(* A step of the writer that leaves the buffer alone.                      *)
LEMMA OrderWriter ==
  ASSUME NEW w \in Writers, TypeOK, OrderInv(w),
         UNCHANGED <<output, tx_offset, loop, written, printed, loop_cut>>,
         Unstored(w)' => Unstored(w),
         \/ hart'[w].pc \in {"idle", "poll", "exited"} /\ loop_cut = <<>>
         \/ /\ hart'[w].pc \notin {"idle", "poll", "exited"} /\ hart[w].pc \notin {"idle", "poll", "exited"}
            /\ hart'[w].chr = hart[w].chr
            /\ loop_cut # <<>> => hart'[w].pc \in {"lsrLoad", "lsrTemt", "lsrThre", "flush"},
         hart'[w].pc # "storeOffset", hart[w].pc # "storeOffset",
         hart'[w].pc = "storeChar" => hart'[w].off = tx_offset
  PROVE  OrderInv(w)'
<1>. USE DEF OrderInv, NotLater, Full
<1>1. NumbersInv(w)'
  BY DEF NumbersInv
<1>2. PlacesInv(w)'
  BY DEF PlacesInv, Below, Stale
<1>3. BufferInv' /\ PrintedInOrder'
  BY DEF BufferInv, PrintedInOrder, Stale
<1>4. CutInv(w)'
  BY DEF CutInv
<1>. QED
  BY <1>1, <1>2, <1>3, <1>4

(* Where the elements of a concatenation come from.                        *)
LEMMA CatShape ==
  ASSUME NEW s \in Seq(Nat), NEW t \in Seq(Nat)
  PROVE  /\ s \o t \in Seq(Nat) /\ Len(s \o t) = Len(s) + Len(t)
         /\ Len(s) \in Nat /\ Len(t) \in Nat
         /\ \A i \in 1 .. Len(s) : (s \o t)[i] = s[i]
         /\ \A i \in Len(s) + 1 .. Len(s) + Len(t) :
              (s \o t)[i] = t[i - Len(s)] /\ i - Len(s) \in 1 .. Len(t)
OBVIOUS

(* A sequence of one element at the end.                                   *)
LEMMA CatLast ==
  ASSUME NEW s \in Seq(Nat), NEW x \in Nat
  PROVE  \A k \in 1 .. Len(s \o <<x>>) :
           (k \in 1 .. Len(s) /\ (s \o <<x>>)[k] = s[k]) \/ (s \o <<x>>)[k] = x
<1>1. Len(s) \in Nat /\ Len(s \o <<x>>) = Len(s) + 1
  OBVIOUS
<1>2. \A i \in 1 .. Len(s) : (s \o <<x>>)[i] = s[i]
  OBVIOUS
<1>3. (s \o <<x>>)[Len(s) + 1] = x
  OBVIOUS
<1>. QED
  BY <1>1, <1>2, <1>3

Ascending(s) == \A i, j \in 1 .. Len(s) : i < j => s[i] < s[j]

(* Ascending sequences one after the other.                                *)
LEMMA AscendingCat ==
  ASSUME NEW s \in Seq(Nat), NEW t \in Seq(Nat), Ascending(s), Ascending(t),
         \A i \in 1 .. Len(s), j \in 1 .. Len(t) : s[i] < t[j]
  PROVE  s \o t \in Seq(Nat) /\ Ascending(s \o t)
<1>1. s \o t \in Seq(Nat) /\ Len(s \o t) = Len(s) + Len(t) /\ Len(s) \in Nat /\ Len(t) \in Nat
  BY CatShape
<1>2. \A i \in 1 .. Len(s) : (s \o t)[i] = s[i]
  BY CatShape
<1>3. \A i \in Len(s) + 1 .. Len(s) + Len(t) :
        (s \o t)[i] = t[i - Len(s)] /\ i - Len(s) \in 1 .. Len(t)
  BY CatShape
<1>. SUFFICES ASSUME NEW i \in 1 .. Len(s \o t), NEW j \in 1 .. Len(s \o t), i < j
              PROVE  (s \o t)[i] < (s \o t)[j]
  BY <1>1 DEF Ascending
<1>4. CASE j <= Len(s)
  <2>1. i \in 1 .. Len(s) /\ j \in 1 .. Len(s)
    BY <1>1, <1>4
  <2>. QED
    BY <1>2, <2>1 DEF Ascending
<1>5. CASE i <= Len(s) /\ j > Len(s)
  <2>1. i \in 1 .. Len(s) /\ j \in Len(s) + 1 .. Len(s) + Len(t)
    BY <1>1, <1>5
  <2>. QED
    BY <1>2, <1>3, <2>1
<1>6. CASE i > Len(s)
  <2>1. i \in Len(s) + 1 .. Len(s) + Len(t) /\ j \in Len(s) + 1 .. Len(s) + Len(t)
    BY <1>1, <1>6
  <2>2. i - Len(s) < j - Len(s)
    BY <1>1, <1>6
  <2>. QED
    BY <1>3, <2>1, <2>2 DEF Ascending
<1>. QED
  BY <1>1, <1>4, <1>5, <1>6

(* What pty_print prints are characters of the buffer, in its order.       *)
LEMMA TextIsFull ==
  ASSUME TypeOK
  PROVE  \A k \in 1 .. Len(Text) :
           k - 1 \in Full /\ Text[k] = output[k - 1].n
<1>1. TextLength \in 0 .. IBUF_SIZE
  BY TextEnds
<1>2. Len(Text) = TextLength
  BY <1>1, BufferAssumption DEF Text
<1>3. \A k \in 0 .. TextLength - 1 : k \in Slots /\ output[k] # NUL
  BY TextEnds
<1>4. \A k \in 1 .. Len(Text) : k - 1 \in 0 .. TextLength - 1
  BY <1>1, <1>2, BufferAssumption
<1>. QED
  BY <1>2, <1>3, <1>4 DEF Full, Text

(* The numbers in the state of the transmitter.                            *)
LEMMA TxNumbers ==
  ASSUME TypeOK, NEW w \in Writers
  PROVE  /\ written \in Nat
         /\ tx_offset \in Nat /\ hart[w].off \in Nat /\ hart[w].chr.n \in Nat
         /\ \A i \in Slots : output[i].n \in Nat
         /\ \A k \in 1 .. Len(printed) : printed[k] \in Nat
BY WriteBoundAssumption DEF TypeOK, HartRegs, Chars

(* The print: the text of the buffer continues what was printed, and a     *)
(* line feed that was cut off continues the text.                          *)
LEMMA PrintInOrder ==
  ASSUME NEW w \in Writers, TypeOK, OrderInv(w), LoopPrint
  PROVE  OrderInv(w)'
<1>. DEFINE p == printed \o Text
<1>1. /\ printed' = p \o loop_cut /\ loop_cut' = <<>> /\ loop' = "reset" /\ loop = "print"
      /\ UNCHANGED <<output, tx_offset, hart, written>>
  BY DEF LoopPrint, LoopGoto, buffer
<1>2. Text \in Seq(Nat) /\ \A k \in 1 .. Len(Text) : k - 1 \in Full /\ Text[k] = output[k - 1].n
  BY TextIsSeq, TextIsFull
<1>3. printed \in Seq(Nat) /\ loop_cut \in Seq(Nat) /\ written \in Nat
  BY TxNumbers DEF TypeOK
<1>4. Ascending(Text)
  <2>. SUFFICES ASSUME NEW i \in 1 .. Len(Text), NEW j \in 1 .. Len(Text), i < j
                PROVE  Text[i] < Text[j]
    BY DEF Ascending
  <2>1. i - 1 < j - 1
    BY <1>2
  <2>. QED
    BY <1>1, <1>2, <2>1 DEF OrderInv, BufferInv, Stale
<1>5. \A i \in 1 .. Len(printed), j \in 1 .. Len(Text) : printed[i] < Text[j]
  BY <1>1, <1>2 DEF OrderInv, BufferInv, Stale
<1>6. Ascending(printed)
  BY DEF OrderInv, PrintedInOrder, Ascending
<1>7. p \in Seq(Nat) /\ Ascending(p)
  BY <1>2, <1>3, <1>4, <1>5, <1>6, AscendingCat
<1>8. \A k \in 1 .. Len(p) :
        \/ \E i \in 1 .. Len(printed) : p[k] = printed[i]
        \/ \E i \in Full : p[k] = output[i].n
  <2>. SUFFICES ASSUME NEW k \in 1 .. Len(p)
                PROVE  \/ \E i \in 1 .. Len(printed) : p[k] = printed[i]
                       \/ \E i \in Full : p[k] = output[i].n
    OBVIOUS
  <2>1. Len(printed) \in Nat /\ Len(Text) \in Nat /\ Len(p) = Len(printed) + Len(Text)
    BY <1>2, <1>3
  <2>2. CASE k <= Len(printed)
    BY <1>2, <1>3, <2>1, <2>2
  <2>3. CASE k > Len(printed)
    <3>1. k - Len(printed) \in 1 .. Len(Text) /\ p[k] = Text[k - Len(printed)]
      BY <1>2, <1>3, <2>1, <2>3
    <3>. QED
      BY <1>2, <3>1
  <2>. QED
    BY <2>1, <2>2, <2>3
<1>9. \A k \in 1 .. Len(p) : NotLater(w, p[k]) /\ (loop_cut # <<>> => p[k] < written)
  BY <1>8 DEF OrderInv, NumbersInv, CutInv
<1>. HIDE DEF p
<1>10. Ascending(printed') /\ \A k \in 1 .. Len(printed') : NotLater(w, printed'[k])
  <2>1. CASE loop_cut = <<>>
    <3>1. printed' = p
      BY <1>1, <1>7, <2>1
    <3>. QED
      BY <1>7, <1>9, <3>1
  <2>2. CASE loop_cut # <<>>
    <3>1. loop_cut = <<written>> /\ ~Unstored(w)
      BY <2>2 DEF OrderInv, CutInv, Unstored
    <3>2. Len(loop_cut) = 1 /\ loop_cut[1] = written /\ Ascending(loop_cut)
      BY <3>1 DEF Ascending
    <3>3. Ascending(p \o loop_cut)
      BY <1>3, <1>7, <1>9, <2>2, <3>2, AscendingCat
    <3>4. \A k \in 1 .. Len(p \o <<written>>) :
            (k \in 1 .. Len(p) /\ (p \o <<written>>)[k] = p[k]) \/ (p \o <<written>>)[k] = written
      BY <1>3, <1>7, CatLast
    <3>5. printed' = p \o <<written>>
      BY <1>1, <3>1
    <3>. HIDE DEF p
    <3>6. \A k \in 1 .. Len(printed') :
            (k \in 1 .. Len(p) /\ printed'[k] = p[k]) \/ printed'[k] = written
      BY <3>4, <3>5, Zenon
    <3>. QED
      BY <1>1, <1>3, <1>9, <3>1, <3>3, <3>6 DEF NotLater
  <2>. QED
    BY <2>1, <2>2
<1>11. NumbersInv(w)'
  BY <1>1, <1>10 DEF OrderInv, NumbersInv, NotLater, Unstored, Full
<1>12. PlacesInv(w)' /\ BufferInv' /\ CutInv(w)'
  BY <1>1 DEF PlacesInv, BufferInv, CutInv, Stale
<1>13. PrintedInOrder'
  BY <1>10 DEF PrintedInOrder, Ascending
<1>. QED
  BY <1>11, <1>12, <1>13 DEF OrderInv

(* The writer stores its character: no earlier one lies behind it, even if *)
(* a flush has come between the load of the index and the store.           *)
LEMMA StoreInOrder ==
  ASSUME NEW w \in Writers, TypeOK, OrderInv(w), StoreChar(w)
  PROVE  OrderInv(w)'
<1>. DEFINE off == hart[w].off
            chr == hart[w].chr
<1>1. /\ hart'[w].pc = "storeOffset" /\ hart'[w].off = off /\ hart'[w].chr = chr
      /\ hart[w].pc = "storeChar"
  BY DEF StoreChar, Goto, TypeOK, HartRegs
<1>2. /\ \A i \in Slots : output'[i] = IF i = off THEN chr ELSE output[i]
      /\ UNCHANGED <<tx_offset, loop, loop_cut, written, printed>>
  BY DEF StoreChar, loop_regs, history
<1>3. chr.n = written /\ Unstored(w) /\ ~Unstored(w)'
  BY <1>1 DEF OrderInv, NumbersInv, Unstored
<1>4. \A i \in Full' :
        /\ i \in Slots
        /\ i = off => output'[i] = chr
        /\ i # off => i \in Full /\ output'[i] = output[i]
  BY <1>2 DEF Full
<1>5. \A i \in Full : output[i].n < written /\ output[i].n \in Nat
  BY <1>3, TxNumbers DEF OrderInv, NumbersInv, NotLater, Full
<1>6. \A k \in 1 .. Len(printed) : printed[k] < written
  BY <1>3 DEF OrderInv, NumbersInv, NotLater
<1>7. written \in Nat /\ off \in Nat /\ \A i \in Slots : i \in Nat
  BY TxNumbers, BufferAssumption DEF Slots
<1>8. \A k \in 1 .. Len(printed) : printed[k] \in Nat
  BY TxNumbers
<1>9. NumbersInv(w)'
  BY <1>1, <1>2, <1>3, <1>4, <1>5, <1>6, <1>7, <1>8 DEF NumbersInv, NotLater
<1>10. ~Stale => \A i \in Full : i < off /\ i < tx_offset
  BY <1>1 DEF OrderInv, PlacesInv, Below
<1>11. PlacesInv(w)'
  BY <1>1, <1>2, <1>4, <1>10 DEF PlacesInv, Below, Stale
<1>12. BufferInv'
  <2>. SUFFICES ASSUME ~Stale
                PROVE  /\ \A i, j \in Full' : i < j => output'[i].n < output'[j].n
                       /\ \A i \in Full', k \in 1 .. Len(printed) : printed[k] < output'[i].n
    BY <1>2 DEF BufferInv, Stale
  <2>1. ASSUME NEW i \in Full', NEW j \in Full', i < j
        PROVE  output'[i].n < output'[j].n
    <3>1. i # off
      BY <1>4, <1>7, <1>10, <2>1
    <3>2. CASE j = off
      BY <1>3, <1>4, <1>5, <3>1, <3>2
    <3>3. CASE j # off
      BY <1>4, <2>1, <3>1, <3>3 DEF OrderInv, BufferInv
    <3>. QED
      BY <3>2, <3>3
  <2>2. ASSUME NEW i \in Full', NEW k \in 1 .. Len(printed)
        PROVE  printed[k] < output'[i].n
    BY <1>3, <1>4, <1>6, <2>2 DEF OrderInv, BufferInv
  <2>. QED
    BY <2>1, <2>2
<1>13. CutInv(w)'
  BY <1>1, <1>2 DEF OrderInv, CutInv
<1>14. PrintedInOrder'
  BY <1>2 DEF OrderInv, PrintedInOrder
<1>. QED
  BY <1>9, <1>11, <1>12, <1>13, <1>14 DEF OrderInv

(* Cutting a line feed off: it can only be the one the writer has stored   *)
(* and not counted yet, the last character there is.                       *)
LEMMA CutInOrder ==
  ASSUME NEW w \in Writers, TypeOK, OrderInv(w), LoopTest
  PROVE  OrderInv(w)'
<1>1. loop = "test" /\ loop' = "print" /\ UNCHANGED <<tx_offset, hart, written, printed>>
  BY DEF LoopTest, LoopGoto, history
<1>2. ~Stale /\ ~Stale' /\ (\A i \in Slots : i \in Nat) /\ tx_offset \in Nat
  BY <1>1, TxNumbers, BufferAssumption DEF Stale, Slots
<1>3. CASE ~CharAt(tx_offset).lf
  <2>1. output' = output /\ loop_cut' = <<>>
    BY <1>3 DEF LoopTest
  <2>. QED
    BY <1>1, <1>2, <2>1 DEF OrderInv, NumbersInv, PlacesInv, BufferInv, CutInv, PrintedInOrder,
       NotLater, Unstored, Full, Below
<1>4. CASE CharAt(tx_offset).lf
  <2>1. tx_offset \in Full /\ output[tx_offset].lf
    BY <1>4 DEF CharAt, Full, NUL
  <2>2. /\ hart[w].pc = "storeOffset" /\ tx_offset = hart[w].off
        /\ output[tx_offset] = hart[w].chr /\ hart[w].chr.n = written
    BY <1>2, <2>1 DEF OrderInv, PlacesInv, NumbersInv, Below
  <2>3. loop_cut' = <<written>> /\ CharAt(tx_offset) = output[tx_offset]
    BY <1>4, <2>1, <2>2 DEF LoopTest, CharAt, Full
  <2>4. \A i \in Slots : output'[i] = IF i = tx_offset THEN NUL ELSE output[i]
    BY <1>4 DEF LoopTest, TypeOK
  <2>5. \A i \in Full' : i \in Full /\ i # tx_offset /\ output'[i] = output[i]
    BY <2>4 DEF Full
  <2>6. \A i \in Full' : i < tx_offset
    BY <1>2, <2>2, <2>5 DEF OrderInv, PlacesInv, Below
  <2>7. \A i \in Full' : output'[i].n < written
    BY <1>2, <2>1, <2>2, <2>5, <2>6 DEF OrderInv, BufferInv
  <2>8. \A k \in 1 .. Len(printed) : printed[k] < written
    BY <1>2, <2>1, <2>2 DEF OrderInv, BufferInv
  <2>9. NumbersInv(w)'
    BY <1>1, <2>5 DEF OrderInv, NumbersInv, NotLater, Unstored
  <2>10. PlacesInv(w)'
    BY <1>1, <1>2, <2>2, <2>5, <2>6 DEF PlacesInv, Below
  <2>11. BufferInv'
    BY <1>1, <1>2, <2>5 DEF OrderInv, BufferInv
  <2>12. CutInv(w)'
    BY <1>1, <2>1, <2>2, <2>3, <2>7, <2>8 DEF CutInv
  <2>13. PrintedInOrder'
    BY <1>1 DEF OrderInv, PrintedInOrder
  <2>. QED
    BY <2>9, <2>10, <2>11, <2>12, <2>13 DEF OrderInv
<1>. QED
  BY <1>3, <1>4

(* A new character takes the next number.                                  *)
LEMMA WriteInOrder ==
  ASSUME NEW w \in Writers, TypeOK, OrderInv(w), WriteThr(w)
  PROVE  OrderInv(w)'
<1>1. /\ hart'[w].pc = "spin" /\ hart'[w].chr.n = written + 1 /\ hart[w].pc = "idle"
      /\ written' = written + 1
      /\ UNCHANGED <<output, tx_offset, loop, loop_cut, printed>>
  BY DEF WriteThr, TypeOK, HartRegs, buffer, loop_regs
<1>2. /\ written \in Nat
      /\ \A i \in Slots : output[i].n \in Nat
      /\ \A k \in 1 .. Len(printed) : printed[k] \in Nat
  BY TxNumbers
<1>3. NumbersInv(w)'
  BY <1>1, <1>2 DEF OrderInv, NumbersInv, NotLater, Full
<1>4. PlacesInv(w)' /\ BufferInv' /\ CutInv(w)' /\ PrintedInOrder'
  BY <1>1 DEF OrderInv, PlacesInv, BufferInv, CutInv, PrintedInOrder, Stale, Full, Below
<1>. QED
  BY <1>3, <1>4 DEF OrderInv

(* Storing the index counts the character just stored, and no other.       *)
LEMMA IndexInOrder ==
  ASSUME NEW w \in Writers, TypeOK, OrderInv(w), StoreOffset(w)
  PROVE  OrderInv(w)'
<1>1. /\ hart'[w].pc = "lsrLoad" /\ hart'[w].chr = hart[w].chr /\ hart[w].pc = "storeOffset"
      /\ tx_offset' = hart[w].off + 1
      /\ UNCHANGED <<output, loop, loop_cut, printed, written>>
  BY DEF StoreOffset, Goto, TypeOK, HartRegs, loop_regs, history
<1>2. hart[w].off \in Nat /\ \A i \in Full : i \in Nat
  BY TxNumbers, BufferAssumption DEF Full, Slots
<1>3. NumbersInv(w)'
  BY <1>1 DEF OrderInv, NumbersInv, NotLater, Full, Unstored
<1>4. PlacesInv(w)'
  BY <1>1, <1>2 DEF OrderInv, PlacesInv, Stale, Full, Below
<1>5. BufferInv' /\ CutInv(w)' /\ PrintedInOrder'
  BY <1>1 DEF OrderInv, BufferInv, CutInv, PrintedInOrder, Stale, Full
<1>. QED
  BY <1>3, <1>4, <1>5 DEF OrderInv

(* uart_loop empties what it has printed.                                  *)
LEMMA ClearInOrder ==
  ASSUME NEW w \in Writers, TypeOK, OrderInv(w), LoopReset \/ LoopMemset
  PROVE  OrderInv(w)'
<1>1. /\ Stale /\ loop \in {"reset", "memset"} /\ loop_cut = <<>>
      /\ UNCHANGED <<hart, loop_cut, printed, written>>
  BY DEF LoopReset, LoopMemset, OrderInv, CutInv, loop_regs, history, Stale
<1>2. (Stale' /\ output' = output) \/ Full' = {}
  BY DEF LoopReset, LoopMemset, LoopGoto, Stale, Full
<1>3. NumbersInv(w)'
  BY <1>1, <1>2 DEF OrderInv, NumbersInv, NotLater, Unstored, Full
<1>4. PlacesInv(w)' /\ BufferInv'
  BY <1>1, <1>2 DEF PlacesInv, BufferInv
<1>5. CutInv(w)' /\ PrintedInOrder'
  BY <1>1 DEF OrderInv, CutInv, PrintedInOrder
<1>. QED
  BY <1>3, <1>4, <1>5 DEF OrderInv

(* Every step of every thread keeps the order.                             *)
LEMMA OrderStep ==
  ASSUME NEW w, Writers = {w}, TypeOK, OrderInv(w), [Next]_vars
  PROVE  OrderInv(w)'
<1>. USE DEF buffer, flags, history, loop_regs
<1>0. w \in Writers /\ hart \in [Writers -> HartRegs]
  BY DEF TypeOK
<1>a. loop_cut # <<>> => loop = "print" /\ hart[w].chr.lf
  BY DEF OrderInv, CutInv
<1>b. loop_cut # <<>> => hart[w].pc \in {"storeOffset", "lsrLoad", "lsrTemt", "lsrThre", "flush"}
  BY DEF OrderInv, CutInv
<1>1. CASE WriteThr(w)
  BY <1>0, <1>1, WriteInOrder
<1>2. CASE SpinExit(w)
  BY <1>0, <1>b, <1>2, OrderWriter DEF SpinExit, Goto, HartRegs, Unstored
<1>3. CASE LoadOffset(w)
  BY <1>0, <1>b, <1>3, OrderWriter DEF LoadOffset, HartRegs, Unstored
<1>4. CASE StoreChar(w)
  BY <1>0, <1>4, StoreInOrder
<1>5. CASE StoreOffset(w)
  BY <1>0, <1>5, IndexInOrder
<1>6. CASE LsrLoad(w)
  BY <1>0, <1>6, OrderWriter DEF LsrLoad, HartRegs, Unstored
<1>7. CASE LsrClearTemt(w)
  <2>1. MustFlush(w) \/ loop_cut = <<>>
    BY <1>a DEF MustFlush
  <2>. QED
    BY <1>0, <1>7, <2>1, OrderWriter DEF LsrClearTemt, Goto, Return, Idle, HartRegs, Unstored
<1>8. CASE LsrClearThre(w)
  BY <1>0, <1>8, OrderWriter DEF LsrClearThre, Goto, HartRegs, Unstored
<1>9. CASE HartFlush(w)
  <2>1. loop \in {"woken", "blocked", "exited"} /\ loop' \in {"woken", "exited"}
    BY <1>9 DEF HartFlush, MutexFree, Notified
  <2>2. loop_cut = <<>> /\ hart'[w] = Idle /\ hart[w].pc = "flush"
    BY <1>0, <1>9, <1>a, <2>1 DEF HartFlush, Return
  <2>3. ~Stale /\ ~Stale' /\ UNCHANGED <<output, tx_offset, written, printed, loop_cut>>
    BY <1>9, <2>1 DEF HartFlush, Stale
  <2>. QED
    BY <2>2, <2>3 DEF Idle, OrderInv, NumbersInv, PlacesInv, BufferInv, CutInv, PrintedInOrder,
       NotLater, Unstored, Full, Below
<1>10. CASE HartExit(w) \/ HartHalt(w)
  BY <1>0, <1>b, <1>10, OrderWriter DEF HartExit, HartHalt, Goto, HartRegs, Unstored
<1>11. CASE LoopTest
  BY <1>0, <1>11, CutInOrder
<1>12. CASE LoopPrint
  BY <1>0, <1>12, PrintInOrder
<1>13. CASE LoopReset \/ LoopMemset
  BY <1>0, <1>13, ClearInOrder
<1>14. CASE LoopLock \/ LoopCheck \/ LoopBlock \/ LoopLsrLoad \/ LoopLsrStore \/ LoopClear \/ SpuriousWakeup
  BY <1>14, OrderUntouched DEF LoopLock, LoopCheck, LoopBlock, LoopLsrLoad, LoopLsrStore,
     LoopClear, SpuriousWakeup, LoopGoto, Stale
<1>15. CASE MainStep \/ Sigint
  <2>1. UNCHANGED <<output, tx_offset, hart, written, printed, loop_cut>>
    BY <1>15 DEF MainStep, ChkOffset, ChkLsrLoad, ChkLsrStore, ChkRequired, ChkFlush,
       ChkInterrupted, JoinHarts, SetEnd, NotifyAll, JoinUart, Sigint
  <2>2. loop' = loop \/ loop' = Notified
    BY <1>15 DEF MainStep, ChkOffset, ChkLsrLoad, ChkLsrStore, ChkRequired, ChkFlush,
       ChkInterrupted, JoinHarts, SetEnd, NotifyAll, JoinUart, Sigint
  <2>. QED
    BY <2>1, <2>2, OrderUntouched DEF Notified, Stale
<1>16. CASE UNCHANGED vars
  BY <1>16, OrderUntouched DEF vars, Stale
<1>17. CASE PollLoad(w) \/ PollStore(w)
  BY <1>0, <1>b, <1>17, OrderWriter DEF PollLoad, PollStore, Return, Idle, HartRegs, Unstored
<1>18. CASE WriteLsr(w)
  BY <1>18, OrderUntouched DEF WriteLsr, Stale
<1>. QED
  BY <1>1, <1>2, <1>3, <1>4, <1>5, <1>6, <1>7, <1>8, <1>9, <1>10, <1>11, <1>12,
     <1>13, <1>14, <1>15, <1>16, <1>17, <1>18 DEF Next, HartStep, LoopStep

(* With one hart writing, what pty_print prints is in the order of the     *)
(* guest's stores to THR and no character is printed twice, for every      *)
(* buffer size and any interleaving of uart_w, uart_loop and uart_chk.     *)
THEOREM SingleWriterInOrder ==
  ASSUME NEW w, Writers = {w}
  PROVE  Spec => []PrintedInOrder
<1>1. Init => OrderInv(w)
  <2>. SUFFICES ASSUME Init PROVE OrderInv(w)
    OBVIOUS
  <2>1. Full = {} /\ Len(printed) = 0 /\ loop_cut = <<>> /\ hart[w].pc = "idle"
    BY DEF Init, Full, Idle
  <2>. QED
    BY <2>1 DEF OrderInv, NumbersInv, PlacesInv, BufferInv, CutInv, PrintedInOrder
<1>2. TypeOK /\ OrderInv(w) /\ [Next]_vars => OrderInv(w)'
  BY OrderStep
<1>3. OrderInv(w) => PrintedInOrder
  BY DEF OrderInv
<1>. QED
  BY <1>1, <1>2, <1>3, TypeCorrect, PTL DEF Spec
==============================================================================
