---------------------------- MODULE UartRxProofs -----------------------------
(***************************************************************************)
(* Proofs about UartRx for every size of the input buffer and every number *)
(* of characters.  The ring is described without modular arithmetic, by    *)
(* the distance of a slot from read_ptr: the character typed j after the   *)
(* next one to be read is j slots on, around the end of the ring.          *)
(***************************************************************************)
EXTENDS UartRx, TLAPS

MainPcs == {"getc", "countLoad", "countStore", "trigger", "lsrLoad", "lsrStore"}
HartPcs == {"idle", "take", "storeCount", "tail", "lsrStore", "thrStore"}

(* The main thread has stored a character and not yet counted it.          *)
Uncounted == IF main.pc \in {"countLoad", "countStore"} THEN 1 ELSE 0

(* The hart is between its test of the count and the store of the new one. *)
Reading == hart.pc \in {"take", "storeCount"}

(* The threads' registers.                                                 *)
ThreadsOK ==
  /\ main \in [pc : MainPcs, reg : Nat]
  /\ hart \in [pc : HartPcs, reg : Nat]
  /\ loop \in [pc : {"flush", "lsrStore"}, reg : {0, 1}]
  /\ main.pc = "lsrStore" => main.reg \in {0, 1}
  /\ hart.pc \in {"lsrStore", "thrStore"} => hart.reg \in {0, 1}

(* No count, and no register that holds one, is ahead of what was typed:   *)
(* even a lost update cannot make pending_in larger than it can be, and a  *)
(* hart that decrements found it positive.                                 *)
CountBounds ==
  /\ typed \in 0 .. MaxIn /\ taken \in Nat /\ Uncounted <= typed
  /\ pending_in \in Nat /\ pending_in <= typed - Uncounted
  /\ main.pc = "countStore" => main.reg + 1 <= typed
  /\ Reading => hart.reg \in 1 .. typed

(* While no pending_in++ has overlapped a pending_in--: a register that    *)
(* will be stored back holds the count, and only one thread has one.       *)
CountHeld ==
  "count" \notin harm =>
    /\ main.pc = "countStore" => main.reg = pending_in /\ ~Reading
    /\ Reading => hart.reg = pending_in

(* The slot j after the next one to be read.                               *)
SlotAt(j) == IF read_ptr + j > IBUF_SIZE THEN read_ptr + j - IBUF_SIZE - 1 ELSE read_ptr + j

(* Until input is endangered, the unread characters lie in the ring in the *)
(* order they were typed, and write_ptr is at the slot after the last one. *)
RingHolds ==
  harm = {} =>
    /\ typed - taken \in 0 .. IBUF_SIZE + 1
    /\ Wrap(write_ptr) = SlotAt(typed - taken)
    /\ \A j \in 0 .. IBUF_SIZE : j < typed - taken => ring[SlotAt(j)] = taken + 1 + j

IInv ==
  TypeOK /\ ThreadsOK /\ CountBounds /\ CountHeld /\ CountExact /\ RingHolds /\ ReadInOrder

(* The ring starts empty, with both pointers on its first slot.            *)
LEMMA InitOK == Init => IInv
<1>. SUFFICES ASSUME Init
              PROVE  IInv
  OBVIOUS
<1>. USE RxAssumption DEF Init, At, Slots, MainPcs, HartPcs, Uncounted, Reading
<1>1. TypeOK
  <2>1. ring \in [Slots -> 0 .. MaxIn]
    OBVIOUS
  <2>2. dlab \in BOOLEAN /\ harm \subseteq {"overrun", "count", "neighbour"}
    OBVIOUS
  <2>. QED
    BY <2>1, <2>2 DEF TypeOK
<1>2. ThreadsOK
  BY DEF ThreadsOK
<1>3. CountBounds /\ CountHeld /\ CountExact
  BY DEF CountBounds, CountHeld, CountExact
<1>4. RingHolds /\ ReadInOrder
  BY DEF RingHolds, ReadInOrder, SlotAt, Wrap
<1>. QED
  BY <1>1, <1>2, <1>3, <1>4 DEF IInv

(* What every step of a thread that leaves the ring, the pointers and the  *)
(* history alone, and moves neither into nor out of a counting section,    *)
(* preserves.                                                              *)
LEMMA RingUntouched ==
  ASSUME RingHolds, ReadInOrder, UNCHANGED ringVars, UNCHANGED history
  PROVE  RingHolds' /\ ReadInOrder'
BY DEF RingHolds, ReadInOrder, ringVars, history, SlotAt, Wrap

(* Every step of uart_chk, uart_loop and uart_r keeps the invariant.       *)
LEMMA Step == IInv /\ [Next]_vars => IInv'
<1>. SUFFICES ASSUME IInv, [Next]_vars
              PROVE  IInv'
  OBVIOUS
<1>. USE RxAssumption
<1>. USE DEF IInv, Slots, At, ringVars, history, threads, MainPcs, HartPcs, Uncounted, Reading
<1>1. CASE NoInput
  <2>1. TypeOK' /\ ThreadsOK'
    BY <1>1 DEF NoInput, TypeOK, ThreadsOK
  <2>2. CountBounds' /\ CountHeld' /\ CountExact'
    BY <1>1 DEF NoInput, ThreadsOK, CountBounds, CountHeld, CountExact
  <2>. QED
    BY <1>1, <2>1, <2>2, RingUntouched DEF NoInput
<1>2. CASE Input
  <2>. USE DEF Input, Happens
  <2>1. TypeOK' /\ ThreadsOK'
    BY <1>2 DEF TypeOK, ThreadsOK, CountBounds
  <2>2. CountBounds' /\ CountHeld' /\ CountExact'
    BY <1>2 DEF ThreadsOK, CountBounds, CountHeld, CountExact
  <2>3. RingHolds'
    <3>. SUFFICES ASSUME harm' = {}
                  PROVE  /\ (typed - taken)' \in 0 .. IBUF_SIZE + 1
                         /\ Wrap(write_ptr)' = SlotAt(typed - taken)'
                         /\ \A j \in 0 .. IBUF_SIZE :
                              j < (typed - taken)' => ring'[SlotAt(j)'] = (taken + 1 + j)'
      BY DEF RingHolds
    <3>1. harm = {} /\ typed - taken \in 0 .. IBUF_SIZE
      BY <1>2 DEF RingHolds, CountBounds
    <3>2. write_ptr \in Slots /\ read_ptr \in Slots /\ write_ptr = SlotAt(typed - taken)
      BY <1>2, <3>1 DEF RingHolds, TypeOK, Wrap
    <3>3. Wrap(write_ptr)' = SlotAt(typed - taken)'
      BY <1>2, <3>1, <3>2 DEF Wrap, SlotAt, CountBounds
    <3>4. ASSUME NEW j \in 0 .. IBUF_SIZE, j < (typed - taken)'
          PROVE  ring'[SlotAt(j)'] = (taken + 1 + j)'
      <4>1. SlotAt(j)' = SlotAt(j) /\ SlotAt(j) \in Slots
        BY <1>2, <3>2 DEF SlotAt
      <4>2. CASE j = typed - taken
        BY <1>2, <4>1, <4>2, <3>2 DEF TypeOK, CountBounds
      <4>3. CASE j # typed - taken
        <5>1. j < typed - taken
          BY <1>2, <3>4, <4>3 DEF CountBounds
        <5>2. SlotAt(j) # write_ptr
          BY <3>1, <3>2, <5>1 DEF SlotAt, CountBounds
        <5>. QED
          BY <1>2, <3>1, <4>1, <5>1, <5>2 DEF RingHolds, TypeOK, CountBounds
      <4>. QED
        BY <4>2, <4>3
    <3>. QED
      BY <1>2, <3>1, <3>3, <3>4 DEF CountBounds
  <2>4. ReadInOrder'
    BY <1>2 DEF ReadInOrder
  <2>. QED
    BY <2>1, <2>2, <2>3, <2>4
<1>3. CASE CountLoad
  <2>. USE DEF CountLoad, Happens
  <2>1. TypeOK' /\ ThreadsOK'
    BY <1>3 DEF TypeOK, ThreadsOK, CountBounds
  <2>2. CountBounds' /\ CountHeld' /\ CountExact'
    BY <1>3 DEF TypeOK, ThreadsOK, CountBounds, CountHeld, CountExact
  <2>3. RingHolds' /\ ReadInOrder'
    BY <1>3 DEF RingHolds, ReadInOrder, SlotAt, Wrap
  <2>. QED
    BY <2>1, <2>2, <2>3
<1>4. CASE CountStore
  <2>. USE DEF CountStore
  <2>1. TypeOK' /\ ThreadsOK'
    BY <1>4 DEF TypeOK, ThreadsOK, CountBounds
  <2>2. CountBounds' /\ CountHeld' /\ CountExact'
    BY <1>4 DEF TypeOK, ThreadsOK, CountBounds, CountHeld, CountExact
  <2>. QED
    BY <1>4, <2>1, <2>2, RingUntouched
<1>5. CASE TriggerWrap
  <2>. USE DEF TriggerWrap
  <2>1. TypeOK' /\ ThreadsOK'
    BY <1>5 DEF TypeOK, ThreadsOK, CountBounds, Wrap
  <2>2. CountBounds' /\ CountHeld' /\ CountExact'
    BY <1>5 DEF TypeOK, ThreadsOK, CountBounds, CountHeld, CountExact
  <2>3. RingHolds' /\ ReadInOrder'
    BY <1>5 DEF RingHolds, ReadInOrder, SlotAt, Wrap, TypeOK
  <2>. QED
    BY <2>1, <2>2, <2>3
<1>6. CASE ChkLsrLoad
  <2>. USE DEF ChkLsrLoad
  <2>1. TypeOK' /\ ThreadsOK'
    BY <1>6 DEF TypeOK, ThreadsOK
  <2>2. CountBounds' /\ CountHeld' /\ CountExact'
    BY <1>6 DEF ThreadsOK, CountBounds, CountHeld, CountExact
  <2>. QED
    BY <1>6, <2>1, <2>2, RingUntouched
<1>7. CASE ChkLsrStore
  <2>. USE DEF ChkLsrStore
  <2>1. TypeOK' /\ ThreadsOK'
    BY <1>7 DEF TypeOK, ThreadsOK
  <2>2. CountBounds' /\ CountHeld' /\ CountExact'
    BY <1>7 DEF ThreadsOK, CountBounds, CountHeld, CountExact
  <2>. QED
    BY <1>7, <2>1, <2>2, RingUntouched
<1>8. CASE LoopLsrLoad \/ LoopLsrStore
  <2>. USE DEF LoopLsrLoad, LoopLsrStore
  <2>1. TypeOK'
    BY <1>8 DEF TypeOK, ThreadsOK
  <2>2. ThreadsOK'
    BY <1>8 DEF TypeOK, ThreadsOK
  <2>3. CountBounds' /\ CountHeld' /\ CountExact'
    BY <1>8 DEF CountBounds, CountHeld, CountExact
  <2>. QED
    BY <1>8, <2>1, <2>2, <2>3, RingUntouched
<1>9. CASE ReadRbr
  <2>. USE DEF ReadRbr, Happens
  <2>1. TypeOK'
    BY <1>9 DEF TypeOK, ThreadsOK
  <2>2. ThreadsOK'
    BY <1>9 DEF TypeOK, ThreadsOK, CountBounds
  <2>3. CountBounds' /\ CountHeld' /\ CountExact'
    BY <1>9 DEF TypeOK, ThreadsOK, CountBounds, CountHeld, CountExact
  <2>4. RingHolds' /\ ReadInOrder'
    BY <1>9 DEF RingHolds, ReadInOrder, SlotAt, Wrap
  <2>. QED
    BY <2>1, <2>2, <2>3, <2>4
<1>10. CASE Take
  <2>. USE DEF Take
  <2>1. TypeOK' /\ ThreadsOK'
    BY <1>10 DEF TypeOK, ThreadsOK, Wrap
  <2>2. CountBounds' /\ CountHeld' /\ CountExact'
    BY <1>10 DEF ThreadsOK, CountBounds, CountHeld, CountExact
  <2>3. RingHolds' /\ ReadInOrder'
    <3>. SUFFICES ASSUME harm = {}
                  PROVE  RingHolds' /\ ReadInOrder'
      BY <1>10 DEF RingHolds, ReadInOrder
    <3>1. typed - taken \in 1 .. IBUF_SIZE + 1 /\ read_ptr \in Slots
      BY <1>10 DEF TypeOK, CountBounds, CountHeld, CountExact, RingHolds
    <3>2. SlotAt(0) = read_ptr
      BY <3>1 DEF SlotAt
    <3>3. ReadInOrder'
      BY <1>10, <3>1, <3>2 DEF ReadInOrder, RingHolds, CountBounds
    <3>4. \A j \in 0 .. IBUF_SIZE : SlotAt(j)' = SlotAt(j + 1)
      BY <1>10, <3>1 DEF SlotAt, Wrap
    <3>5. Wrap(write_ptr)' = SlotAt(typed - taken)'
      <4>1. (typed - taken)' \in 0 .. IBUF_SIZE /\ (typed - taken)' + 1 = typed - taken
        BY <1>10, <3>1 DEF CountBounds
      <4>. QED
        BY <1>10, <3>1, <4>1 DEF RingHolds, SlotAt, Wrap, CountBounds
    <3>6. ASSUME NEW j \in 0 .. IBUF_SIZE, j < (typed - taken)'
          PROVE  ring'[SlotAt(j)'] = (taken + 1 + j)'
      <4>1. j + 1 \in 0 .. IBUF_SIZE /\ j + 1 < typed - taken
        BY <1>10, <3>1, <3>6 DEF CountBounds
      <4>. QED
        BY <1>10, <3>4, <4>1 DEF RingHolds, CountBounds
    <3>. QED
      BY <1>10, <3>1, <3>3, <3>5, <3>6 DEF RingHolds, CountBounds
  <2>. QED
    BY <2>1, <2>2, <2>3
<1>11. CASE StoreCount
  <2>. USE DEF StoreCount
  <2>1. TypeOK' /\ ThreadsOK'
    BY <1>11 DEF TypeOK, ThreadsOK, CountBounds
  <2>2. CountBounds' /\ CountHeld' /\ CountExact'
    BY <1>11 DEF TypeOK, ThreadsOK, CountBounds, CountHeld, CountExact
  <2>. QED
    BY <1>11, <2>1, <2>2, RingUntouched
<1>12. CASE ReadOther \/ TailTest \/ TailStore \/ WriteThr \/ ThrStore \/ WriteLcr \/ WriteLsr
  <2>. USE DEF ReadOther, TailTest, TailStore, WriteThr, ThrStore, WriteLcr, WriteLsr
  <2>1. TypeOK'
    BY <1>12 DEF TypeOK, ThreadsOK
  <2>2. ThreadsOK'
    BY <1>12 DEF TypeOK, ThreadsOK
  <2>3. CountBounds' /\ CountHeld' /\ CountExact'
    BY <1>12 DEF ThreadsOK, CountBounds, CountHeld, CountExact
  <2>. QED
    BY <1>12, <2>1, <2>2, <2>3, RingUntouched
<1>13. CASE Neighbour
  <2>. USE DEF Neighbour, Happens
  <2>1. TypeOK' /\ ThreadsOK'
    BY <1>13 DEF TypeOK, ThreadsOK
  <2>2. CountBounds' /\ CountHeld' /\ CountExact' /\ ReadInOrder'
    BY <1>13 DEF CountBounds, CountHeld, CountExact, ReadInOrder
  <2>3. RingHolds'
    <3>. SUFFICES ASSUME harm' = {}
                  PROVE  RingHolds'
      BY DEF RingHolds
    <3>1. harm = {} /\ ring[IBUF_SIZE] <= taken
      BY <1>13 DEF TypeOK, CountBounds
    <3>2. ASSUME NEW j \in 0 .. IBUF_SIZE, j < typed - taken
          PROVE  ring'[SlotAt(j)] = taken + 1 + j
      <4>1. ring[SlotAt(j)] = taken + 1 + j
        BY <3>1, <3>2 DEF RingHolds
      <4>2. SlotAt(j) # IBUF_SIZE
        BY <3>1, <4>1 DEF CountBounds
      <4>. QED
        BY <1>13, <4>1, <4>2 DEF TypeOK, SlotAt
    <3>. QED
      BY <1>13, <3>1, <3>2 DEF RingHolds, SlotAt, Wrap
  <2>. QED
    BY <2>1, <2>2, <2>3
<1>14. CASE UNCHANGED vars
  <2>1. TypeOK' /\ ThreadsOK'
    BY <1>14 DEF TypeOK, ThreadsOK, vars
  <2>2. CountBounds' /\ CountHeld' /\ CountExact'
    BY <1>14 DEF CountBounds, CountHeld, CountExact, vars
  <2>. QED
    BY <1>14, <2>1, <2>2, RingUntouched DEF vars
<1>. QED
  BY <1>1, <1>2, <1>3, <1>4, <1>5, <1>6, <1>7, <1>8, <1>9, <1>10, <1>11, <1>12, <1>13, <1>14
  DEF Next, Main, Loop, Access, Guest

(* The inductive invariant holds in every reachable state.                 *)
THEOREM IInvAlways == Spec => []IInv
BY InitOK, Step, PTL DEF Spec

(* The pointers of uart_chk and uart_r never leave the ring, and the count *)
(* stays in its range whatever the threads do to each other's updates: a   *)
(* lost update cannot take pending_in below zero or beyond what was typed. *)
THEOREM TypeCorrect == Spec => []TypeOK
<1>1. IInv => TypeOK
  BY DEF IInv
<1>. QED
  BY <1>1, IInvAlways, PTL

(* pending_in is exact as long as no pending_in++ of uart_chk overlapped a *)
(* pending_in-- of uart_r.                                                 *)
THEOREM CountAlwaysExact == Spec => []CountExact
<1>1. IInv => CountExact
  BY DEF IInv
<1>. QED
  BY <1>1, IInvAlways, PTL

(* Overlapping counts, an overrun and a write next to the buffer are the   *)
(* only ways to lose input: without them the guest reads what was typed.   *)
THEOREM InputInOrder == Spec => []ReadInOrder
<1>1. IInv => ReadInOrder
  BY DEF IInv
<1>. QED
  BY <1>1, IInvAlways, PTL

==============================================================================
