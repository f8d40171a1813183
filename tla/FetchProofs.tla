----------------------------- MODULE FetchProofs -----------------------------
(***************************************************************************)
(* Instruction fetch, for every page size, every number of pages and       *)
(* frames, every set of translations and every classification of half      *)
(* words: instbuf stays in step with pc.                                   *)
(***************************************************************************)
EXTENDS Fetch, TLAPS

(* v is where the word came from that instbuf is the second half of.       *)
FilledAt(v) == Mapped(v) /\ from = Following(Phys(v))

(* Where instbuf came from, in terms of pc: this is what BufferTrue needs  *)
(* to be kept by the steps that move pc and by those that use the buffer.  *)
BufferInv ==
  instbuf # Zero =>
    /\ stage = "execute" => Len(inst) = 1 /\ FilledAt(pc)
    /\ stage # "execute" => \E v \in Addresses : pc = Succ(v) /\ FilledAt(v)
    /\ ~overwritten => instbuf = mem[from]

IInv == TypeOK /\ BufferInv

-----------------------------------------------------------------------------
(* Successors stay in the address space, and in the page unless they begin *)
(* one.                                                                    *)
LEMMA SuccFacts ==
  ASSUME NEW v \in Addresses
  PROVE  /\ Succ(v) \in Addresses
         /\ Succ(v)[2] # 0 => Succ(v) = <<v[1], v[2] + 1>> /\ v[2] + 1 \in Offsets
BY FetchSizeAssumption DEF Addresses, Pages, Offsets, Succ, Following

(* What a mapped address is mapped to is memory, and so is what follows.   *)
LEMMA PhysFacts ==
  ASSUME TypeOK, NEW v \in Addresses, Mapped(v)
  PROVE  Phys(v) \in Cells /\ Following(Phys(v)) \in Cells
<1>1. v[1] \in Pages /\ v[2] \in Offsets
  BY DEF Addresses
<1>2. map[v[1]] \in 0 .. NFrames - 1
  BY <1>1, FetchMapAssumption DEF TypeOK, Mapped, NoFrame
<1> QED
  BY <1>1, <1>2, FetchSizeAssumption DEF Phys, Following, Cells, Offsets

(* Within a page, the address space and memory have the same successor.    *)
LEMMA SamePage ==
  ASSUME NEW v \in Addresses, Succ(v)[2] # 0
  PROVE  Phys(Succ(v)) = Following(Phys(v)) /\ (Mapped(v) <=> Mapped(Succ(v)))
BY SuccFacts DEF Phys, Following, Mapped

(* The classes of half words the length test and instbuf tell apart.       *)
LEMMA ClassFacts ==
  /\ Zero \in HalfWords /\ Ones \in HalfWords /\ Rvc \subseteq HalfWords
  /\ Ones # Zero /\ Ones \notin Rvc
  /\ \A h \in HalfWords : ~Compressed(h) /\ h \notin Long => h \in Wide
BY FetchClassAssumption DEF HalfWords, Compressed

(* Both halves of the word that is fetched are half words; one that comes  *)
(* from instbuf leaves nothing for it.                                     *)
LEMMA WordFacts ==
  ASSUME TypeOK, FromMemory => Mapped(pc)
  PROVE  /\ Word \in HalfWords \X HalfWords
         /\ Buffer(Word) \in Rvc \cup {Zero}
         /\ ~FromMemory => Buffer(Word) = Zero
<1>1. CASE FromMemory
  <2>1. Phys(pc) \in Cells /\ Following(Phys(pc)) \in Cells
    BY <1>1, PhysFacts DEF TypeOK
  <2> QED
    BY <1>1, <2>1 DEF TypeOK, Word, Buffer, Compressed
<1>2. CASE ~FromMemory
  BY <1>2, ClassFacts DEF TypeOK, Word, Buffer, Compressed
<1> QED
  BY <1>1, <1>2

-----------------------------------------------------------------------------
(* reset_state leaves instbuf empty.                                        *)
LEMMA InitIInv == Init => IInv
<1> SUFFICES ASSUME Init PROVE IInv
  OBVIOUS
<1>1. <<0, 0>> \in Addresses /\ <<0, 0>> \in Cells
  BY FetchSizeAssumption DEF Addresses, Pages, Offsets, Cells
<1>2. mem \in [Cells -> HalfWords]
  BY FetchMapAssumption DEF Init
<1>3. stores \in 0 .. MaxStores
  BY FetchSizeAssumption DEF Init
<1>4. inst \in {<<>>} \cup {<<h>> : h \in Rvc \cup {Zero}} \cup (Wide \X HalfWords)
  BY Zenon DEF Init
<1> QED
  BY <1>1, <1>2, <1>3, <1>4 DEF Init, IInv, TypeOK, BufferInv

(* A step that empties instbuf has nothing more to keep.                   *)
LEMMA EmptiedKeeps == (TypeOK' /\ instbuf' = Zero) => IInv'
BY DEF IInv, BufferInv

(* A store leaves memory well-formed, and instbuf true to a cell that is   *)
(* not the one written.                                                    *)
LEMMA StoreFacts ==
  ASSUME IInv, NEW cell \in Cells, StoredTo(cell)
  PROVE  /\ mem' \in [Cells -> HalfWords]
         /\ from' = from /\ overwritten' \in BOOLEAN
         /\ stores' \in 0 .. MaxStores
         /\ instbuf # Zero /\ ~overwritten' => instbuf = mem'[from]
<1>1. PICK h \in HalfWords : mem' = [mem EXCEPT ![cell] = h]
  BY DEF StoredTo
<1>2. instbuf # Zero /\ ~overwritten' => instbuf = mem'[from]
  BY <1>1 DEF IInv, BufferInv, TypeOK, StoredTo
<1>3. mem' \in [Cells -> HalfWords]
  BY <1>1 DEF IInv, TypeOK
<1>4. stores' \in 0 .. MaxStores
  BY FetchSizeAssumption DEF IInv, TypeOK, StoredTo
<1> QED
  BY <1>2, <1>3, <1>4 DEF StoredTo

(* The instruction that runs advances pc past itself: past one half word   *)
(* if instbuf holds the next.                                              *)
LEMMA AdvanceFacts ==
  ASSUME IInv, stage = "execute"
  PROVE  /\ Advanced \in Addresses
         /\ instbuf # Zero => Advanced = Succ(pc) /\ FilledAt(pc)
BY SuccFacts DEF IInv, TypeOK, BufferInv, Advanced

(* A step of the execution that keeps instbuf, memory and translations and *)
(* advances pc.                                                            *)
LEMMA AdvanceKeeps ==
  ASSUME IInv, Executes, pc' = Advanced, UNCHANGED <<map, instbuf>>,
         mem' \in [Cells -> HalfWords], from' = from, overwritten' \in BOOLEAN,
         stores' \in 0 .. MaxStores,
         instbuf # Zero /\ ~overwritten' => instbuf = mem'[from]
  PROVE  IInv'
<1>1. TypeOK'
  BY AdvanceFacts DEF IInv, TypeOK, Executes
<1>2. BufferInv'
  <2> SUFFICES ASSUME instbuf # Zero PROVE BufferInv'
    BY DEF BufferInv
  <2>1. pc \in Addresses /\ pc' = Succ(pc) /\ FilledAt(pc)
    BY AdvanceFacts DEF IInv, TypeOK, Executes
  <2>2. FilledAt(pc)' <=> (Mapped(pc)' /\ from' = Following(Phys(pc))')
    BY DEF FilledAt
  <2>3. \E v \in Addresses : pc' = Succ(v) /\ map[v[1]] # NoFrame /\ from = Following(<<map[v[1]], v[2]>>)
    BY <2>1 DEF FilledAt, Mapped, Phys
  <2> QED
    BY <2>3 DEF BufferInv, FilledAt, Mapped, Phys, Executes
<1> QED
  BY <1>1, <1>2 DEF IInv

(* A fetch that succeeds fills instbuf from the word at pc, or empties it. *)
LEMMA FetchedKeeps ==
  ASSUME IInv, Fetched
  PROVE  IInv'
<1>1. /\ Word \in HalfWords \X HalfWords
      /\ Buffer(Word) \in Rvc \cup {Zero}
      /\ ~FromMemory => Buffer(Word) = Zero
  BY WordFacts DEF IInv, Fetched
<1>2. inst' \in {<<h>> : h \in Rvc \cup {Zero}} \cup (Wide \X HalfWords)
  <2>1. CASE Compressed(Word[1])
    BY <2>1 DEF Fetched, Compressed
  <2>2. CASE ~Compressed(Word[1])
    BY <2>2, <1>1, ClassFacts DEF Fetched
  <2> QED
    BY <2>1, <2>2
<1>3. from' \in Cells /\ overwritten' \in BOOLEAN
  BY PhysFacts DEF IInv, TypeOK, Fetched
<1>4. TypeOK'
  BY <1>1, <1>2, <1>3 DEF IInv, TypeOK, Fetched
<1>5. BufferInv'
  <2> SUFFICES ASSUME instbuf' # Zero PROVE BufferInv'
    BY DEF BufferInv
  <2>1. FromMemory /\ Mapped(pc) /\ Compressed(Word[1]) /\ instbuf' = Word[2]
    BY <1>1 DEF Fetched, Buffer
  <2>2. inst' = <<Word[1]>> /\ from' = Following(Phys(pc)) /\ instbuf' = mem[Following(Phys(pc))]
    BY <2>1 DEF Fetched, Word
  <2> QED
    BY <2>1, <2>2 DEF BufferInv, FilledAt, Mapped, Phys, Fetched
<1> QED
  BY <1>4, <1>5 DEF IInv

(* Every step of the hart and every store of another one keeps IInv.       *)
LEMMA NextIInv == IInv /\ [Next]_vars => IInv'
<1> SUFFICES ASSUME IInv, [Next]_vars PROVE IInv'
  OBVIOUS
<1> USE DEF IInv
<1>1. ASSUME FetchFault \/ FetchIllegal PROVE IInv'
  BY <1>1, EmptiedKeeps DEF FetchFault, FetchIllegal, Trap, FetchFails, TypeOK, hist
<1>2. CASE Fetched
  BY <1>2, FetchedKeeps
<1>3. ASSUME Computes PROVE IInv'
  BY <1>3, AdvanceKeeps DEF Computes, hist, TypeOK, BufferInv
<1>4. ASSUME Store PROVE IInv'
  <2>1. PICK cell \in Cells : StoredTo(cell)
    BY <1>4 DEF Store
  <2> QED
    BY <1>4, <2>1, StoreFacts, AdvanceKeeps DEF Store
<1>5. ASSUME Jump \/ ExecuteFault \/ Xret PROVE IInv'
  BY <1>5, EmptiedKeeps DEF Jump, ExecuteFault, Xret, Executes, Trap, TypeOK, hist
<1>6. ASSUME FenceI \/ SfenceVma PROVE IInv'
  BY <1>6, EmptiedKeeps, AdvanceFacts DEF FenceI, SfenceVma, Executes, TypeOK, hist
<1>7. ASSUME CsrWrite PROVE IInv'
  <2>1. instbuf' = Zero
    BY <1>7 DEF CsrWrite, BufferInv, Executes
  <2> QED
    BY <1>7, <2>1, EmptiedKeeps, AdvanceFacts DEF CsrWrite, Executes, TypeOK, hist
<1>8. ASSUME CycleEnd PROVE IInv'
  <2>1. TypeOK'
    BY <1>8, ClassFacts DEF CycleEnd, Trap, Masked, TypeOK, hist
  <2>2. CASE UNCHANGED <<pc, map, instbuf>>
    BY <1>8, <2>1, <2>2 DEF CycleEnd, BufferInv, FilledAt, Mapped, Phys, hist
  <2> QED
    BY <1>8, <2>1, <2>2, EmptiedKeeps DEF CycleEnd, Trap, Masked
<1>9. ASSUME OtherStore PROVE IInv'
  <2>1. PICK cell \in Cells : StoredTo(cell)
    BY <1>9 DEF OtherStore
  <2>2. TypeOK'
    BY <1>9, <2>1, StoreFacts DEF OtherStore, TypeOK
  <2>3. BufferInv'
    BY <1>9, <2>1, StoreFacts DEF OtherStore, BufferInv, FilledAt, Mapped, Phys
  <2> QED
    BY <2>2, <2>3
<1>10. CASE UNCHANGED vars
  BY <1>10 DEF vars, hist, TypeOK, BufferInv, FilledAt, Mapped, Phys
<1> QED
  BY <1>1, <1>2, <1>3, <1>4, <1>5, <1>6, <1>7, <1>8, <1>9, <1>10 DEF Next, Execute

(* The type invariant and the origin of instbuf hold in every state.       *)
THEOREM FetchInvariant == Spec => []IInv
<1>1. IInv /\ [Next]_vars => IInv'
  BY NextIInv
<1> QED
  BY InitIInv, <1>1, PTL DEF Spec

(* Every half word that is kept, fetched or executed is of its class.      *)
THEOREM FetchTypeOK == Spec => []TypeOK
<1>1. IInv => TypeOK
  BY DEF IInv
<1> QED
  BY FetchInvariant, <1>1, PTL

(* No instruction of 32 bits runs with a half word in instbuf.             *)
THEOREM FetchWideAlone == Spec => []WideAlone
<1> DEFINE Idle == stage # "execute" => inst = <<>>
<1>1. Init => Idle
  BY DEF Init
<1>2. Idle /\ [Next]_vars => Idle'
  BY DEF Next, Execute, FetchFault, FetchIllegal, FetchFails, Fetched, Computes, Jump, Store,
         ExecuteFault, FenceI, SfenceVma, CsrWrite, Xret, Executes, CycleEnd, OtherStore, vars
<1>3. IInv /\ Idle => WideAlone
  BY DEF IInv, BufferInv, WideAlone
<1>4. Spec => []Idle
  BY <1>1, <1>2, PTL DEF Spec
<1> QED
  BY FetchInvariant, <1>3, <1>4, PTL

(* instbuf is the half word at the address it is meant for, whose cell it  *)
(* was read from unless that address begins a page.                        *)
LEMMA BufferIsTrue == IInv => BufferTrue
<1> SUFFICES ASSUME IInv, instbuf # Zero, ~overwritten
             PROVE  \/ Mapped(Buffered) /\ instbuf = mem[Phys(Buffered)]
                    \/ Torn(Buffered, from)
  BY DEF BufferTrue
<1>1. PICK v \in Addresses : Buffered = Succ(v) /\ FilledAt(v)
  BY DEF IInv, TypeOK, BufferInv, Buffered
<1>2. instbuf = mem[from]
  BY DEF IInv, BufferInv
<1>3. CASE Buffered[2] # 0
  BY <1>1, <1>2, <1>3, SamePage DEF FilledAt
<1>4. CASE Buffered[2] = 0
  BY <1>2, <1>4 DEF Torn
<1> QED
  BY <1>3, <1>4

(* The buffered half word is the one the hart executes next, but for       *)
(* stores after the fetch and the start of a page.                         *)
THEOREM FetchBufferTrue == Spec => []BufferTrue
BY FetchInvariant, BufferIsTrue, PTL

(* A fetch hands over what the address space holds at pc.                  *)
LEMMA FetchedIsCode ==
  ASSUME IInv, Fetched
  PROVE  /\ \/ Mapped(pc) /\ inst'[1] = mem[Phys(pc)]
            \/ instbuf # Zero /\ (overwritten \/ Torn(pc, from))
         /\ Len(inst') = 2 =>
              \/ Mapped(Succ(pc)) /\ inst'[2] = mem[Phys(Succ(pc))]
              \/ Torn(Succ(pc), Following(Phys(pc)))
<1> USE DEF IInv, TypeOK
<1>1. inst'[1] = Word[1]
  BY DEF Fetched
<1>2. CASE ~FromMemory
  <2>1. instbuf # Zero /\ Compressed(Word[1]) /\ Word[1] = instbuf /\ Buffered = pc
    BY <1>2 DEF FromMemory, Word, Compressed, Buffered, Fetched
  <2>2. Len(inst') = 1
    BY <2>1 DEF Fetched
  <2> QED
    BY <1>1, <2>1, <2>2, BufferIsTrue DEF BufferTrue
<1>3. CASE FromMemory
  <2>1. Mapped(pc) /\ Word = <<mem[Phys(pc)], mem[Following(Phys(pc))]>>
    BY <1>3 DEF Fetched, Word
  <2>2. ASSUME Len(inst') = 2
        PROVE  \/ Mapped(Succ(pc)) /\ inst'[2] = mem[Phys(Succ(pc))]
               \/ Torn(Succ(pc), Following(Phys(pc)))
    <3>1. inst'[2] = mem[Following(Phys(pc))]
      BY <2>1, <2>2 DEF Fetched
    <3>2. CASE Succ(pc)[2] # 0
      BY <2>1, <3>1, <3>2, SamePage
    <3>3. CASE Succ(pc)[2] = 0
      BY <3>1, <3>3 DEF Torn
    <3> QED
      BY <3>2, <3>3
  <2> QED
    BY <1>1, <2>1, <2>2
<1> QED
  BY <1>2, <1>3

(* What a fetch hands over to decode_exc is what the address space holds   *)
(* at pc, but for the exceptions RunsCode names.                           *)
THEOREM FetchRunsCode == Spec => RunsCode
<1>1. IInv /\ [Next]_vars =>
        [Fetched =>
           /\ \/ Mapped(pc) /\ inst'[1] = mem[Phys(pc)]
              \/ instbuf # Zero /\ (overwritten \/ Torn(pc, from))
           /\ Len(inst') = 2 =>
                \/ Mapped(Succ(pc)) /\ inst'[2] = mem[Phys(Succ(pc))]
                \/ Torn(Succ(pc), Following(Phys(pc)))]_vars
  BY FetchedIsCode
<1> QED
  BY FetchInvariant, <1>1, PTL DEF Spec, RunsCode
=============================================================================
