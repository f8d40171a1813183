-------------------------------- MODULE Fetch --------------------------------
(***************************************************************************)
(* Instruction fetch of one hart: every cycle takes an instruction from    *)
(* memory, 32 bits at a time, or from instbuf, where fetch() keeps the     *)
(* second half of a word whose first half is a compressed instruction.     *)
(* Nothing says where the half word in instbuf came from: jumps, traps and *)
(* fences have to empty it.                                                *)
(* Sources: cpu.cpp (cycle, fetch, the jumps, fences and the end of        *)
(* decode_exc), hartexc.cpp (create_exception, setup_pending_int).         *)
(*                                                                         *)
(* An address is a page or a frame with an offset, counted in half words.  *)
(* A half word is told apart by its class, and instructions by what they   *)
(* do to pc, instbuf, memory and translations.  Translations include the   *)
(* permission to execute; they change with satp, privilege and the fences  *)
(* (module Mmu models how), and stores are of half words.                  *)
(***************************************************************************)
EXTENDS Integers, Sequences

CONSTANTS
  Rvc, Negative,    \* compressed instructions; the ones with bit 15 set
  Zero,             \* 0x0000: of the form of a compressed one, and "empty" in instbuf
  Wide,             \* first halves of 32-bit instructions
  Long, Ones,       \* first halves of longer ones; 0xffff among them
  PAGE,             \* half words of a page
  NPages, NFrames,  \* pages of virtual, frames of physical memory
  Maps,             \* translations that may be in force: page -> frame
  Images,           \* what memory may hold in the beginning
  MaxStores         \* stores of a behaviour

HalfWords == Rvc \cup {Zero} \cup Wide \cup Long
NoFrame == -1       \* not mapped, or not executable
Offsets == 0 .. PAGE - 1
Pages == 0 .. NPages - 1
Addresses == Pages \X Offsets
(* One frame past the end can be read: only the first byte is checked.     *)
Cells == (0 .. NFrames) \X Offsets

ASSUME FetchClassAssumption ==
  /\ Negative \subseteq Rvc /\ Ones \in Long
  /\ Zero \notin Rvc \cup Wide \cup Long
  /\ Rvc \cap Wide = {} /\ Rvc \cap Long = {} /\ Wide \cap Long = {}
ASSUME FetchSizeAssumption ==
  PAGE \in Nat \ {0, 1} /\ NPages \in Nat \ {0} /\ NFrames \in Nat \ {0} /\ MaxStores \in Nat
ASSUME FetchMapAssumption ==
  /\ Maps \subseteq [Pages -> (0 .. NFrames - 1) \cup {NoFrame}]
  /\ Images \subseteq [Cells -> HalfWords]

VARIABLES
  mem,         \* main_mem
  map,         \* the translation in force
  pc, instbuf, inst,    \* HartState; inst is the one or two half words to execute
  stage,       \* of cycle(): "fetch", "execute", "end"
  from,        \* history: the cell instbuf was last filled from,
  overwritten, \* whether it has been stored to since,
  stores       \* and how many stores there were

hist == <<from, overwritten, stores>>
vars == <<mem, map, pc, instbuf, inst, stage, hist>>

(* The following half word, in memory and in the address space.            *)
Following(c) == IF c[2] + 1 \in Offsets THEN <<c[1], c[2] + 1>> ELSE <<c[1] + 1, 0>>
Succ(v) ==
  LET next == Following(v) IN IF next[1] \in Pages THEN next ELSE <<0, 0>>

Mapped(v) == map[v[1]] # NoFrame
Phys(v) == <<map[v[1]], v[2]>>
Compressed(h) == h \in Rvc \cup {Zero}

TypeOK ==
  /\ mem \in [Cells -> HalfWords]
  /\ map \in Maps
  /\ pc \in Addresses
  /\ instbuf \in Rvc \cup {Zero}
  /\ inst \in {<<>>} \cup {<<h>> : h \in Rvc \cup {Zero}} \cup (Wide \X HalfWords)
  /\ stage \in {"fetch", "execute", "end"}
  /\ from \in Cells
  /\ overwritten \in BOOLEAN
  /\ stores \in 0 .. MaxStores

-----------------------------------------------------------------------------
(* create_exception.                                                       *)

(* Mutant: the buffer outlives the trap.                                   *)
TrapKeep ==
  /\ pc' \in Addresses
  /\ map' \in Maps
  /\ instbuf' = instbuf

(* pc is set from mtvec or stvec, and the privilege that map depends on.   *)
Trap ==
  /\ pc' \in Addresses
  /\ map' \in Maps
  /\ instbuf' = Zero

(* An interrupt that turns out to be disabled.                             *)
Masked == instbuf' = Zero /\ UNCHANGED <<pc, map>>

-----------------------------------------------------------------------------
(* fetch().                                                                *)

(* The 32 bits at pc; those of instbuf, an int16_t, are sign-extended.     *)
FromMemory == instbuf = Zero
Word ==
  IF FromMemory THEN <<mem[Phys(pc)], mem[Following(Phys(pc))]>>
  ELSE <<instbuf, IF instbuf \in Negative THEN Ones ELSE Zero>>

(* Mutant: the half word is kept whatever instruction comes before it.     *)
BufferAlways(word) == IF Compressed(word[2]) THEN word[2] ELSE Zero

(* What is left in instbuf: it was empty, or has just been emptied.        *)
Buffer(word) ==
  IF Compressed(word[1]) /\ Compressed(word[2]) THEN word[2] ELSE Zero

FetchFails == stage' = "end" /\ inst' = <<>> /\ UNCHANGED <<mem, hist>>

(* HANDLE_MEM_ERROR: pc is not mapped or may not be executed.              *)
FetchFault ==
  /\ stage = "fetch"
  /\ FromMemory /\ ~Mapped(pc)
  /\ Trap /\ FetchFails

(* All zeros, all ones, or a length of 48 bits and more.                   *)
FetchIllegal ==
  /\ stage = "fetch"
  /\ FromMemory => Mapped(pc)
  /\ Word = <<Zero, Zero>> \/ Word[1] \in Long
  /\ Trap /\ FetchFails

Fetched ==
  /\ stage = "fetch"
  /\ FromMemory => Mapped(pc)
  /\ Word # <<Zero, Zero>> /\ Word[1] \notin Long
  /\ inst' = IF Compressed(Word[1]) THEN <<Word[1]>> ELSE Word
  /\ instbuf' = Buffer(Word)
  /\ stage' = "execute"
  /\ IF FromMemory THEN from' = Following(Phys(pc)) /\ overwritten' = FALSE
     ELSE UNCHANGED <<from, overwritten>>
  /\ UNCHANGED <<mem, map, pc, stores>>

-----------------------------------------------------------------------------
(* decode_exc, by what instructions do to the state of the fetch.          *)

Advanced == IF Len(inst) = 1 THEN Succ(pc) ELSE Succ(Succ(pc))
Executes == stage = "execute" /\ stage' = "end" /\ inst' = <<>>

StoredTo(cell) ==
  /\ stores < MaxStores
  /\ \E h \in HalfWords : mem' = [mem EXCEPT ![cell] = h]
  /\ overwritten' = (overwritten \/ cell = from)
  /\ stores' = stores + 1
  /\ UNCHANGED from

(* Anything that only computes, a load, a branch that is not taken.        *)
Computes ==
  /\ Executes
  /\ pc' = Advanced
  /\ UNCHANGED <<mem, map, instbuf, hist>>

(* Mutant: a jump leaves the buffer.                                       *)
JumpKeep ==
  /\ Executes
  /\ pc' \in Addresses
  /\ UNCHANGED <<mem, map, instbuf, hist>>

(* JAL, JALR, a branch that is taken: pc_chgd.                             *)
Jump ==
  /\ Executes
  /\ pc' \in Addresses
  /\ instbuf' = Zero
  /\ UNCHANGED <<mem, map, hist>>

(* STORE, and the store of SC and AMO.                                     *)
Store ==
  /\ Executes
  /\ \E cell \in Cells : StoredTo(cell)
  /\ pc' = Advanced
  /\ UNCHANGED <<map, instbuf>>

(* ECALL, EBREAK, illegal instructions, faults of loads and stores.        *)
ExecuteFault == Executes /\ Trap /\ UNCHANGED <<mem, hist>>

FenceI ==
  /\ Executes /\ Len(inst) = 2
  /\ instbuf' = Zero
  /\ pc' = Advanced
  /\ UNCHANGED <<mem, map, hist>>

SfenceVma ==
  /\ Executes /\ Len(inst) = 2
  /\ instbuf' = Zero
  /\ map' \in Maps
  /\ pc' = Advanced
  /\ UNCHANGED <<mem, hist>>

(* CSR instructions: satp, mstatus and the PMP change map, not instbuf.    *)
CsrWrite ==
  /\ Executes /\ Len(inst) = 2
  /\ map' \in Maps
  /\ pc' = Advanced
  /\ UNCHANGED <<mem, instbuf, hist>>

(* MRET and SRET.                                                          *)
Xret ==
  /\ Executes /\ Len(inst) = 2
  /\ pc' \in Addresses
  /\ map' \in Maps
  /\ instbuf' = Zero
  /\ UNCHANGED <<mem, hist>>

-----------------------------------------------------------------------------
(* The end of cycle(): chk_int, and setup_pending_int if it is set.        *)
CycleEnd ==
  /\ stage = "end" /\ stage' = "fetch"
  /\ Trap \/ Masked \/ UNCHANGED <<pc, map, instbuf>>
  /\ UNCHANGED <<mem, inst, hist>>

(* Another hart stores to memory.                                          *)
OtherStore ==
  /\ \E cell \in Cells : StoredTo(cell)
  /\ UNCHANGED <<map, pc, instbuf, inst, stage>>

(* Reset: HartState is zeroed.                                             *)
Init ==
  /\ mem \in Images
  /\ map \in Maps
  /\ pc = <<0, 0>> /\ instbuf = Zero /\ inst = <<>>
  /\ stage = "fetch"
  /\ from = <<0, 0>> /\ overwritten = FALSE /\ stores = 0

Execute ==
  \/ Computes \/ Jump \/ Store \/ ExecuteFault
  \/ FenceI \/ SfenceVma \/ CsrWrite \/ Xret

Next ==
  \/ FetchFault \/ FetchIllegal \/ Fetched
  \/ Execute
  \/ CycleEnd
  \/ OtherStore

Spec == Init /\ [][Next]_vars

-----------------------------------------------------------------------------
(* v begins a page, and what precedes it in memory is not what precedes it *)
(* in the address space: cell, read on from the page before, is not its    *)
(* cell, or it has none.                                                   *)
Torn(v, cell) == v[2] = 0 /\ (~Mapped(v) \/ Phys(v) # cell)

(* The address instbuf is meant for.                                       *)
Buffered == IF stage = "execute" THEN Succ(pc) ELSE pc

(* instbuf, unless it is empty, is the half word the hart executes next:   *)
(* it stays in step with pc through jumps, traps, masked interrupts and    *)
(* changes of the translation.  It may differ from memory only if that     *)
(* half word was stored to after the fetch, or at the start of a page,     *)
(* where fetch() has read on in the wrong frame.                           *)
BufferTrue ==
  (instbuf # Zero /\ ~overwritten) =>
    \/ Mapped(Buffered) /\ instbuf = mem[Phys(Buffered)]
    \/ Torn(Buffered, from)

(* An instruction of 32 bits runs with the buffer empty.  CSR writes to    *)
(* satp rely on it: they change translations and leave instbuf alone.      *)
WideAlone == Len(inst) = 2 => instbuf = Zero

(* fetch() hands over what the address space holds at pc, both halves of   *)
(* it, but for the two exceptions of BufferTrue and an instruction that    *)
(* straddles pages that are not neighbours in memory.                      *)
RunsCode ==
  [][Fetched =>
       /\ \/ Mapped(pc) /\ inst'[1] = mem[Phys(pc)]
          \/ instbuf # Zero /\ (overwritten \/ Torn(pc, from))
       /\ Len(inst') = 2 =>
            \/ Mapped(Succ(pc)) /\ inst'[2] = mem[Phys(Succ(pc))]
            \/ Torn(Succ(pc), Following(Phys(pc)))]_vars
=============================================================================
