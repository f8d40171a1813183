-------------------------------- MODULE LrSc ---------------------------------
(***************************************************************************)
(* The A extension on several harts: LR, SC and AMOs under atomic_op_mtx,  *)
(* the reservations array, and the plain stores that take no mutex.        *)
(* Source: cpu.cpp (AMO and STORE cases).                                  *)
(*                                                                         *)
(* Addresses are translated physical addresses; translation is the         *)
(* business of page_table_walk, of which only the outcome "fault" remains. *)
(* Each step is one access to emulated memory or to reservations.          *)
(***************************************************************************)
EXTENDS Naturals

CONSTANTS
  Harts,       \* harts running guest code
  Addrs,       \* physical addresses of aligned words
  None,        \* an empty slot of reservations (0 in the code), a free mutex
  LrSameReg    \* whether guest code uses LR with one register for address and result

ASSUME NoneAssumption == None \notin Addrs /\ None \notin Harts
ASSUME GuestAssumption == LrSameReg \in BOOLEAN

VARIABLES
  reservations,  \* per hart: the reserved address or None
  mtx,           \* holder of atomic_op_mtx or None
  pc, addr,      \* per hart: step of the instruction, its address operand
  loaded,        \* per hart: the word its current LR or AMO has loaded, if any
  held           \* per hart: the word its last completed LR loaded

vars == <<reservations, mtx, pc, addr, loaded, held>>

(* What memory held does not matter, only whether it is still what a hart  *)
(* has loaded: a watch is an address and the kinds of instruction with     *)
(* which other harts have written to it since it was loaded.               *)
Writers == {"sc", "amo", "store"}
Watch == [word : Addrs \cup {None}, by : SUBSET Writers]
Unwatched == [word |-> None, by |-> {}]

Pcs == {"idle", "lrLoad", "lrReserve", "scCheck", "scStore", "amoLoad", "amoStore"}

(* Mutant: the lock_guard is missing.                                      *)
BeginUnlocked(h, step, a) ==
  /\ pc[h] = "idle"
  /\ mtx' = h
  /\ pc' = [pc EXCEPT ![h] = step]
  /\ addr' = [addr EXCEPT ![h] = a]
  /\ UNCHANGED <<reservations, loaded, held>>

(* An AMO-class instruction takes the mutex for all of its steps.          *)
Begin(h, step, a) ==
  /\ pc[h] = "idle" /\ mtx = None
  /\ mtx' = h
  /\ pc' = [pc EXCEPT ![h] = step]
  /\ addr' = [addr EXCEPT ![h] = a]
  /\ UNCHANGED <<reservations, loaded, held>>

Goto(h, step) == pc' = [pc EXCEPT ![h] = step] /\ UNCHANGED mtx

(* Every return, exceptions included, destroys the lock_guard and with it  *)
(* the locals of the instruction.                                          *)
Finish(h) ==
  /\ pc' = [pc EXCEPT ![h] = "idle"]
  /\ addr' = [addr EXCEPT ![h] = None]
  /\ mtx' = None

(* What a hart loaded is forgotten with its instruction.                   *)
Forget(watch, h) == [watch EXCEPT ![h] = Unwatched]

Load(h) == loaded' = [loaded EXCEPT ![h] = [word |-> addr[h], by |-> {}]]

(* What a write of word a by hart g means for the other harts' watches.    *)
Noted(watch, g, a, kind) ==
  [h \in Harts |-> IF h # g /\ watch[h].word = a
                   THEN [watch[h] EXCEPT !.by = @ \cup {kind}] ELSE watch[h]]

-----------------------------------------------------------------------------
(* LR: load the word into rd, then reserve an address and evict the others. *)
LrLoad(h) ==
  /\ pc[h] = "lrLoad"
  /\ Load(h)
  /\ Goto(h, "lrReserve")
  /\ UNCHANGED <<reservations, addr, held>>

(* The reserved address is translated from rs1 a second time: if rd is the *)
(* same register, it is whatever the loaded word says.                     *)
Reservable(h, a) == pc[h] = "lrReserve" /\ (a = addr[h] \/ LrSameReg)

LrReserve(h, a) ==
  /\ Reservable(h, a)
  /\ reservations' =
       [i \in Harts |-> IF i = h THEN a
                        ELSE IF reservations[i] = a THEN None
                        ELSE reservations[i]]
  /\ held' = [held EXCEPT ![h] = loaded[h]]
  /\ loaded' = Forget(loaded, h)
  /\ Finish(h)

(* Mutant: a failing SC returns with the mutex locked.                     *)
ScFailLocked(h) ==
  /\ pc[h] = "scCheck" /\ reservations[h] # addr[h]
  /\ reservations' = [reservations EXCEPT ![h] = None]
  /\ pc' = [pc EXCEPT ![h] = "idle"] /\ addr' = [addr EXCEPT ![h] = None]
  /\ UNCHANGED <<mtx, loaded, held>>

(* SC: without the reservation it fails; either way it is given up.        *)
ScFail(h) ==
  /\ pc[h] = "scCheck" /\ reservations[h] # addr[h]
  /\ reservations' = [reservations EXCEPT ![h] = None]
  /\ Finish(h)
  /\ UNCHANGED <<loaded, held>>

ScCheck(h) ==
  /\ pc[h] = "scCheck" /\ reservations[h] = addr[h]
  /\ Goto(h, "scStore")
  /\ UNCHANGED <<reservations, addr, loaded, held>>

(* Mutant: a successful SC keeps its reservation.                          *)
ScStoreKeep(h) ==
  /\ pc[h] = "scStore"
  /\ loaded' = Noted(loaded, h, addr[h], "sc")
  /\ held' = Noted(held, h, addr[h], "sc")
  /\ Finish(h)
  /\ UNCHANGED reservations

ScStore(h) ==
  /\ pc[h] = "scStore"
  /\ loaded' = Noted(loaded, h, addr[h], "sc")
  /\ held' = Noted(held, h, addr[h], "sc")
  /\ reservations' = [reservations EXCEPT ![h] = None]
  /\ Finish(h)

(* AMO: load, compute, store.  No reservation is looked at.                *)
AmoLoad(h) ==
  /\ pc[h] = "amoLoad"
  /\ Load(h)
  /\ Goto(h, "amoStore")
  /\ UNCHANGED <<reservations, addr, held>>

AmoStore(h) ==
  /\ pc[h] = "amoStore"
  /\ loaded' = Forget(Noted(loaded, h, addr[h], "amo"), h)
  /\ held' = Noted(held, h, addr[h], "amo")
  /\ Finish(h)
  /\ UNCHANGED reservations

(* Any access or walk of an AMO-class instruction may fault instead:       *)
(* HANDLE_MEM_ERROR returns, and the reservation stays as it is.           *)
Fault(h) ==
  /\ pc[h] # "idle"
  /\ loaded' = Forget(loaded, h)
  /\ Finish(h)
  /\ UNCHANGED <<reservations, held>>

(* A plain store: one access to main_mem, no mutex, no reservations.       *)
Store(h, a) ==
  /\ pc[h] = "idle"
  /\ loaded' = Noted(loaded, h, a, "store")
  /\ held' = Noted(held, h, a, "store")
  /\ UNCHANGED <<reservations, mtx, pc, addr>>

-----------------------------------------------------------------------------

(* mem_init: no reservations.                                              *)
Init ==
  /\ reservations = [h \in Harts |-> None]
  /\ mtx = None
  /\ pc = [h \in Harts |-> "idle"]
  /\ addr = [h \in Harts |-> None]
  /\ loaded = [h \in Harts |-> Unwatched] /\ held = [h \in Harts |-> Unwatched]

(* The steps of an instruction under way that does not fault.              *)
Step(h) ==
  \/ LrLoad(h) \/ \E a \in Addrs : LrReserve(h, a)
  \/ ScFail(h) \/ ScCheck(h) \/ ScStore(h)
  \/ AmoLoad(h) \/ AmoStore(h)

Next ==
  \E h \in Harts :
    \/ \E a \in Addrs :
         \/ Begin(h, "lrLoad", a) \/ Begin(h, "scCheck", a) \/ Begin(h, "amoLoad", a)
         \/ Store(h, a)
    \/ Step(h)
    \/ Fault(h)

Spec == Init /\ [][Next]_vars

(* A hart thread inside an instruction is scheduled.                       *)
FairSpec == Spec /\ \A h \in Harts : WF_vars(Step(h))

-----------------------------------------------------------------------------
(* Properties.                                                             *)

(* The types of the variables.                                             *)
TypeOK ==
  /\ reservations \in [Harts -> Addrs \cup {None}]
  /\ mtx \in Harts \cup {None}
  /\ pc \in [Harts -> Pcs] /\ addr \in [Harts -> Addrs \cup {None}]
  /\ loaded \in [Harts -> Watch] /\ held \in [Harts -> Watch]

(* No two harts hold a reservation on the same address: a later LR evicts  *)
(* the earlier one (cpu.cpp, the loop over reservations).                  *)
ReservationExclusive ==
  \A g, h \in Harts :
    reservations[g] = reservations[h] /\ reservations[h] # None => g = h

(* A successful SC stores to the word its hart's last LR loaded, and no SC *)
(* of another hart to that word came between: LR/SC loops never lose each  *)
(* other's updates, whatever AMOs, stores and faults are mixed in.         *)
ScOnFreshLr ==
  \A h \in Harts : pc[h] = "scStore" =>
    held[h].word = addr[h] /\ "sc" \notin held[h].by

(* An AMO stores to the word it loaded, and no AMO or SC of another hart   *)
(* came between the two accesses.                                          *)
AmoAtomicAmongAtomics ==
  \A h \in Harts : pc[h] = "amoStore" =>
    loaded[h].word = addr[h] /\ loaded[h].by \subseteq {"store"}

(* Guest code whose LRs keep address and result in different registers     *)
(* cannot tell the steps under atomic_op_mtx from single ones: LR, SC and  *)
(* AMO implement AtomicMem, plain stores being invisible to it.            *)
Atomics == INSTANCE AtomicMem
  WITH link <- reservations,
       seen <- [h \in Harts |-> [word |-> held[h].word, by |-> held[h].by \ {"store"}]]
Linearizable == Atomics!Spec

(* The mutex is always given back, so no hart can block the others' atomic *)
(* instructions for good.                                                  *)
MutexReleased == \A h \in Harts : mtx = h ~> mtx # h

==============================================================================
