----------------------------- MODULE LrScProofs ------------------------------
(***************************************************************************)
(* The invariants of LrSc, for every set of harts and addresses.           *)
(***************************************************************************)
EXTENDS LrSc, TLAPS

(* A hart is inside an AMO-class instruction exactly while it holds the    *)
(* mutex, and then it has an address operand.                              *)
MutexInv ==
  \A h \in Harts :
    /\ pc[h] # "idle" <=> mtx = h
    /\ pc[h] # "idle" => addr[h] \in Addrs

(* What the steps that come after a load rely on.                          *)
LoadedInv ==
  \A h \in Harts : pc[h] \in {"lrReserve", "amoStore"} =>
    loaded[h].word = addr[h] /\ loaded[h].by \subseteq {"store"}

(* A reservation vouches for the word its hart's last LR loaded, as long   *)
(* as no LR has overwritten its own address register.                      *)
HeldInv ==
  \A h \in Harts : ~LrSameReg /\ reservations[h] # None =>
    held[h].word = reservations[h] /\ "sc" \notin held[h].by

(* An SC that has passed its check still has its reservation.              *)
CheckedInv == \A h \in Harts : pc[h] = "scStore" => reservations[h] = addr[h]

IInv ==
  TypeOK /\ MutexInv /\ ReservationExclusive /\ LoadedInv /\ HeldInv /\ CheckedInv

(* Noting a write keeps watches well-formed, does not change which word is *)
(* watched, and adds nothing to the watches of other words.                *)
LEMMA NotedFacts ==
  ASSUME NEW watch \in [Harts -> Watch], NEW g \in Harts, NEW a, NEW kind \in Writers
  PROVE  /\ Noted(watch, g, a, kind) \in [Harts -> Watch]
         /\ \A h \in Harts :
              /\ Noted(watch, g, a, kind)[h].word = watch[h].word
              /\ Noted(watch, g, a, kind)[h].by \subseteq watch[h].by \cup {kind}
              /\ h = g \/ watch[h].word # a =>
                   Noted(watch, g, a, kind)[h] = watch[h]
<1>1. ASSUME NEW h \in Harts
      PROVE  /\ Noted(watch, g, a, kind)[h] \in Watch
             /\ Noted(watch, g, a, kind)[h].word = watch[h].word
             /\ Noted(watch, g, a, kind)[h].by \subseteq watch[h].by \cup {kind}
             /\ h = g \/ watch[h].word # a =>
                  Noted(watch, g, a, kind)[h] = watch[h]
  BY <1>1 DEF Noted, Watch
<1> QED
  BY <1>1 DEF Noted

(* A forgotten watch is well-formed and leaves the other harts' alone.     *)
LEMMA ForgetFacts ==
  ASSUME NEW watch \in [Harts -> Watch], NEW g \in Harts
  PROVE  /\ Forget(watch, g) \in [Harts -> Watch]
         /\ \A h \in Harts : h # g => Forget(watch, g)[h] = watch[h]
BY DEF Forget, Unwatched, Watch

(* The invariant holds when no hart has executed an instruction.           *)
LEMMA InitIInv == Init => IInv
BY NoneAssumption
   DEF Init, IInv, TypeOK, MutexInv, ReservationExclusive, LoadedInv, HeldInv,
       CheckedInv, Pcs, Unwatched, Watch

(* Every step of every hart preserves the invariant.                       *)
LEMMA NextIInv == IInv /\ [Next]_vars => IInv'
<1> SUFFICES ASSUME IInv, [Next]_vars PROVE IInv'
  OBVIOUS
<1> USE NoneAssumption DEF IInv
<1>1. ASSUME NEW h \in Harts, NEW a \in Addrs,
             NEW step \in {"lrLoad", "scCheck", "amoLoad"}, Begin(h, step, a)
      PROVE  IInv'
  BY <1>1 DEF Begin, TypeOK, Pcs, MutexInv, ReservationExclusive, LoadedInv,
              HeldInv, CheckedInv
<1>2. ASSUME NEW h \in Harts, NEW a \in Addrs, Store(h, a)
      PROVE  IInv'
  <2> DEFINE L == Noted(loaded, h, a, "store")
             H == Noted(held, h, a, "store")
  <2>1. loaded' = L /\ held' = H /\ UNCHANGED <<reservations, mtx, pc, addr>>
    BY <1>2 DEF Store
  <2>2. "store" \in Writers /\ loaded \in [Harts -> Watch] /\ held \in [Harts -> Watch]
    BY DEF TypeOK, Writers
  <2>3. L \in [Harts -> Watch] /\
        \A g \in Harts : L[g].word = loaded[g].word /\
                         L[g].by \subseteq loaded[g].by \cup {"store"}
    BY <2>2, NotedFacts
  <2>4. H \in [Harts -> Watch] /\
        \A g \in Harts : H[g].word = held[g].word /\
                         H[g].by \subseteq held[g].by \cup {"store"}
    BY <2>2, NotedFacts
  <2> HIDE DEF L, H
  <2>5. TypeOK'
    BY <2>1, <2>3, <2>4 DEF TypeOK
  <2>6. MutexInv' /\ ReservationExclusive' /\ CheckedInv'
    BY <2>1 DEF MutexInv, ReservationExclusive, CheckedInv
  <2>7. LoadedInv'
    BY <2>1, <2>3 DEF LoadedInv
  <2>8. HeldInv'
    BY <2>1, <2>4 DEF HeldInv
  <2> QED BY <2>5, <2>6, <2>7, <2>8
<1>3. ASSUME NEW h \in Harts, LrLoad(h)
      PROVE  IInv'
  <2>1. TypeOK'
    BY <1>3 DEF LrLoad, Load, Goto, TypeOK, Watch, Pcs
  <2>2. LoadedInv'
    BY <1>3 DEF LrLoad, Load, Goto, TypeOK, LoadedInv
  <2> QED
    BY <1>3, <2>1, <2>2 DEF LrLoad, Goto, TypeOK, MutexInv, ReservationExclusive,
                            HeldInv, CheckedInv
<1>4. ASSUME NEW h \in Harts, NEW a \in Addrs, LrReserve(h, a)
      PROVE  IInv'
  <2>1. loaded' \in [Harts -> Watch] /\ \A g \in Harts : g # h => loaded'[g] = loaded[g]
    BY <1>4, ForgetFacts DEF LrReserve, Reservable, TypeOK
  <2>2. TypeOK'
    BY <1>4, <2>1 DEF LrReserve, Reservable, Finish, TypeOK, Pcs
  <2>3. MutexInv' /\ ReservationExclusive' /\ CheckedInv'
    BY <1>4 DEF LrReserve, Reservable, Finish, TypeOK, MutexInv, ReservationExclusive, CheckedInv
  <2>4. LoadedInv'
    BY <1>4, <2>1 DEF LrReserve, Reservable, Finish, TypeOK, LoadedInv
  <2>5. HeldInv'
    BY <1>4 DEF LrReserve, Reservable, TypeOK, LoadedInv, HeldInv
  <2> QED BY <2>2, <2>3, <2>4, <2>5
<1>5. ASSUME NEW h \in Harts, ScFail(h)
      PROVE  IInv'
  BY <1>5 DEF ScFail, Finish, TypeOK, Pcs, MutexInv, ReservationExclusive, LoadedInv,
              HeldInv, CheckedInv
<1>6. ASSUME NEW h \in Harts, ScCheck(h)
      PROVE  IInv'
  BY <1>6 DEF ScCheck, Goto, TypeOK, Pcs, MutexInv, ReservationExclusive, LoadedInv,
              HeldInv, CheckedInv
<1>7. ASSUME NEW h \in Harts, ScStore(h)
      PROVE  IInv'
  <2> DEFINE L == Noted(loaded, h, addr[h], "sc")
             H == Noted(held, h, addr[h], "sc")
  <2>1. /\ pc[h] = "scStore" /\ loaded' = L /\ held' = H /\ Finish(h)
        /\ reservations' = [reservations EXCEPT ![h] = None]
    BY <1>7 DEF ScStore
  <2>2. "sc" \in Writers /\ loaded \in [Harts -> Watch] /\ held \in [Harts -> Watch]
    BY DEF TypeOK, Writers
  <2>3. L \in [Harts -> Watch]
    BY <2>2, NotedFacts
  <2>4. H \in [Harts -> Watch] /\
        \A g \in Harts : H[g].word = held[g].word /\
                         (held[g].word # addr[h] => H[g] = held[g])
    BY <2>2, NotedFacts
  <2> HIDE DEF L, H
  <2>5. TypeOK'
    BY <2>1, <2>3, <2>4 DEF TypeOK, Finish, Pcs
  <2>6. MutexInv' /\ ReservationExclusive' /\ CheckedInv'
    BY <2>1 DEF Finish, TypeOK, MutexInv, ReservationExclusive, CheckedInv
  <2>7. LoadedInv'
    BY <2>1 DEF Finish, TypeOK, MutexInv, LoadedInv
  <2>8. reservations[h] = addr[h] /\ addr[h] \in Addrs
    BY <2>1 DEF CheckedInv, MutexInv
  <2>9. ASSUME NEW g \in Harts, ~LrSameReg, reservations'[g] # None
        PROVE  held'[g].word = reservations'[g] /\ "sc" \notin held'[g].by
    <3>1. g # h /\ reservations'[g] = reservations[g]
      BY <2>1, <2>9 DEF TypeOK
    <3>2. reservations[g] # addr[h]
      BY <2>8, <3>1 DEF ReservationExclusive
    <3> QED BY <2>1, <2>4, <2>9, <3>1, <3>2 DEF HeldInv
  <2> QED BY <2>5, <2>6, <2>7, <2>9 DEF HeldInv
<1>8. ASSUME NEW h \in Harts, AmoLoad(h)
      PROVE  IInv'
  <2>1. TypeOK'
    BY <1>8 DEF AmoLoad, Load, Goto, TypeOK, Watch, Pcs
  <2>2. LoadedInv'
    BY <1>8 DEF AmoLoad, Load, Goto, TypeOK, LoadedInv
  <2> QED
    BY <1>8, <2>1, <2>2 DEF AmoLoad, Goto, TypeOK, MutexInv, ReservationExclusive,
                            HeldInv, CheckedInv
<1>9. ASSUME NEW h \in Harts, AmoStore(h)
      PROVE  IInv'
  <2> DEFINE L == Noted(loaded, h, addr[h], "amo")
             H == Noted(held, h, addr[h], "amo")
  <2>1. /\ pc[h] = "amoStore" /\ loaded' = Forget(L, h) /\ held' = H /\ Finish(h)
        /\ UNCHANGED reservations
    BY <1>9 DEF AmoStore
  <2>2. "amo" \in Writers /\ loaded \in [Harts -> Watch] /\ held \in [Harts -> Watch]
    BY DEF TypeOK, Writers
  <2>3. L \in [Harts -> Watch]
    BY <2>2, NotedFacts
  <2>4. H \in [Harts -> Watch] /\
        \A g \in Harts : H[g].word = held[g].word /\
                         H[g].by \subseteq held[g].by \cup {"amo"}
    BY <2>2, NotedFacts
  <2> HIDE DEF L, H
  <2>5. loaded' \in [Harts -> Watch]
    BY <2>1, <2>3, ForgetFacts
  <2>6. TypeOK'
    BY <2>1, <2>4, <2>5 DEF TypeOK, Finish, Pcs
  <2>7. MutexInv' /\ ReservationExclusive' /\ CheckedInv'
    BY <2>1 DEF Finish, TypeOK, MutexInv, ReservationExclusive, CheckedInv
  <2>8. LoadedInv'
    BY <2>1 DEF Finish, TypeOK, MutexInv, LoadedInv
  <2>9. HeldInv'
    BY <2>1, <2>4 DEF HeldInv
  <2> QED BY <2>6, <2>7, <2>8, <2>9
<1>10. ASSUME NEW h \in Harts, Fault(h)
       PROVE  IInv'
  <2>1. loaded' \in [Harts -> Watch] /\ \A g \in Harts : g # h => loaded'[g] = loaded[g]
    BY <1>10, ForgetFacts DEF Fault, TypeOK
  <2>2. TypeOK'
    BY <1>10, <2>1 DEF Fault, Finish, TypeOK, Pcs
  <2>3. MutexInv' /\ CheckedInv'
    BY <1>10 DEF Fault, Finish, TypeOK, MutexInv, CheckedInv
  <2>4. LoadedInv'
    BY <1>10, <2>1 DEF Fault, Finish, TypeOK, LoadedInv
  <2>5. ReservationExclusive' /\ HeldInv'
    BY <1>10 DEF Fault, ReservationExclusive, HeldInv
  <2> QED BY <2>2, <2>3, <2>4, <2>5
<1>11. CASE UNCHANGED vars
  BY <1>11 DEF vars, TypeOK, MutexInv, ReservationExclusive, LoadedInv, HeldInv, CheckedInv
<1> QED
  BY <1>1, <1>2, <1>3, <1>4, <1>5, <1>6, <1>7, <1>8, <1>9, <1>10, <1>11 DEF Next, Step

(* The inductive invariant holds in every reachable state: reservations,   *)
(* the mutex and what the harts have loaded always fit together.           *)
THEOREM IInvAlways == Spec => []IInv
BY InitIInv, NextIInv, PTL DEF Spec

(* Every reachable state of any number of harts is well-typed.             *)
THEOREM TypeCorrect == Spec => []TypeOK
BY IInvAlways, PTL DEF IInv

(* However many harts there are, no address is reserved twice.             *)
THEOREM ReservationsExclusive == Spec => []ReservationExclusive
BY IInvAlways, PTL DEF IInv

(* An SC that stores has its hart's LR of the same word behind it and no   *)
(* SC of another hart to that word in between, in programs whose LRs keep  *)
(* address and result in different registers.                              *)
THEOREM ScOnlyOnFreshLr ==
  ASSUME LrSameReg = FALSE
  PROVE  Spec => []ScOnFreshLr
<1>1. IInv => ScOnFreshLr
  BY NoneAssumption, LrSameReg = FALSE DEF IInv, ScOnFreshLr, CheckedInv, HeldInv, MutexInv
<1> QED BY <1>1, IInvAlways, PTL

(* Between an AMO's load and its store no other AMO and no SC can write.   *)
THEOREM AmosAtomicAmongAtomics == Spec => []AmoAtomicAmongAtomics
<1>1. IInv => AmoAtomicAmongAtomics
  BY DEF IInv, AmoAtomicAmongAtomics, LoadedInv
<1> QED BY <1>1, IInvAlways, PTL

-----------------------------------------------------------------------------
(* LrSc implements AtomicMem.                                              *)

(* The abstract seen of LrSc's state.                                      *)
Seen == [h \in Harts |-> [word |-> held[h].word, by |-> held[h].by \ {"store"}]]

(* Noting a write is, without the plain stores, what Written says.         *)
LEMMA NotedIsWritten ==
  ASSUME TypeOK, NEW g \in Harts, NEW a \in Addrs, NEW kind \in {"sc", "amo"},
         held' = Noted(held, g, a, kind)
  PROVE  Atomics!Written(g, a, kind)
<1>1. ASSUME NEW h \in Harts
      PROVE  Seen'[h] = IF h # g /\ Seen[h].word = a
                        THEN [word |-> a, by |-> Seen[h].by \cup {kind}]
                        ELSE Seen[h]
  <2>1. held[h] \in Watch
    BY DEF TypeOK
  <2>2. held'[h] = IF h # g /\ held[h].word = a
                   THEN [held[h] EXCEPT !.by = @ \cup {kind}] ELSE held[h]
    BY DEF Noted
  <2>3. CASE h # g /\ held[h].word = a
    <3>1. held'[h].word = a /\ held'[h].by = held[h].by \cup {kind}
      BY <2>1, <2>2, <2>3 DEF Watch
    <3>2. (held[h].by \cup {kind}) \ {"store"} = (held[h].by \ {"store"}) \cup {kind}
      OBVIOUS
    <3> QED BY <2>3, <3>1, <3>2 DEF Seen
  <2>4. CASE ~(h # g /\ held[h].word = a)
    BY <2>2, <2>4 DEF Seen
  <2> QED BY <2>3, <2>4
<1> QED BY <1>1 DEF Atomics!Written, Seen

(* Every step of a hart is a step of AtomicMem or none.                    *)
LEMMA StepsAreAtomic ==
  ASSUME LrSameReg = FALSE
  PROVE  IInv /\ [Next]_vars => [Atomics!Next]_<<reservations, Seen>>
<1> SUFFICES ASSUME IInv, [Next]_vars
             PROVE  Atomics!Next \/ UNCHANGED <<reservations, Seen>>
  OBVIOUS
<1> USE DEF IInv
<1>1. ASSUME UNCHANGED <<reservations, held>>
      PROVE  UNCHANGED <<reservations, Seen>>
  BY <1>1 DEF Seen
<1>2. ASSUME NEW h \in Harts, NEW a \in Addrs, Store(h, a)
      PROVE  UNCHANGED <<reservations, Seen>>
  <2>1. ASSUME NEW g \in Harts PROVE Seen'[g] = Seen[g]
    <3>1. held[g] \in Watch
      BY DEF TypeOK
    <3>2. held'[g].word = held[g].word /\ held'[g].by \ {"store"} = held[g].by \ {"store"}
      BY <1>2, <3>1 DEF Store, Noted, Watch
    <3> QED BY <3>2 DEF Seen
  <2> QED BY <1>2, <2>1 DEF Store, Seen
<1>3. ASSUME NEW h \in Harts, NEW a \in Addrs, LrReserve(h, a)
      PROVE  Atomics!Lr(h, a)
  <2>1. loaded[h].word = a /\ loaded[h].by \ {"store"} = {}
    BY <1>3, LrSameReg = FALSE DEF LrReserve, Reservable, LoadedInv
  <2>2. \A g \in Harts : held'[g] = IF g = h THEN loaded[h] ELSE held[g]
    BY <1>3 DEF LrReserve, TypeOK
  <2>3. Seen' = [Seen EXCEPT ![h] = [word |-> a, by |-> {}]]
    BY <2>1, <2>2 DEF Seen
  <2> QED BY <1>3, <2>3 DEF LrReserve, Atomics!Lr, Seen
<1>4. ASSUME NEW h \in Harts, ScFail(h)
      PROVE  Atomics!ScFails(h)
  BY <1>4 DEF ScFail, Atomics!ScFails
<1>5. ASSUME NEW h \in Harts, ScStore(h)
      PROVE  Atomics!Sc(h, addr[h]) /\ addr[h] \in Addrs
  <2>1. addr[h] \in Addrs /\ reservations[h] = addr[h]
    BY <1>5 DEF ScStore, MutexInv, CheckedInv
  <2>2. held[h].word = addr[h] /\ "sc" \notin held[h].by
    BY <2>1, NoneAssumption, LrSameReg = FALSE DEF HeldInv
  <2>3. Atomics!Written(h, addr[h], "sc")
    BY <1>5, <2>1, NotedIsWritten DEF ScStore
  <2> QED BY <1>5, <2>1, <2>2, <2>3 DEF ScStore, Atomics!Sc, Seen
<1>6. ASSUME NEW h \in Harts, AmoStore(h)
      PROVE  Atomics!Amo(h, addr[h]) /\ addr[h] \in Addrs
  <2>1. addr[h] \in Addrs
    BY <1>6 DEF AmoStore, MutexInv
  <2>2. Atomics!Written(h, addr[h], "amo")
    BY <1>6, <2>1, NotedIsWritten DEF AmoStore
  <2> QED BY <1>6, <2>1, <2>2 DEF AmoStore, Atomics!Amo
<1>7. ASSUME NEW h \in Harts,
             \/ LrLoad(h) \/ ScCheck(h) \/ AmoLoad(h) \/ Fault(h)
             \/ \E a \in Addrs, step \in {"lrLoad", "scCheck", "amoLoad"} : Begin(h, step, a)
      PROVE  UNCHANGED <<reservations, held>>
  BY <1>7 DEF LrLoad, ScCheck, AmoLoad, Fault, Begin
<1> QED
  BY <1>1, <1>2, <1>3, <1>4, <1>5, <1>6, <1>7 DEF Next, Step, vars, Atomics!Next

(* For every set of harts and addresses, LR, SC and AMO under the mutex    *)
(* behave as single steps, in programs whose LRs keep address and result   *)
(* in different registers.                                                 *)
THEOREM ImplementsAtomicMem ==
  ASSUME LrSameReg = FALSE
  PROVE  Spec => Linearizable
<1>1. Init => Atomics!Init
  BY DEF Init, Atomics!Init, Unwatched
<1>2. IInv /\ [Next]_vars => [Atomics!Next]_<<reservations, Seen>>
  BY StepsAreAtomic, LrSameReg = FALSE
<1> QED
  BY <1>1, <1>2, IInvAlways, PTL DEF Spec, Linearizable, Atomics!Spec, Seen
==============================================================================
