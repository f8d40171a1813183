----------------------------- MODULE TrapProofs ------------------------------
(***************************************************************************)
(* Type correctness, NoneMissed and the action properties of Trap, for     *)
(* every choice of interrupts, exceptions and operands.                    *)
(***************************************************************************)
EXTENDS Trap, TLAPS

IInv == TypeOK /\ NoneMissed

(* In M-mode with MIE clear nothing is deliverable.                        *)
LEMMA NothingInHandlerM ==
  (privmode = 3 /\ "MIE" \notin mstatus) => Deliverable = {}
BY DEF Deliverable, Disabled

(* Trap entry to M-mode clears MIE.                                        *)
LEMMA EnterMMasks == EnterM => privmode' = 3 /\ "MIE" \notin mstatus'
BY DEF EnterM, Stack, MppBits

(* Trap entry to S-mode clears SIE.                                        *)
LEMMA EnterSMasks == EnterS => privmode' = 1 /\ "SIE" \notin mstatus'
BY DEF EnterS, Stack

(* Whatever can interrupt S-mode with SIE clear is a machine interrupt     *)
(* that is not delegated.                                                  *)
LEMMA MaskedSMode ==
  ASSUME TypeOK, privmode = 1, "SIE" \notin mstatus, NEW i \in Deliverable
  PROVE  i \in mip /\ i \in MInts /\ i \notin mideleg /\ i \in mie
BY DEF TypeOK, Deliverable, Disabled, Delegated

(* Trap entry from U- or S-mode to S-mode makes nothing deliverable that   *)
(* was not, and what stays deliverable is a machine interrupt.             *)
LEMMA EnterSKeeps ==
  ASSUME TypeOK, TypeOK', privmode <= 1, EnterS, UNCHANGED csrs
  PROVE  \A i \in Deliverable' : i \in Deliverable /\ i \in MInts
<1> SUFFICES ASSUME NEW i \in Deliverable' PROVE i \in Deliverable /\ i \in MInts
  OBVIOUS
<1>1. privmode' = 1 /\ "SIE" \notin mstatus'
  BY EnterSMasks
<1>2. i \in mip' /\ i \in MInts /\ i \notin mideleg' /\ i \in mie'
  BY <1>1 DEF TypeOK, Deliverable, Disabled, Delegated
<1>3. i \in mip /\ i \in MInts /\ i \notin mideleg /\ i \in mie
  BY <1>2 DEF csrs
<1>4. privmode # 3
  BY DEF TypeOK, Modes
<1> QED BY <1>3, <1>4 DEF Deliverable, Disabled, Delegated

(* Both trap entries keep privmode and mstatus well-typed.                 *)
LEMMA EntryTypes ==
  ASSUME TypeOK, EnterS \/ EnterM
  PROVE  privmode' \in Modes /\ mstatus' \subseteq StatusBits
<1>1. CASE EnterS
  BY <1>1 DEF TypeOK, EnterS, Stack, Modes, StatusBits
<1>2. CASE EnterM
  BY <1>2 DEF TypeOK, EnterM, Stack, MppBits, Modes, StatusBits
<1> QED BY <1>1, <1>2

(* A trapping instruction preserves the invariant.                         *)
LEMMA RaiseIInv == ASSUME IInv, NEW cause, Raise(cause) PROVE IInv'
<1>1. (EnterM \/ EnterS) /\ UNCHANGED csrs /\ UNCHANGED <<chk_int, unseen>> /\ phase' = "poll"
  BY DEF Raise, Except, Retire
<1>2. TypeOK'
  <2>1. privmode' \in Modes /\ mstatus' \subseteq StatusBits
    BY <1>1, EntryTypes DEF IInv
  <2> QED BY <1>1, <2>1 DEF IInv, TypeOK, csrs
<1>3. CASE EnterM
  <2>1. Deliverable' = {}
    BY <1>3, EnterMMasks, NothingInHandlerM DEF Deliverable, Disabled
  <2> QED BY <1>2, <2>1 DEF IInv, NoneMissed
<1>4. CASE ~EnterM
  <2>1. EnterS /\ privmode <= 1
    BY <1>4 DEF Raise, Except, Delegated
  <2>2. \A i \in Deliverable' : i \in Deliverable
    BY <1>1, <1>2, <2>1, EnterSKeeps DEF IInv
  <2>3. phase = "exec"
    BY DEF Raise, Retire
  <2> QED BY <1>1, <1>2, <2>2, <2>3 DEF IInv, NoneMissed
<1> QED BY <1>3, <1>4

(* The first attempts of setup_pending_int, when it makes any.             *)
LEMMA FirstAttempts ==
  ASSUME "MIE" \in mstatus \/ privmode < 3
  PROVE  /\ Len(Attempts) \in Nat /\ Len(Attempts) >= 6
         /\ Attempts[1] = 11 /\ Attempts[2] = 3 /\ Attempts[3] = 7
         /\ Attempts[4] = 9 /\ Attempts[5] = 1 /\ Attempts[6] = 5
<1>1. CASE "SIE" \in mstatus
  BY <1>1 DEF Attempts
<1>2. CASE "SIE" \notin mstatus
  BY <1>2 DEF Attempts
<1> QED BY <1>1, <1>2

(* Every deliverable interrupt is among the attempts, the machine's ones   *)
(* first.                                                                  *)
LEMMA DeliverableAttempted ==
  ASSUME TypeOK, NEW i \in Deliverable
  PROVE  \E k \in Hits : Attempts[k] = i /\ (i \in MInts => k <= 3)
<1>1. "MIE" \in mstatus \/ privmode < 3
  BY DEF TypeOK, Modes, Deliverable, Disabled
<1>2. i \in {1, 3, 5, 7, 9, 11} /\ i \in mip /\ ~Disabled(i)
  BY IntAssumption DEF TypeOK, Deliverable, MInts, SInts
<1>3. ASSUME NEW k \in 1 .. 6, Attempts[k] = i PROVE k \in Hits
  BY <1>1, <1>2, <1>3, FirstAttempts DEF Hits
<1>4. CASE i \in MInts
  <2>1. \E k \in 1 .. 3 : Attempts[k] = i
    BY <1>1, <1>4, FirstAttempts DEF MInts
  <2> QED BY <1>3, <2>1
<1>5. CASE i \notin MInts
  <2>1. \E k \in 1 .. 6 : Attempts[k] = i
    BY <1>1, <1>2, <1>5, FirstAttempts DEF MInts
  <2> QED BY <1>3, <1>5, <2>1
<1> QED BY <1>4, <1>5

(* One run of setup_pending_int leaves nothing to take.                    *)
LEMMA SetupExhausts ==
  ASSUME TypeOK, TypeOK', Setup
  PROVE  Deliverable' = {}
<1>0. UNCHANGED csrs
  BY DEF Setup
<1>1. CASE Hits = {}
  <2>1. Deliverable = {}
    BY <1>1, DeliverableAttempted
  <2>2. UNCHANGED <<privmode, mstatus>>
    BY <1>1 DEF Setup
  <2> QED BY <1>0, <2>1, <2>2 DEF Deliverable, Disabled, Delegated, csrs
<1>2. CASE Hits # {}
  <2>1. PICK k \in Hits : (\A j \in Hits : k <= j) /\ Interrupt(Attempts[k])
    BY <1>2 DEF Setup
  <2>2. CASE EnterM
    BY <2>2, EnterMMasks DEF Deliverable, Disabled
  <2>3. CASE ~EnterM
    <3>1. EnterS /\ privmode <= 1 /\ Attempts[k] \in mideleg
      BY <2>1, <2>3 DEF Interrupt, Delegated
    <3>2. Attempts[k] \notin MInts
      BY <3>1, <2>1 DEF Hits, Disabled, Delegated, TypeOK
    <3>3. k \in Nat /\ ~(k <= 3)
      <4>1. "MIE" \in mstatus \/ privmode < 3
        BY <3>1 DEF TypeOK, Modes
      <4>2. Attempts[1] \in MInts /\ Attempts[2] \in MInts /\ Attempts[3] \in MInts
        BY <4>1, FirstAttempts DEF MInts
      <4>3. k \in Nat /\ k >= 1
        BY <4>1, FirstAttempts, <2>1 DEF Hits
      <4> QED BY <3>2, <4>2, <4>3
    <3>4. ASSUME NEW i \in Deliverable' PROVE FALSE
      <4>1. i \in Deliverable /\ i \in MInts
        BY <1>0, <3>1, EnterSKeeps
      <4>2. PICK j \in Hits : Attempts[j] = i /\ j <= 3
        BY <4>1, DeliverableAttempted
      <4>3. j \in Nat
        BY <4>2 DEF Hits
      <4> QED BY <2>1, <3>3, <4>2, <4>3
    <3> QED BY <3>4
  <2> QED BY <2>2, <2>3
<1> QED BY <1>1, <1>2

(* setup_pending_int keeps the state well-typed.                           *)
LEMMA SetupTypes == ASSUME TypeOK, Setup PROVE TypeOK'
<1>1. CASE UNCHANGED <<privmode, mstatus>>
  BY <1>1 DEF Setup, TypeOK, csrs
<1>2. CASE EnterS \/ EnterM
  <2>1. privmode' \in Modes /\ mstatus' \subseteq StatusBits
    BY <1>2, EntryTypes
  <2> QED BY <2>1 DEF Setup, TypeOK, csrs
<1> QED BY <1>1, <1>2 DEF Setup, Interrupt

(* A CSR instruction that does not set chk_int has a zero operand and      *)
(* changes no register.                                                    *)
LEMMA CsrStepFacts ==
  ASSUME IInv, NEW csr, NEW op \in CsrOps, NEW w, CsrStep(csr, op, w)
  PROVE  /\ chk_int' \in BOOLEAN /\ phase' = "poll" /\ phase = "exec"
         /\ UNCHANGED privmode
         /\ ~chk_int' => ~chk_int /\ op # "write" /\ w = {}
BY DEF IInv, TypeOK, CsrStep, Retire, Writes

(* What Apply returns: a set of the same bits, and the old value for a     *)
(* zero operand.                                                           *)
LEMMA ApplyFacts ==
  ASSUME NEW op \in CsrOps, NEW S, NEW old \in SUBSET S, NEW w \in SUBSET S
  PROVE  /\ Apply(op, old, w) \in SUBSET S
         /\ op # "write" /\ w = {} => Apply(op, old, w) = old
<1>1. op \in {"write", "set", "clear"}
  BY TrapWriteAssumption
<1> QED BY <1>1 DEF Apply

(* CSR instructions preserve the invariant: the ones that could make an    *)
(* interrupt deliverable set chk_int, or are the refresh of sie.           *)
LEMMA CsrIInv == ASSUME IInv, Csr PROVE IInv'
<1> USE DEF IInv
<1>1. ASSUME NEW op \in CsrOps, NEW w \in StatusWrites, NEW csr, StatusRw(csr, op, w)
      PROVE  IInv'
  <2>1. /\ chk_int' \in BOOLEAN /\ phase' = "poll" /\ phase = "exec" /\ UNCHANGED privmode
        /\ ~chk_int' => ~chk_int /\ op # "write" /\ w = {}
    BY <1>1, CsrStepFacts DEF StatusRw
  <2>2. mstatus' = Apply(op, mstatus, w) /\ UNCHANGED <<csrs, unseen>>
    BY <1>1 DEF StatusRw
  <2>3. mstatus' \in SUBSET StatusBits /\ (op # "write" /\ w = {} => mstatus' = mstatus)
    BY <2>2, ApplyFacts, TrapWriteAssumption DEF TypeOK
  <2>4. TypeOK'
    BY <2>1, <2>2, <2>3 DEF TypeOK, csrs
  <2>5. ~chk_int' => Deliverable' = Deliverable
    BY <2>1, <2>2, <2>3 DEF Deliverable, Disabled, Delegated, csrs
  <2> QED BY <2>1, <2>2, <2>4, <2>5 DEF NoneMissed
<1>2. ASSUME NEW op \in CsrOps, NEW w \in IntWrites, MieRw(op, w) PROVE IInv'
  <2>1. /\ chk_int' \in BOOLEAN /\ phase' = "poll" /\ phase = "exec" /\ UNCHANGED privmode
        /\ ~chk_int' => ~chk_int /\ op # "write" /\ w = {}
    BY <1>2, CsrStepFacts DEF MieRw
  <2>2. /\ mie' = Apply(op, mie, w)
        /\ UNCHANGED <<mstatus, mip, sie, mideleg, medeleg, unseen>>
    BY <1>2 DEF MieRw
  <2>3. mie' \in SUBSET Ints /\ (op # "write" /\ w = {} => mie' = mie)
    BY <2>2, ApplyFacts, TrapWriteAssumption DEF TypeOK
  <2>4. TypeOK'
    BY <2>1, <2>2, <2>3 DEF TypeOK
  <2>5. ~chk_int' => Deliverable' = Deliverable
    BY <2>1, <2>2, <2>3 DEF Deliverable, Disabled, Delegated
  <2> QED BY <2>1, <2>2, <2>4, <2>5 DEF NoneMissed
<1>3. ASSUME NEW op \in CsrOps, NEW w \in IntWrites, SieRw(op, w) PROVE IInv'
  <2>1. /\ chk_int' \in BOOLEAN /\ phase' = "poll" /\ phase = "exec" /\ UNCHANGED privmode
        /\ ~chk_int' => ~chk_int /\ op # "write" /\ w = {}
    BY <1>3, CsrStepFacts DEF SieRw
  <2>2. /\ mie' = Apply(op, mie, w) /\ sie' = mie' \ MInts
        /\ unseen' = IF ~chk_int' /\ sie' # sie THEN unseen \cup {"sie"} ELSE unseen
        /\ UNCHANGED <<mstatus, mip, mideleg, medeleg>>
    BY <1>3 DEF SieRw
  <2>3. mie' \in SUBSET Ints /\ (op # "write" /\ w = {} => mie' = mie)
    BY <2>2, ApplyFacts, TrapWriteAssumption DEF TypeOK
  <2>4. TypeOK'
    BY <2>1, <2>2, <2>3 DEF TypeOK
  <2>5. ~chk_int' /\ sie' = sie => Deliverable' = Deliverable
    BY <2>1, <2>2, <2>3 DEF Deliverable, Disabled, Delegated
  <2> QED BY <2>1, <2>2, <2>4, <2>5 DEF NoneMissed
<1>4. ASSUME NEW op \in CsrOps, NEW w \in IntWrites, MipRw(op, w) PROVE IInv'
  <2>1. /\ chk_int' \in BOOLEAN /\ phase' = "poll" /\ phase = "exec" /\ UNCHANGED privmode
        /\ ~chk_int' => ~chk_int /\ op # "write" /\ w = {}
    BY <1>4, CsrStepFacts DEF MipRw
  <2>2. /\ mip' = Apply(op, mip, w)
        /\ UNCHANGED <<mstatus, mie, sie, mideleg, medeleg, unseen>>
    BY <1>4 DEF MipRw
  <2>3. mip' \in SUBSET Ints /\ (op # "write" /\ w = {} => mip' = mip)
    BY <2>2, ApplyFacts, TrapWriteAssumption DEF TypeOK
  <2>4. TypeOK'
    BY <2>1, <2>2, <2>3 DEF TypeOK
  <2>5. ~chk_int' => Deliverable' = Deliverable
    BY <2>1, <2>2, <2>3 DEF Deliverable, Disabled, Delegated
  <2> QED BY <2>1, <2>2, <2>4, <2>5 DEF NoneMissed
<1>5. ASSUME NEW op \in CsrOps, NEW w \in IntWrites, SipRw(op, w) PROVE IInv'
  <2>1. /\ chk_int' \in BOOLEAN /\ phase' = "poll" /\ phase = "exec" /\ UNCHANGED privmode
        /\ ~chk_int' => ~chk_int /\ op # "write" /\ w = {}
    BY <1>5, CsrStepFacts DEF SipRw
  <2>2. UNCHANGED <<mstatus, mie, sie, mideleg, medeleg, unseen>>
    BY <1>5 DEF SipRw
  <2>3. mip' \in SUBSET Ints /\ (op # "write" /\ w = {} => mip' = mip)
    <3>1. op \in {"write", "set", "clear"} /\ w \subseteq Ints
      BY TrapWriteAssumption
    <3> QED BY <1>5, <3>1 DEF SipRw, TypeOK
  <2>4. TypeOK'
    BY <2>1, <2>2, <2>3 DEF TypeOK
  <2>5. ~chk_int' => Deliverable' = Deliverable
    BY <2>1, <2>2, <2>3 DEF Deliverable, Disabled, Delegated
  <2> QED BY <2>1, <2>2, <2>4, <2>5 DEF NoneMissed
<1>6. ASSUME NEW op \in CsrOps, NEW w \in IntWrites, DelegRw(op, w) PROVE IInv'
  <2>1. /\ chk_int' \in BOOLEAN /\ phase' = "poll" /\ phase = "exec" /\ UNCHANGED privmode
        /\ ~chk_int' => ~chk_int /\ op # "write" /\ w = {}
    BY <1>6, CsrStepFacts DEF DelegRw
  <2>2. /\ mideleg' = Apply(op, mideleg, w)
        /\ UNCHANGED <<mstatus, mip, mie, sie, medeleg, unseen>>
    BY <1>6 DEF DelegRw
  <2>3. mideleg' \in SUBSET Ints /\ (op # "write" /\ w = {} => mideleg' = mideleg)
    BY <2>2, ApplyFacts, TrapWriteAssumption DEF TypeOK
  <2>4. TypeOK'
    BY <2>1, <2>2, <2>3 DEF TypeOK
  <2>5. ~chk_int' => Deliverable' = Deliverable
    BY <2>1, <2>2, <2>3 DEF Deliverable, Disabled, Delegated
  <2> QED BY <2>1, <2>2, <2>4, <2>5 DEF NoneMissed
<1>7. ASSUME NEW op \in CsrOps, NEW w \in ExcWrites, EdelegRw(op, w) PROVE IInv'
  <2>1. /\ chk_int' \in BOOLEAN /\ phase' = "poll" /\ phase = "exec" /\ UNCHANGED privmode
        /\ ~chk_int' => ~chk_int
    BY <1>7, CsrStepFacts DEF EdelegRw
  <2>2. /\ medeleg' = Apply(op, medeleg, w)
        /\ UNCHANGED <<mstatus, mip, mie, sie, mideleg, unseen>>
    BY <1>7 DEF EdelegRw
  <2>3. medeleg' \in SUBSET Causes
    BY <2>2, ApplyFacts, TrapWriteAssumption DEF TypeOK
  <2>4. TypeOK'
    BY <2>1, <2>2, <2>3 DEF TypeOK
  <2>5. Deliverable' = Deliverable
    BY <2>1, <2>2 DEF Deliverable, Disabled, Delegated
  <2> QED BY <2>1, <2>2, <2>4, <2>5 DEF NoneMissed
<1>8. ASSUME NEW csr, CsrIllegal(csr) PROVE IInv'
  BY <1>8, RaiseIInv DEF CsrIllegal
<1> QED BY <1>1, <1>2, <1>3, <1>4, <1>5, <1>6, <1>7, <1>8 DEF Csr

(* The invariant holds after reset.                                        *)
LEMMA InitIInv == Init => IInv
<1> SUFFICES ASSUME Init PROVE IInv
  OBVIOUS
<1>1. privmode \in Modes /\ mstatus \subseteq StatusBits
  BY DEF Init, Modes, StatusBits
<1>2. TypeOK
  BY <1>1 DEF Init, TypeOK
<1>3. Deliverable = {}
  BY DEF Init, Deliverable
<1> QED BY <1>2, <1>3 DEF IInv, NoneMissed

(* Every step of the hart, the devices and the main loop preserves it.     *)
LEMMA NextIInv == IInv /\ [Next]_vars => IInv'
<1> SUFFICES ASSUME IInv, [Next]_vars PROVE IInv'
  OBVIOUS
<1>1. ASSUME NEW cause, Raise(cause) PROVE IInv'
  BY <1>1, RaiseIInv
<1>2. CASE ECall \/ SRetTrapped \/ WfiTrapped
  BY <1>1, <1>2 DEF ECall, SRetTrapped, WfiTrapped
<1>3. CASE MRet
  BY <1>3 DEF MRet, Retire, IInv, TypeOK, NoneMissed, Mpp, Mode, Modes, StatusBits, csrs
<1>4. CASE SRet
  BY <1>4 DEF SRet, Retire, IInv, TypeOK, NoneMissed, Modes, StatusBits, csrs
<1>5. CASE Wfi
  BY <1>5 DEF Wfi, Retire, IInv, TypeOK, NoneMissed, csrs
<1>6. CASE Plain
  BY <1>6 DEF Plain, Retire, IInv, TypeOK, NoneMissed, Deliverable, Disabled, Delegated, csrs
<1>7. CASE Csr
  BY <1>7, CsrIInv
<1>8. CASE Poll
  BY <1>8 DEF Poll, IInv, TypeOK, NoneMissed, Deliverable, Disabled, Delegated, csrs
<1>9. CASE Setup
  <2>1. TypeOK'
    BY <1>9, SetupTypes DEF IInv
  <2>2. Deliverable' = {}
    BY <1>9, <2>1, SetupExhausts DEF IInv
  <2> QED BY <2>1, <2>2 DEF IInv, NoneMissed
<1>10. ASSUME NEW bits \in SUBSET (PlatformInts \cap Ints), Platform(bits) PROVE IInv'
  BY <1>10 DEF Platform, IInv, TypeOK, NoneMissed
<1>11. CASE Tick
  BY <1>11 DEF Tick, IInv, TypeOK, NoneMissed, csrs
<1>12. CASE UNCHANGED vars
  BY <1>12 DEF vars, csrs, IInv, TypeOK, NoneMissed, Deliverable, Disabled, Delegated
<1> QED
  BY <1>1, <1>2, <1>3, <1>4, <1>5, <1>6, <1>7, <1>8, <1>9, <1>10, <1>11, <1>12
     DEF Next, HartStep, Instruction

(* The types and NoneMissed together are inductive.                        *)
THEOREM IInvAlways == Spec => []IInv
BY InitIInv, NextIInv, PTL DEF Spec

(* Every reachable state is well-typed; in particular the hart's sie never *)
(* holds a machine interrupt.                                              *)
THEOREM TypeCorrect == Spec => []TypeOK
BY IInvAlways, PTL DEF IInv

(* No deliverable interrupt is overlooked, whatever the guest does.        *)
THEOREM NoInterruptMissed == Spec => []NoneMissed
BY IInvAlways, PTL DEF IInv

(* Interrupts never overwrite the frame of a handler that keeps them off.  *)
THEOREM FramesKept == Spec => FrameKept
<1> DEFINE Kept ==
      phase = "setup" =>
        /\ privmode = 3 \/ (privmode = 1 /\ "SIE" \notin mstatus) =>
             mstatus' \cap {"SPP", "SPIE"} = mstatus \cap {"SPP", "SPIE"}
        /\ privmode = 3 /\ "MIE" \notin mstatus =>
             mstatus' \cap {"MPP0", "MPP1", "MPIE"} = mstatus \cap {"MPP0", "MPP1", "MPIE"}
<1>1. ASSUME TypeOK, [Next]_vars PROVE [Kept]_vars
  <2>1. CASE UNCHANGED mstatus
    BY <2>1
  <2>2. CASE phase # "setup"
    BY <2>2
  <2>3. CASE Setup /\ ~UNCHANGED mstatus
    <3>1. PICK k \in Hits : Interrupt(Attempts[k])
      BY <2>3 DEF Setup
    <3> DEFINE i == Attempts[k]
    <3>2. ~Disabled(i)
      BY <3>1 DEF Hits
    <3>3. ~(privmode = 3 /\ "MIE" \notin mstatus)
      BY <3>2 DEF Disabled
    <3>4. privmode = 3 \/ (privmode = 1 /\ "SIE" \notin mstatus) => EnterM
      BY <1>1, <3>1, <3>2 DEF Disabled, Interrupt, Delegated, TypeOK
    <3>5. EnterM => mstatus' \cap {"SPP", "SPIE"} = mstatus \cap {"SPP", "SPIE"}
      BY DEF EnterM, Stack, MppBits
    <3> QED BY <3>3, <3>4, <3>5
  <2> QED
    BY <1>1, <2>1, <2>2, <2>3
       DEF Next, HartStep, Instruction, Csr, Plain, Raise, ECall, MRet, SRet, SRetTrapped,
           Wfi, WfiTrapped, StatusRw, MieRw, SieRw, MipRw, SipRw, DelegRw, EdelegRw,
           CsrIllegal, CsrStep, Retire, Poll, Platform, Tick, vars
<1> QED BY <1>1, TypeCorrect, PTL DEF Spec, FrameKept

(* No trap lowers the privilege mode.                                      *)
THEOREM TrapsKeepPrivilege == Spec => TrapsNeverLower
<1>1. ASSUME TypeOK, [Next]_vars PROVE [privmode' < privmode => MRet \/ SRet]_vars
  <2>1. CASE EnterM
    BY <1>1, <2>1 DEF EnterM, TypeOK, Modes
  <2>2. CASE EnterS /\ privmode <= 1
    BY <1>1, <2>2 DEF EnterS, TypeOK, Modes
  <2>3. CASE UNCHANGED privmode
    BY <1>1, <2>3 DEF TypeOK, Modes
  <2>4. ASSUME NEW cause, Raise(cause)
        PROVE  EnterM \/ (EnterS /\ privmode <= 1)
    BY <2>4 DEF Raise, Except, Delegated
  <2>5. Setup => EnterM \/ (EnterS /\ privmode <= 1) \/ UNCHANGED privmode
    BY DEF Setup, Interrupt, Delegated
  <2> QED
    BY <1>1, <2>1, <2>2, <2>3, <2>4, <2>5
       DEF Next, HartStep, Instruction, Csr, Plain, ECall, SRetTrapped,
           Wfi, WfiTrapped, StatusRw, MieRw, SieRw, MipRw, SipRw, DelegRw, EdelegRw,
           CsrIllegal, CsrStep, Poll, Platform, Tick, vars
<1> QED BY <1>1, TypeCorrect, PTL DEF Spec, TrapsNeverLower
==============================================================================
