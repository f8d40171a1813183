-------------------------------- MODULE Trap ---------------------------------
(***************************************************************************)
(* Traps of one hart: privilege mode, the interrupt CSRs, delegation, trap *)
(* entry and return, and the chk_int flag with which the hart and the main *)
(* thread agree on when pending interrupts are looked at.                  *)
(* Sources: hartexc.cpp, cpu.cpp (cycle, SYSTEM instructions), main.cpp.   *)
(*                                                                         *)
(* A hart alternates between one instruction ("exec"), the test of chk_int *)
(* ("poll") and, when it was set, setup_pending_int ("setup").  Addresses  *)
(* and values that only travel (pc, xepc, xtval, xtvec, xscratch) are left *)
(* out.                                                                    *)
(***************************************************************************)
EXTENDS Integers, Sequences

CONSTANTS
  Ints,          \* interrupt numbers in use, of those the emulator knows
  Excs,          \* exceptions instructions raise, besides the ones modelled
  CsrOps,        \* CSR instructions the guest uses: write, set, clear
  StatusWrites,  \* operands for mstatus and sstatus
  IntWrites,     \* operands for mip, sip, mie, sie and mideleg
  ExcWrites      \* operands for medeleg

MInts == {3, 7, 11}          \* machine software, timer, external
SInts == {1, 5, 9}           \* supervisor software, timer, external
PlatformInts == {3, 7, 9, 11}  \* the bits of mip that devices drive
ILLINST == 2
Ecall(priv) == 8 + priv
Causes == Excs \cup {ILLINST, 8, 9, 10, 11}

(* mstatus is the set of its bits that are 1; MPP is two bits wide.        *)
StatusBits == {"SIE", "MIE", "SPIE", "MPIE", "SPP", "MPP0", "MPP1", "TW", "TSR"}

ASSUME IntAssumption == Ints \subseteq MInts \cup SInts
ASSUME TrapWriteAssumption ==
  /\ CsrOps \subseteq {"write", "set", "clear"}
  /\ StatusWrites \subseteq SUBSET StatusBits
  /\ IntWrites \subseteq SUBSET Ints
  /\ ExcWrites \subseteq SUBSET Causes

VARIABLES
  privmode, mstatus, mip, mie,
  sie,               \* the hart's own copy of the supervisor part of mie
  mideleg, medeleg,
  chk_int,
  phase,             \* where in cycle() the hart is
  unseen             \* since setup_pending_int last ran: how state it looks at
                     \* has changed without chk_int being set

csrs == <<mip, mie, sie, mideleg, medeleg>>
vars == <<privmode, mstatus, csrs, chk_int, phase, unseen>>

Modes == 0 .. 3
Mode(st, lo, hi) == (IF lo \in st THEN 1 ELSE 0) + (IF hi \in st THEN 2 ELSE 0)
Mpp(st) == Mode(st, "MPP0", "MPP1")
MppBits(priv) ==
  (IF priv \in {1, 3} THEN {"MPP0"} ELSE {}) \cup (IF priv \in {2, 3} THEN {"MPP1"} ELSE {})

-----------------------------------------------------------------------------
(* create_exception.                                                       *)

Delegated(cause, deleg) == cause \in deleg /\ privmode <= 1

(* Move an enable bit to its previous-enable bit and clear it.             *)
Stack(st, ie, pie) ==
  (st \ {ie, pie}) \cup (IF ie \in st THEN {pie} ELSE {})

EnterS ==
  /\ mstatus' = (Stack(mstatus, "SIE", "SPIE") \ {"SPP"})
                  \cup (IF privmode = 1 THEN {"SPP"} ELSE {})
  /\ privmode' = 1

(* Mutant: the machine's enable bit is saved where the supervisor's goes.  *)
EnterMWrongBit ==
  /\ mstatus' = (Stack(mstatus, "MIE", "SPIE") \ {"MPP0", "MPP1"}) \cup MppBits(privmode)
  /\ privmode' = 3

EnterM ==
  /\ mstatus' = (Stack(mstatus, "MIE", "MPIE") \ {"MPP0", "MPP1"}) \cup MppBits(privmode)
  /\ privmode' = 3

(* An exception always traps.                                              *)
Except(cause) == IF Delegated(cause, medeleg) THEN EnterS ELSE EnterM

(* An interrupt does not when it is masked in the current mode or disabled *)
(* for the mode it is meant for.                                           *)
Disabled(i) ==
  \/ privmode = 3 /\ "MIE" \notin mstatus
  \/ privmode = 1 /\ "SIE" \notin mstatus /\ i \notin MInts
  \/ i \notin (IF Delegated(i, mideleg) THEN sie ELSE mie)

Interrupt(i) == IF Delegated(i, mideleg) THEN EnterS ELSE EnterM

-----------------------------------------------------------------------------
(* Instructions.                                                           *)

(* decode_exc returns and cycle() goes on to the interrupt check.          *)
Retire == phase = "exec" /\ phase' = "poll"

(* Any instruction that touches none of this state.                        *)
Plain == Retire /\ UNCHANGED <<privmode, mstatus, csrs, chk_int, unseen>>

(* A trapping instruction; create_exception changes nothing else.          *)
Raise(cause) ==
  Retire /\ Except(cause) /\ UNCHANGED <<csrs, chk_int, unseen>>

ECall == Raise(Ecall(privmode))

(* MRET, in any mode: restore the enable bit and the mode, look for        *)
(* interrupts.                                                             *)
MRet ==
  /\ Retire
  /\ mstatus' = (mstatus \ {"MIE", "MPIE", "MPP0", "MPP1"})
                  \cup {"MPIE"} \cup (IF "MPIE" \in mstatus THEN {"MIE"} ELSE {})
  /\ privmode' = Mpp(mstatus)
  /\ chk_int' = TRUE
  /\ UNCHANGED <<csrs, unseen>>

(* Mutant: the return does not look for interrupts.                        *)
SRetQuiet ==
  /\ Retire /\ "TSR" \notin mstatus
  /\ mstatus' = (mstatus \ {"SIE", "SPIE", "SPP"})
                  \cup {"SPIE"} \cup (IF "SPIE" \in mstatus THEN {"SIE"} ELSE {})
  /\ privmode' = (IF "SPP" \in mstatus THEN 1 ELSE 0)
  /\ UNCHANGED <<csrs, chk_int, unseen>>

(* SRET, in any mode unless TSR is set.                                    *)
SRet ==
  /\ Retire /\ "TSR" \notin mstatus
  /\ mstatus' = (mstatus \ {"SIE", "SPIE", "SPP"})
                  \cup {"SPIE"} \cup (IF "SPIE" \in mstatus THEN {"SIE"} ELSE {})
  /\ privmode' = (IF "SPP" \in mstatus THEN 1 ELSE 0)
  /\ chk_int' = TRUE
  /\ UNCHANGED <<csrs, unseen>>

SRetTrapped == "TSR" \in mstatus /\ Raise(ILLINST)

(* WFI sleeps for a moment and looks for interrupts.                       *)
Wfi ==
  /\ Retire /\ "TW" \notin mstatus
  /\ chk_int' = TRUE
  /\ UNCHANGED <<privmode, mstatus, csrs, unseen>>

WfiTrapped == "TW" \in mstatus /\ Raise(ILLINST)

-----------------------------------------------------------------------------
(* CSR instructions on the interrupt CSRs.                                 *)

Apply(op, old, w) ==
  CASE op = "write" -> w
    [] op = "set"   -> old \cup w
    [] op = "clear" -> old \ w

(* csrrs and csrrc with a zero operand only read.                          *)
Writes(op, w) == op = "write" \/ w # {}

CsrPriv(csr) == IF csr \in {"sstatus", "sie", "sip"} THEN 1 ELSE 3

CsrIllegal(csr) == CsrPriv(csr) > privmode /\ Raise(ILLINST)

(* What they have in common: the privilege check, and chk_int on a write.  *)
CsrStep(csr, op, w) ==
  /\ Retire /\ CsrPriv(csr) <= privmode
  /\ chk_int' = (chk_int \/ Writes(op, w))
  /\ UNCHANGED privmode

StatusRw(csr, op, w) ==
  /\ CsrStep(csr, op, w)
  /\ mstatus' = Apply(op, mstatus, w)
  /\ UNCHANGED <<csrs, unseen>>

MieRw(op, w) ==
  /\ CsrStep("mie", op, w)
  /\ mie' = Apply(op, mie, w)
  /\ UNCHANGED <<mstatus, mip, sie, mideleg, medeleg, unseen>>

(* An access to sie is one to all of mie, followed, even if it only reads, *)
(* by a refresh of the hart's copy.                                        *)
SieRw(op, w) ==
  /\ CsrStep("sie", op, w)
  /\ mie' = Apply(op, mie, w)
  /\ sie' = mie' \ MInts
  /\ unseen' = IF ~chk_int' /\ sie' # sie THEN unseen \cup {"sie"} ELSE unseen
  /\ UNCHANGED <<mstatus, mip, mideleg, medeleg>>

MipRw(op, w) ==
  /\ CsrStep("mip", op, w)
  /\ mip' = Apply(op, mip, w)
  /\ UNCHANGED <<mstatus, mie, sie, mideleg, medeleg, unseen>>

(* sip is mip, with the machine bits taken out of (put into, for csrrc)    *)
(* the operand.                                                            *)
SipRw(op, w) ==
  /\ CsrStep("sip", op, w)
  /\ mip' = CASE op = "write" -> w \ MInts
              [] op = "set"   -> mip \cup (w \ MInts)
              [] op = "clear" -> IF w = {} THEN mip ELSE mip \ (w \cup MInts)
  /\ UNCHANGED <<mstatus, mie, sie, mideleg, medeleg, unseen>>

DelegRw(op, w) ==
  /\ CsrStep("mideleg", op, w)
  /\ mideleg' = Apply(op, mideleg, w)
  /\ UNCHANGED <<mstatus, mip, mie, sie, medeleg, unseen>>

EdelegRw(op, w) ==
  /\ CsrStep("medeleg", op, w)
  /\ medeleg' = Apply(op, medeleg, w)
  /\ UNCHANGED <<mstatus, mip, mie, sie, mideleg, unseen>>

Csr ==
  \/ \E op \in CsrOps :
       \/ \E w \in StatusWrites, csr \in {"mstatus", "sstatus"} : StatusRw(csr, op, w)
       \/ \E w \in IntWrites :
            MieRw(op, w) \/ SieRw(op, w) \/ MipRw(op, w) \/ SipRw(op, w) \/ DelegRw(op, w)
       \/ \E w \in ExcWrites : EdelegRw(op, w)
  \/ \E csr \in {"sie", "mie"} : CsrIllegal(csr)

Instruction ==
  \/ Plain
  \/ \E cause \in Excs : Raise(cause)
  \/ ECall \/ MRet \/ SRet \/ SRetTrapped \/ Wfi \/ WfiTrapped
  \/ Csr

-----------------------------------------------------------------------------
(* The end of cycle().                                                     *)

(* if (chk_int) { chk_int = false; setup_pending_int }                     *)
Poll ==
  /\ phase = "poll"
  /\ phase' = IF chk_int THEN "setup" ELSE "exec"
  /\ chk_int' = FALSE
  /\ UNCHANGED <<privmode, mstatus, csrs, unseen>>

(* setup_pending_int tries the machine's interrupts and then, in a second  *)
(* pass, the supervisor's once more.                                       *)
Attempts ==
  (IF "MIE" \in mstatus \/ privmode < 3 THEN <<11, 3, 7, 9, 1, 5>> ELSE <<>>) \o
  (IF "SIE" \in mstatus THEN <<9, 1, 5>> ELSE <<>>)

(* The attempts that lead to a trap; the first one is taken.               *)
Hits == {k \in 1 .. Len(Attempts) : Attempts[k] \in mip /\ ~Disabled(Attempts[k])}

Setup ==
  /\ phase = "setup" /\ phase' = "exec"
  /\ IF Hits = {}
       THEN UNCHANGED <<privmode, mstatus>>
       ELSE \E k \in Hits : (\A j \in Hits : k <= j) /\ Interrupt(Attempts[k])
  /\ unseen' = {}
  /\ UNCHANGED <<csrs, chk_int>>

HartStep == Instruction \/ Poll \/ Setup

-----------------------------------------------------------------------------
(* The other threads.                                                      *)

(* Devices set and clear their bits of mip (aclint_mtimer_chk,             *)
(* aclint_mswi_chk, plic_notify_ctx, plic_notify_finish_ctx).              *)
Platform(bits) ==
  /\ mip' = (mip \ PlatformInts) \cup bits
  /\ unseen' = unseen \cup {"platform"}
  /\ UNCHANGED <<privmode, mstatus, mie, sie, mideleg, medeleg, chk_int, phase>>

(* Mutant: the main loop forgets the flag.                                 *)
TickIdle == UNCHANGED vars

(* The main loop, every 5 ms.                                              *)
Tick ==
  /\ chk_int' = TRUE
  /\ UNCHANGED <<privmode, mstatus, csrs, phase, unseen>>

(* reset_state: M-mode, every interrupt enabled, MPP = S, MIE, SIE, MPIE   *)
(* and SPIE set and TSR clear, TW set, as in the constant MSTATUS.         *)
Init ==
  /\ privmode = 3
  /\ mstatus = {"SIE", "MIE", "SPIE", "MPIE", "MPP0", "TW"}
  /\ mip = {} /\ mie = Ints /\ sie = Ints \ MInts
  /\ mideleg = {} /\ medeleg = {}
  /\ chk_int = FALSE /\ phase = "exec" /\ unseen = {}

Next ==
  \/ HartStep
  \/ \E bits \in SUBSET (PlatformInts \cap Ints) : Platform(bits)
  \/ Tick

Spec == Init /\ [][Next]_vars

(* The hart and main threads are scheduled; devices may stay silent.       *)
FairSpec == Spec /\ WF_vars(HartStep) /\ WF_vars(Tick)

-----------------------------------------------------------------------------
(* Properties.                                                             *)

(* The types of the variables.                                             *)
TypeOK ==
  /\ privmode \in Modes /\ mstatus \subseteq StatusBits
  /\ mip \subseteq Ints /\ mie \subseteq Ints /\ sie \subseteq Ints \ MInts
  /\ mideleg \subseteq Ints /\ medeleg \subseteq Causes
  /\ chk_int \in BOOLEAN /\ phase \in {"exec", "poll", "setup"}
  /\ unseen \subseteq {"platform", "sie"}

(* Interrupts that setup_pending_int ought to take if it looked now.       *)
Deliverable == {i \in mip : ~Disabled(i)}

(* No interrupt is overlooked: whenever one could be taken, the hart is on *)
(* its way to setup_pending_int, or a device or a refresh of sie has made  *)
(* it deliverable behind the hart's back (the next tick then finds it).    *)
(* So every trap, return and CSR write that unmasks something sets chk_int *)
(* in time, and one run of setup_pending_int leaves nothing to take.       *)
NoneMissed == Deliverable # {} => chk_int \/ phase = "setup" \/ unseen # {}

(* An interrupt never overwrites the trap frame of a handler that has not  *)
(* enabled interrupts again: SPP and SPIE while S-mode runs with SIE clear *)
(* or M-mode runs, MPP and MPIE while M-mode runs with MIE clear.          *)
FrameKept ==
  [][phase = "setup" =>
       /\ privmode = 3 \/ (privmode = 1 /\ "SIE" \notin mstatus) =>
            mstatus' \cap {"SPP", "SPIE"} = mstatus \cap {"SPP", "SPIE"}
       /\ privmode = 3 /\ "MIE" \notin mstatus =>
            mstatus' \cap {"MPP0", "MPP1", "MPIE"} = mstatus \cap {"MPP0", "MPP1", "MPIE"}]_vars

(* Only MRET and SRET leave a mode for a lower one; a trap never does,     *)
(* whatever is delegated.                                                  *)
TrapsNeverLower == [][privmode' < privmode => MRet \/ SRet]_vars

(* An interrupt that can be taken does not stay that way: the periodic     *)
(* chk_int makes up for everything NoneMissed lets pass.                   *)
InterruptsTaken == Deliverable # {} ~> Deliverable = {}

==============================================================================
