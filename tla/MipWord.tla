------------------------------ MODULE MipWord --------------------------------
(***************************************************************************)
(* The mip word of a hart as its thread and the device threads share it.   *)
(* `hs.mip |= bit` and `hs.mip &= ~bit` are a load and a store without a   *)
(* lock, so an update of one thread can be overwritten by the other's.     *)
(* A CSRRW of mip or sip stores without a load.                            *)
(* Sources: aclint.cpp, plic.cpp and cpu.cpp (CSR instructions), wherever  *)
(* they update mip.                                                        *)
(***************************************************************************)
EXTENDS Naturals

CONSTANTS
  Bits,            \* the bits of mip in use
  Threads          \* the threads that update it

ASSUME MipAssumption == Bits \subseteq Nat /\ {"main", "hart"} \subseteq Threads

MSIP == 3
MTIP == 7
SEIP == 9
MEIP == 11

VARIABLES
  mip,             \* the bits that are 1
  rmw              \* per thread: the update it is in the middle of

Update == [step : {"none", "load", "store"}, set : BOOLEAN, bits : SUBSET Bits,
           reg : SUBSET Bits]
NoUpdate == [step |-> "none", set |-> FALSE, bits |-> {}, reg |-> {}]

(* The thread may go on to its next statement.                             *)
Ready(t) == rmw[t].step = "none"

(* The thread has come to `mip |= bits` (set) or `mip &= ~bits`.           *)
Start(t, set, bits) ==
  /\ rmw' = [rmw EXCEPT ![t] = [step |-> "load", set |-> set, bits |-> bits, reg |-> {}]]
  /\ UNCHANGED mip

(* Mutant: the clearing half of the update is lost.                        *)
StoreSetOnly(t) ==
  /\ rmw[t].step = "store"
  /\ mip' = rmw[t].reg \cup rmw[t].bits
  /\ rmw' = [rmw EXCEPT ![t] = NoUpdate]

Load(t) ==
  /\ rmw[t].step = "load"
  /\ rmw' = [rmw EXCEPT ![t].step = "store", ![t].reg = mip]
  /\ UNCHANGED mip

Store(t) ==
  /\ rmw[t].step = "store"
  /\ mip' = IF rmw[t].set THEN rmw[t].reg \cup rmw[t].bits
                          ELSE rmw[t].reg \ rmw[t].bits
  /\ rmw' = [rmw EXCEPT ![t] = NoUpdate]

(* The CSR instructions of the hart on mip and sip.  A write of sip masks  *)
(* the machine-mode bits out of the value, and so clears them.             *)
MachineBits == {MSIP, MTIP, MEIP}

CsrWrite(sip, w) ==
  /\ mip' = IF sip THEN w \ MachineBits ELSE w
  /\ UNCHANGED rmw

(* CSRRS with a value other than 0, before and after the mask.             *)
CsrSet(sip, w) ==
  LET wvalue == IF sip THEN w \ MachineBits ELSE w
  IN  wvalue # {} /\ Start("hart", TRUE, wvalue)

(* CSRRC: the mask of sip adds the machine-mode bits to those to clear.    *)
CsrClear(sip, w) ==
  w # {} /\ Start("hart", FALSE, IF sip THEN w \cup (MachineBits \cap Bits) ELSE w)

Csr(sip, w) == CsrWrite(sip, w) \/ CsrSet(sip, w) \/ CsrClear(sip, w)

MipInit == mip = {} /\ rmw = [t \in Threads |-> NoUpdate]
MipTypeOK == mip \subseteq Bits /\ rmw \in [Threads -> Update]
==============================================================================
