------------------------------- MODULE Aclint --------------------------------
(***************************************************************************)
(* The ACLINT of a one-hart machine: the timer compare register and the    *)
(* software interrupt register, which the hart writes and the main thread  *)
(* polls every 5 ms, and the MTIP and MSIP bits both of them maintain.     *)
(* Sources: aclint.cpp, main.cpp (main loop, hw_perhart_update),           *)
(* cpu.cpp (CSR instructions), plic.cpp (plic_notify_ctx).                 *)
(*                                                                         *)
(* Of the clock and mtimecmp only their comparison is kept.  The other     *)
(* writers of mip are here too: the CSR instructions on mip and sip, which *)
(* change MTIP and MSIP as well, and the PLIC, whose notifications come    *)
(* from the main thread and from the UART's and whose completions come     *)
(* from the hart.  What the PLIC decides is Plic's.                        *)
(***************************************************************************)
EXTENDS MipWord

CONSTANTS
  CsrValues,     \* bound: the values written to mip and sip, as sets of bits
  MtimeWrites    \* what the guest's writes of mtime may do to `due`

ASSUME AclintAssumption ==
  /\ {MSIP, MTIP} \subseteq Bits /\ "uart" \in Threads
  /\ CsrValues \subseteq SUBSET Bits /\ MtimeWrites \subseteq BOOLEAN

PlicBits == {SEIP, MEIP} \cap Bits

VARIABLES
  due,          \* mtimer_regs[0] <= aclint_mtime_get()
  mswi_regs,    \* the software interrupt register, as a Boolean
  main,         \* statement the main loop has come to
  hart          \* statement the hart's access has come to

vars == <<mip, rmw, due, mswi_regs, main, hart>>

MainPc == {"timer", "swi", "plic"}
HartPc == {"idle", "timerChk"}

-----------------------------------------------------------------------------
(* Mutant: the comparison is the wrong way round.                          *)
MtimerChkInverted(t) == Ready(t) /\ Start(t, ~due, {MTIP})

(* aclint_mtimer_chk: the comparison decides the update.                   *)
MtimerChk(t) == Ready(t) /\ Start(t, due, {MTIP})

(* The main loop: hw_perhart_update.                                       *)
MainTimer ==
  /\ main = "timer" /\ MtimerChk("main")
  /\ main' = "swi"
  /\ UNCHANGED <<due, mswi_regs, hart>>

(* Mutant: the register is tested the wrong way round.                     *)
MswiChkInverted ==
  /\ main = "swi" /\ Ready("main")
  /\ IF mswi_regs THEN UNCHANGED <<mip, rmw>> ELSE Start("main", TRUE, {MSIP})
  /\ main' = "plic"
  /\ UNCHANGED <<due, mswi_regs, hart>>

(* Mutant: the wrong bit number.                                           *)
MswiChkWrongBit ==
  /\ main = "swi" /\ Ready("main")
  /\ IF mswi_regs THEN Start("main", TRUE, {MSIP + 1}) ELSE UNCHANGED <<mip, rmw>>
  /\ main' = "plic"
  /\ UNCHANGED <<due, mswi_regs, hart>>

(* aclint_mswi_chk only ever sets the bit.                                 *)
MswiChk ==
  /\ main = "swi" /\ Ready("main")
  /\ IF mswi_regs THEN Start("main", TRUE, {MSIP}) ELSE UNCHANGED <<mip, rmw>>
  /\ main' = "plic"
  /\ UNCHANGED <<due, mswi_regs, hart>>

(* hw_update: the PLIC notifies the hart of nothing, or of some contexts   *)
(* one after the other.                                                    *)
MainNotify(b) ==
  /\ main = "plic" /\ Ready("main")
  /\ Start("main", TRUE, {b})
  /\ UNCHANGED <<due, mswi_regs, main, hart>>

MainRound ==
  /\ main = "plic" /\ Ready("main")
  /\ main' = "timer"
  /\ UNCHANGED <<mip, rmw, due, mswi_regs, hart>>

(* The UART's thread sends its interrupt through the PLIC.                 *)
UartNotify(b) ==
  /\ Ready("uart")
  /\ Start("uart", TRUE, {b})
  /\ UNCHANGED <<due, mswi_regs, main, hart>>

-----------------------------------------------------------------------------
(* The hart.                                                               *)

HartIdle == hart = "idle" /\ Ready("hart")

(* A store to mtimecmp, followed by aclint_mtimer_chk.                     *)
MtimecmpW(past) ==
  /\ HartIdle
  /\ due' = past
  /\ hart' = "timerChk"
  /\ UNCHANGED <<mip, rmw, mswi_regs, main>>

HartTimerChk ==
  /\ hart = "timerChk" /\ MtimerChk("hart")
  /\ hart' = "idle"
  /\ UNCHANGED <<due, mswi_regs, main>>

(* A store to mtime moves the clock and checks nothing.                    *)
MtimeW(past) ==
  /\ HartIdle
  /\ due' = past
  /\ UNCHANGED <<mip, rmw, mswi_regs, main, hart>>

MswiW(value) ==
  /\ HartIdle
  /\ mswi_regs' = value
  /\ UNCHANGED <<mip, rmw, due, main, hart>>

(* plic_w, completion: plic_notify_finish_ctx.                             *)
Complete(b) ==
  /\ HartIdle
  /\ Start("hart", FALSE, {b})
  /\ UNCHANGED <<due, mswi_regs, main, hart>>

(* A CSR instruction on mip or sip, which may change any bit of the word.  *)
CsrMip(sip, w) == HartIdle /\ Csr(sip, w) /\ UNCHANGED <<due, mswi_regs, main, hart>>

-----------------------------------------------------------------------------

MipStep(t) == (Load(t) \/ Store(t)) /\ UNCHANGED <<due, mswi_regs, main, hart>>

TimePasses ==
  /\ ~due /\ due' = TRUE
  /\ UNCHANGED <<mip, rmw, mswi_regs, main, hart>>

(* mtimecmp starts at its maximum; mswi_regs is not initialised.           *)
Init ==
  /\ MipInit
  /\ due = FALSE /\ mswi_regs \in BOOLEAN
  /\ main = "timer" /\ hart = "idle"

MainStep == MainTimer \/ MswiChk \/ MainRound \/ MipStep("main")
HartStep == HartTimerChk \/ MipStep("hart")
GuestCsr == \E sip \in BOOLEAN, w \in CsrValues : CsrMip(sip, w)
PlicStep == \E b \in PlicBits : UartNotify(b) \/ Complete(b)

Next ==
  \/ MainStep
  \/ HartStep
  \/ \E b \in BOOLEAN : MtimecmpW(b) \/ MswiW(b)
  \/ \E b \in MtimeWrites : MtimeW(b)
  \/ \E b \in PlicBits : MainNotify(b)
  \/ GuestCsr
  \/ PlicStep
  \/ MipStep("uart")
  \/ TimePasses

Spec == Init /\ [][Next]_vars

(* The threads are scheduled, and the PLIC's loops in a round of the main  *)
(* thread are finite; nothing makes the guest write, a device notify or    *)
(* time pass.                                                              *)
FairSpec ==
  /\ Spec /\ WF_vars(MainStep) /\ WF_vars(HartStep) /\ WF_vars(MipStep("uart"))
  /\ SF_vars(MainRound)

-----------------------------------------------------------------------------
(* Properties.                                                             *)

(* The types of the variables.                                             *)
TypeOK ==
  /\ MipTypeOK
  /\ due \in BOOLEAN /\ mswi_regs \in BOOLEAN
  /\ main \in MainPc /\ hart \in HartPc

(* The guest's CSR writes and the PLIC have stopped touching mip.          *)
OthersStop == <>[][~(GuestCsr \/ PlicStep)]_vars

(* A timer that stays due becomes and stays pending, whatever CSR writes,  *)
(* completions and notifications did to MTIP before they ceased, and       *)
(* although the hart's checks after writes of mtimecmp and the PLIC round  *)
(* of the main thread go on racing with the periodic check.                *)
TimerRaised == <>[]due /\ OthersStop => <>[](MTIP \in mip)

(* A timer interrupt whose cause is gone goes away and stays away: no      *)
(* check that was under way when mtimecmp was written, no value of mip     *)
(* loaded before and no CSR write of the bit keeps it.                     *)
TimerFalls == <>[]~due /\ OthersStop => <>[](MTIP \notin mip)

(* A software interrupt that stays requested becomes and stays pending     *)
(* once the hart no longer overwrites mip; aclint_mswi_chk repeats what    *)
(* CSR writes and lost updates took away.                                  *)
SwiRaised ==
  /\ <>[]mswi_regs /\ OthersStop
  /\ <>[][~ \E b \in BOOLEAN : MtimecmpW(b)]_vars
  => <>[](MSIP \in mip)

==============================================================================
