-------------------------------- MODULE Plic ---------------------------------
(***************************************************************************)
(* The PLIC of a one-hart machine.  The main thread (uart_chk) and the     *)
(* UART's own thread (uart_loop) send the UART's interrupt, the main       *)
(* thread retries pending ones every 5 ms; the hart programs, claims and   *)
(* completes.  None takes a lock: int_pend_regs and mip are read, changed  *)
(* and written back in separate steps.                                     *)
(* Sources: plic.cpp, main.cpp (hw_update), uart.cpp (uart_sendint).       *)
(*                                                                         *)
(* All sources share one word of each register file.  The enable word of   *)
(* context 1 lies past the end of the array plic_init allocates; it is     *)
(* modelled as the memory it is, with an arbitrary initial value.          *)
(***************************************************************************)
EXTENDS MipWord, FiniteSetsExt

CONSTANTS
  PLIC_SOURCE_COUNT,  \* 16 in the code
  UART_SOURCE,        \* the source uart_sendint uses (10)
  MaxPrio,            \* bound: largest priority and threshold in use
  MaxWrites           \* bound: register writes of the guest

Sources == 0 .. PLIC_SOURCE_COUNT - 1
Contexts == 0 .. 1    \* M-mode and S-mode of hart 0
Prios == 0 .. MaxPrio

CtxBit(c) == IF c % 2 = 1 THEN SEIP ELSE MEIP

ASSUME PlicAssumption ==
  /\ PLIC_SOURCE_COUNT \in Nat /\ MaxPrio \in Nat /\ MaxWrites \in Nat
  /\ UART_SOURCE \in Sources \ {0} /\ {SEIP, MEIP} \subseteq Bits

VARIABLES
  int_prio_regs, int_pend_regs, int_en_regs, int_prio_thres,
  int_handling,
  dev,     \* device threads: statement, and the locals of plic_try_int
  hart,    \* hart thread: statement, claimed source, register
  writes   \* register writes so far

regs == <<int_prio_regs, int_pend_regs, int_en_regs, int_prio_thres, int_handling>>
mipvars == <<mip, rmw>>
vars == <<mipvars, regs, dev, hart, writes>>

Devices == Threads \ {"hart"}    \* "main", "uart"
DevPc == {"idle", "sendTest", "sendLoad", "sendStore", "try", "ctx"}
DevRegs == [pc : DevPc, src : Sources, ctx : 0 .. 2, prio : Prios,
            sending : BOOLEAN, pend : SUBSET Sources]
HartRegs == [pc : {"idle", "claimStore"}, src : Sources, pend : SUBSET Sources]

-----------------------------------------------------------------------------
(* The device threads.                                                     *)

At(t, pc) == dev[t].pc = pc /\ Ready(t)
Goto(t, r) == dev' = [dev EXCEPT ![t] = r]

Locals(pc) ==
  [pc |-> pc, src |-> 0, ctx |-> 0, prio |-> 0, sending |-> FALSE, pend |-> {}]
Try(s, sending) == [Locals("try") EXCEPT !.src = s, !.sending = sending]

(* What follows uart_chk in the main thread is plic_chk; the UART thread   *)
(* goes back to waiting for characters.                                    *)
AfterUart(t) == IF t = "main" THEN Try(0, FALSE) ELSE Locals("idle")

(* uart_chk and uart_loop: an interrupt is sent, or the main thread's      *)
(* round finds nothing to send.                                            *)
UartSends(t) ==
  /\ At(t, "idle") /\ Goto(t, Locals("sendTest"))
  /\ UNCHANGED <<mipvars, regs, hart, writes>>

UartQuiet ==
  /\ At("main", "idle") /\ Goto("main", AfterUart("main"))
  /\ UNCHANGED <<mipvars, regs, hart, writes>>

(* plic_send_int: nothing to do if the source is pending already.          *)
SendTest(t) ==
  /\ At(t, "sendTest")
  /\ Goto(t, IF UART_SOURCE \in int_pend_regs THEN AfterUart(t) ELSE Locals("sendLoad"))
  /\ UNCHANGED <<mipvars, regs, hart, writes>>

SendLoad(t) ==
  /\ At(t, "sendLoad")
  /\ Goto(t, [Locals("sendStore") EXCEPT !.pend = int_pend_regs])
  /\ UNCHANGED <<mipvars, regs, hart, writes>>

SendStore(t) ==
  /\ At(t, "sendStore")
  /\ int_pend_regs' = dev[t].pend \cup {UART_SOURCE}
  /\ Goto(t, Try(UART_SOURCE, TRUE))
  /\ UNCHANGED <<mipvars, int_prio_regs, int_en_regs, int_prio_thres, int_handling, hart, writes>>

(* Where plic_try_int returns to: the end of a send, otherwise the next    *)
(* source of plic_try_int_all, or the start of the next round.             *)
Returned(t) ==
  IF dev[t].sending THEN AfterUart(t)
  ELSE IF dev[t].src + 1 < PLIC_SOURCE_COUNT THEN Try(dev[t].src + 1, FALSE)
  ELSE Locals("idle")

(* plic_try_int: a source that is not pending is left alone.               *)
TrySource(t) ==
  /\ At(t, "try")
  /\ Goto(t, IF dev[t].src \in int_pend_regs
               THEN [dev[t] EXCEPT !.pc = "ctx", !.prio = int_prio_regs[dev[t].src]]
               ELSE Returned(t))
  /\ UNCHANGED <<mipvars, regs, hart, writes>>

plic_find_en(c, s) == s \in int_en_regs[c]

(* Mutant: the threshold is compared the wrong way round.                  *)
NotifiesInverted(t, c) ==
  /\ ~int_handling[c] /\ int_prio_thres[c] > dev[t].prio
  /\ plic_find_en(c, dev[t].src)

Notifies(t, c) ==
  /\ ~int_handling[c] /\ int_prio_thres[c] < dev[t].prio
  /\ plic_find_en(c, dev[t].src)

(* One round of the loop over the contexts.                                *)
TryCtx(t) ==
  /\ At(t, "ctx") /\ dev[t].ctx \in Contexts
  /\ IF Notifies(t, dev[t].ctx) THEN Start(t, TRUE, {CtxBit(dev[t].ctx)})
                                ELSE UNCHANGED mipvars
  /\ Goto(t, [dev[t] EXCEPT !.ctx = @ + 1])
  /\ UNCHANGED <<regs, hart, writes>>

TryReturn(t) ==
  /\ At(t, "ctx") /\ dev[t].ctx \notin Contexts
  /\ Goto(t, Returned(t))
  /\ UNCHANGED <<mipvars, regs, hart, writes>>

-----------------------------------------------------------------------------
(* The hart: loads and stores to the PLIC.                                 *)

HartIdle == hart.pc = "idle" /\ Ready("hart")
IdleRegs == [pc |-> "idle", src |-> 0, pend |-> {}]

(* A store to a register file, of which the bound allows so many.          *)
RegW == HartIdle /\ writes < MaxWrites /\ writes' = writes + 1 /\ UNCHANGED <<mipvars, dev, hart>>

PrioW(s, p) ==
  /\ RegW
  /\ int_prio_regs' = [int_prio_regs EXCEPT ![s] = p]
  /\ UNCHANGED <<int_pend_regs, int_en_regs, int_prio_thres, int_handling>>

PendW(S) ==
  /\ RegW
  /\ int_pend_regs' = S
  /\ UNCHANGED <<int_prio_regs, int_en_regs, int_prio_thres, int_handling>>

(* Mutant: the word written is shifted by the number of sources.           *)
EnableWRaw(c, S) ==
  /\ RegW
  /\ int_en_regs' = [int_en_regs EXCEPT ![c] = {s + PLIC_SOURCE_COUNT : s \in S}]
  /\ UNCHANGED <<int_prio_regs, int_pend_regs, int_prio_thres, int_handling>>

EnableW(c, S) ==
  /\ RegW
  /\ int_en_regs' = [int_en_regs EXCEPT ![c] = S \ {0}]
  /\ UNCHANGED <<int_prio_regs, int_pend_regs, int_prio_thres, int_handling>>

ThresW(c, p) ==
  /\ RegW
  /\ int_prio_thres' = [int_prio_thres EXCEPT ![c] = p]
  /\ UNCHANGED <<int_prio_regs, int_pend_regs, int_en_regs, int_handling>>

(* Mutant: a later source wins a tie.                                      *)
HigherOrEqual(c, best, s) ==
  IF int_prio_regs[s] >= best.prio /\ plic_find_en(c, s)
  THEN [prio |-> int_prio_regs[s], src |-> s] ELSE best

(* The body of the claim loop.                                             *)
Higher(c, best, s) ==
  IF int_prio_regs[s] > best.prio /\ plic_find_en(c, s)
  THEN [prio |-> int_prio_regs[s], src |-> s] ELSE best

(* The claim loop over all sources, which does not look at the pending     *)
(* bits: what it has found after n rounds.                                 *)
Scan(c) ==
  LET best[n \in 0 .. PLIC_SOURCE_COUNT] ==
        IF n = 0 THEN [prio |-> 0, src |-> 0] ELSE Higher(c, best[n - 1], n - 1)
  IN best

(* The source a claim for context c returns.                               *)
Claimed(c) == Scan(c)[PLIC_SOURCE_COUNT].src

(* plic_r, claim.  A claim that finds nothing returns 0 and changes        *)
(* nothing, so it is no step.                                              *)
Claim(c) ==
  /\ HartIdle /\ Claimed(c) # 0
  /\ int_handling' = [int_handling EXCEPT ![c] = TRUE]
  /\ hart' = [pc |-> "claimStore", src |-> Claimed(c), pend |-> int_pend_regs]
  /\ UNCHANGED <<mipvars, int_prio_regs, int_pend_regs, int_en_regs, int_prio_thres, dev, writes>>

ClaimStore ==
  /\ hart.pc = "claimStore"
  /\ int_pend_regs' = hart.pend \ {hart.src}
  /\ hart' = IdleRegs
  /\ UNCHANGED <<mipvars, int_prio_regs, int_en_regs, int_prio_thres, int_handling, dev, writes>>

(* plic_w, complete: the context is free and its bit of mip is cleared.    *)
Complete(c) ==
  /\ HartIdle
  /\ int_handling' = [int_handling EXCEPT ![c] = FALSE]
  /\ Start("hart", FALSE, {CtxBit(c)})
  /\ UNCHANGED <<int_prio_regs, int_pend_regs, int_en_regs, int_prio_thres, dev, hart, writes>>

(* A CSR instruction on mip or sip, counted as a write.                    *)
CsrMip(sip, w) ==
  /\ HartIdle /\ writes < MaxWrites /\ writes' = writes + 1
  /\ Csr(sip, w)
  /\ UNCHANGED <<regs, dev, hart>>

-----------------------------------------------------------------------------

MipStep(t) == (Load(t) \/ Store(t)) /\ UNCHANGED <<regs, dev, hart, writes>>

(* plic_init leaves priorities, pending bits and thresholds uninitialised  *)
(* and sets only the first word of the enable bits.                        *)
Init ==
  /\ MipInit
  /\ int_prio_regs \in [Sources -> Prios]
  /\ int_pend_regs \in SUBSET Sources
  /\ int_en_regs \in {en \in [Contexts -> SUBSET Sources] : en[0] = Sources}
  /\ int_prio_thres \in [Contexts -> Prios]
  /\ int_handling = [c \in Contexts |-> FALSE]
  /\ dev = [t \in Devices |-> Locals("idle")] /\ hart = IdleRegs /\ writes = 0

(* What a thread does once it has begun; for the main thread, its rounds.  *)
DevStep(t) ==
  \/ SendTest(t) \/ SendLoad(t) \/ SendStore(t)
  \/ TrySource(t) \/ TryCtx(t) \/ TryReturn(t)
  \/ MipStep(t)

MainStep == UartSends("main") \/ UartQuiet \/ DevStep("main")

HartStep == ClaimStore \/ MipStep("hart")

Guest ==
  \/ \E s \in Sources, p \in Prios : PrioW(s, p)
  \/ \E S \in SUBSET Sources : PendW(S)
  \/ \E c \in Contexts, S \in SUBSET Sources : EnableW(c, S)
  \/ \E c \in Contexts, p \in Prios : ThresW(c, p)
  \/ \E c \in Contexts : Claim(c) \/ Complete(c)
  \/ \E sip \in BOOLEAN, w \in SUBSET Bits : CsrMip(sip, w)

Next ==
  \/ MainStep \/ HartStep \/ Guest
  \/ \E t \in Devices \ {"main"} : UartSends(t) \/ DevStep(t)

Spec == Init /\ [][Next]_vars

(* Every thread is scheduled; nothing makes the guest use the PLIC or the  *)
(* UART thread send.                                                       *)
Fairness ==
  /\ WF_vars(MainStep) /\ WF_vars(HartStep)
  /\ \A t \in Devices : WF_vars(DevStep(t))

FairSpec == Spec /\ Fairness

-----------------------------------------------------------------------------
(* Properties.                                                             *)

(* The types of the variables.                                             *)
TypeOK ==
  /\ MipTypeOK
  /\ int_prio_regs \in [Sources -> Prios] /\ int_pend_regs \subseteq Sources
  /\ int_en_regs \in [Contexts -> SUBSET Sources] /\ int_prio_thres \in [Contexts -> Prios]
  /\ int_handling \in [Contexts -> BOOLEAN]
  /\ dev \in [Devices -> DevRegs] /\ hart \in HartRegs /\ writes \in 0 .. MaxWrites

(* A claim returns the enabled source of the highest priority, of several  *)
(* the lowest-numbered, and 0 if every enabled source has priority 0.      *)
ClaimIsHighest ==
  \A c \in Contexts :
    LET able == {s \in Sources : plic_find_en(c, s) /\ int_prio_regs[s] > 0}
        top  == {s \in able : \A r \in able : int_prio_regs[r] <= int_prio_regs[s]}
    IN Claimed(c) = IF top = {} THEN 0 ELSE Min(top)

(* Source s may interrupt context c.                                       *)
Wants(c, s) ==
  /\ s \in int_pend_regs /\ plic_find_en(c, s)
  /\ ~int_handling[c] /\ int_prio_thres[c] < int_prio_regs[s]

(* A source that keeps wanting to interrupt a context gets its bit of mip  *)
(* set: plic_chk makes up for notifications that came while the context    *)
(* was busy, that a completion or a CSR write cleared, or that a racing    *)
(* update of mip overwrote.                                                *)
Signalled ==
  \A c \in Contexts, s \in Sources :
    Wants(c, s) ~> (CtxBit(c) \in mip \/ ~Wants(c, s))

==============================================================================
