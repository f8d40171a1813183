------------------------------- MODULE UartInt -------------------------------
(***************************************************************************)
(* Interrupt identification of the UART: uart_chk on the main thread and   *)
(* uart_loop on the UART thread announce causes through IIR and source 10  *)
(* of the PLIC while a hart reads and writes the registers.  A step is one *)
(* access to IIR, IER or the PLIC.  Source: uart.cpp.                      *)
(*                                                                         *)
(* The input ring is UartRx's and the transmit buffer UartTx's: here there *)
(* is input waiting or not, and text to send or not.  Of regs[2], FCR and  *)
(* IIR in one, the low nibble is kept.                                     *)
(***************************************************************************)
EXTENDS Integers

CONSTANTS
  RX_TIMEOUT,   \* checks after which waiting input is announced (4 in the code)
  FcrNibbles    \* low nibbles of the values the guest writes to FCR

ASSUME IntAssumption == RX_TIMEOUT \in Nat /\ FcrNibbles \subseteq 0 .. 15

VARIABLES
  ier,            \* regs[1]: the causes enabled
  iir,            \* the low nibble of regs[2]
  waiting,        \* pending_in > 0
  uart_timeout,   \* checks since input waits
  tx_empty,       \* tx_offset = 0
  line,           \* the PLIC's pending bit of source 10
  thread,         \* main and uart_loop: program counter and registers
  hart            \* the hart's program counter

vars == <<ier, iir, waiting, uart_timeout, tx_empty, line, thread, hart>>

Threads == {"main", "loop"}
Causes == {"rx", "thre"}

(* Mutant: the identification is shifted once too often.                   *)
CodeShifted == [rx |-> 8, thre |-> 4]

Code == [rx |-> 4, thre |-> 2]
uart_int_prio == [i \in 0 .. 7 |-> <<4, 3, 2, 1, 0, 6, 2, 5>>[i + 1]]

(* Registers are dead between the statements of a thread.                  *)
At(pc) == [pc |-> pc, cause |-> "rx", next |-> "begin"]
Goto(t, pc) == thread' = [thread EXCEPT ![t] = At(pc)]

-----------------------------------------------------------------------------
(* uart_sendint.                                                           *)

(* The cause gives way to the one IIR shows.                               *)
Outranked(cause) ==
  iir # 1 /\ uart_int_prio[Code[cause] \div 2] < uart_int_prio[(iir \div 2) % 8]

(* A call from thread t that returns to the statement next.                *)
Send(t, cause, next) ==
  thread' = [thread EXCEPT ![t] = [pc |-> "sendTest", cause |-> cause, next |-> next]]

SendTest(t) ==
  /\ thread[t].pc = "sendTest"
  /\ IF Outranked(thread[t].cause) THEN Goto(t, thread[t].next)
     ELSE thread' = [thread EXCEPT ![t].pc = "sendIir"]
  /\ UNCHANGED <<ier, iir, waiting, uart_timeout, tx_empty, line, hart>>

SendIir(t) ==
  /\ thread[t].pc = "sendIir"
  /\ iir' = Code[thread[t].cause]
  /\ thread' = [thread EXCEPT ![t].pc = "sendLine"]
  /\ UNCHANGED <<ier, waiting, uart_timeout, tx_empty, line, hart>>

(* plic_send_int(10).                                                      *)
SendLine(t) ==
  /\ thread[t].pc = "sendLine"
  /\ line' = TRUE
  /\ Goto(t, thread[t].next)
  /\ UNCHANGED <<ier, iir, waiting, uart_timeout, tx_empty, hart>>

(* Mutant: the wrong bit of IER is looked at.                              *)
SendThreWrongBit(t) ==
  /\ thread[t].pc = "thre"
  /\ IF "rx" \in ier THEN Send(t, "thre", "begin") ELSE Goto(t, "begin")
  /\ UNCHANGED <<ier, iir, waiting, uart_timeout, tx_empty, line, hart>>

(* The transmitter is empty: announced if IER asks for it.                 *)
SendThre(t) ==
  /\ thread[t].pc = "thre"
  /\ IF "thre" \in ier THEN Send(t, "thre", "begin") ELSE Goto(t, "begin")
  /\ UNCHANGED <<ier, iir, waiting, uart_timeout, tx_empty, line, hart>>

-----------------------------------------------------------------------------
(* uart_chk, and the end of a flush in uart_loop.                          *)

NoInput ==
  /\ thread["main"].pc = "begin"
  /\ Goto("main", "timeout")
  /\ UNCHANGED <<ier, iir, waiting, uart_timeout, tx_empty, line, hart>>

(* A character; whether the ring has reached its level is UartRx's data.   *)
Input ==
  /\ thread["main"].pc = "begin"
  /\ waiting' = TRUE
  /\ \/ "rx" \in ier /\ Send("main", "rx", "timeout")
     \/ Goto("main", "timeout")
  /\ UNCHANGED <<ier, iir, uart_timeout, tx_empty, line, hart>>

(* Mutant: the time-out is not counted.                                    *)
TimeoutNever ==
  /\ thread["main"].pc = "timeout"
  /\ Goto("main", "tx")
  /\ UNCHANGED <<ier, iir, waiting, uart_timeout, tx_empty, line, hart>>

(* The time-out announces input whether or not IER asks for it; the count  *)
(* goes on from where the last input left it.                              *)
Timeout ==
  /\ thread["main"].pc = "timeout"
  /\ LET count == uart_timeout + (IF waiting THEN 1 ELSE 0) IN
       /\ uart_timeout' = IF count > RX_TIMEOUT THEN 0 ELSE count
       /\ IF count > RX_TIMEOUT THEN Send("main", "rx", "tx") ELSE Goto("main", "tx")
  /\ UNCHANGED <<ier, iir, waiting, tx_empty, line, hart>>

(* With text to send, a flush is requested (UartTx).                       *)
CheckTx ==
  /\ thread["main"].pc = "tx"
  /\ Goto("main", IF tx_empty THEN "thre" ELSE "begin")
  /\ UNCHANGED <<ier, iir, waiting, uart_timeout, tx_empty, line, hart>>

Flushed ==
  /\ thread["loop"].pc = "begin" /\ ~tx_empty
  /\ tx_empty' = TRUE
  /\ Goto("loop", "thre")
  /\ UNCHANGED <<ier, iir, waiting, uart_timeout, line, hart>>

-----------------------------------------------------------------------------
(* The hart: uart_r and uart_w.                                            *)

(* A read of RBR may take the last character.                              *)
ReadRbr ==
  /\ hart = "idle"
  /\ waiting' = FALSE
  /\ UNCHANGED <<ier, iir, uart_timeout, tx_empty, line, thread, hart>>

(* A read of IIR and a write of THR clear a transmitter cause they find.   *)
ReadIir ==
  /\ hart = "idle" /\ iir = 2
  /\ hart' = "readClear"
  /\ UNCHANGED <<ier, iir, waiting, uart_timeout, tx_empty, line, thread>>

WriteThr ==
  /\ hart = "idle"
  /\ hart' = IF iir = 2 THEN "writeClear" ELSE "put"
  /\ UNCHANGED <<ier, iir, waiting, uart_timeout, tx_empty, line, thread>>

(* uart_clearint: what another thread has put there since goes, too.       *)
ClearInt(from, to) ==
  /\ hart = from
  /\ iir' = 1
  /\ hart' = to
  /\ UNCHANGED <<ier, waiting, uart_timeout, tx_empty, line, thread>>

Put ==
  /\ hart = "put"
  /\ tx_empty' = FALSE
  /\ hart' = "idle"
  /\ UNCHANGED <<ier, iir, waiting, uart_timeout, line, thread>>

WriteIer ==
  /\ hart = "idle"
  /\ ier' \in SUBSET Causes
  /\ UNCHANGED <<iir, waiting, uart_timeout, tx_empty, line, thread, hart>>

(* FCR and IIR are the same byte: a write of FCR changes the pending cause. *)
WriteFcr ==
  /\ hart = "idle"
  /\ iir' \in FcrNibbles
  /\ UNCHANGED <<ier, waiting, uart_timeout, tx_empty, line, thread, hart>>

(* The hart claims source 10 at the PLIC.                                  *)
Claim ==
  /\ hart = "idle" /\ line
  /\ line' = FALSE
  /\ UNCHANGED <<ier, iir, waiting, uart_timeout, tx_empty, thread, hart>>

-----------------------------------------------------------------------------

(* uart_init: regs[2] = 1, everything else zero.                           *)
Init ==
  /\ ier = {} /\ iir = 1
  /\ waiting = FALSE /\ uart_timeout = 0 /\ tx_empty = TRUE /\ line = FALSE
  /\ thread = [t \in Threads |-> At("begin")]
  /\ hart = "idle"

Sending(t) == SendTest(t) \/ SendIir(t) \/ SendLine(t) \/ SendThre(t)
Main == NoInput \/ Input \/ Timeout \/ CheckTx \/ Sending("main")
Loop == Flushed \/ Sending("loop")
Access == ClearInt("readClear", "idle") \/ ClearInt("writeClear", "put") \/ Put
Guest == ReadRbr \/ ReadIir \/ WriteThr \/ WriteIer \/ WriteFcr \/ Claim

Next == Main \/ Loop \/ Access \/ Guest

Spec == Init /\ [][Next]_vars

(* The threads are scheduled; what the guest accesses, and when, is open.  *)
FairSpec == Spec /\ WF_vars(Main) /\ WF_vars(Loop) /\ WF_vars(Access)

-----------------------------------------------------------------------------
(* Properties.                                                             *)

(* The types of the variables; IIR shows what the code or FCR put there.   *)
TypeOK ==
  /\ ier \subseteq Causes /\ iir \in {1, 2, 4} \cup FcrNibbles
  /\ uart_timeout \in 0 .. RX_TIMEOUT
  /\ {waiting, tx_empty, line} \subseteq BOOLEAN

(* Waiting input reaches the PLIC, by level or by time-out, unless the     *)
(* guest reads it first or IIR shows a cause that uart_int_prio ranks      *)
(* higher: updates of IIR lost to other threads are made up for.           *)
InputAnnounced == waiting ~> (line \/ ~waiting \/ Outranked("rx"))

(* Transmitter interrupts that stay enabled keep reaching the PLIC, from   *)
(* one thread or the other, so that a transmitter cause that outranks the  *)
(* receiver's cannot silence the UART; only a nibble written to FCR can.   *)
ThreAnnounced == "thre" \in ier ~> (line \/ "thre" \notin ier \/ Outranked("thre"))

==============================================================================
