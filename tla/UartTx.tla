------------------------------- MODULE UartTx --------------------------------
(***************************************************************************)
(* The transmit side of the UART: harts that write THR, the uart_loop      *)
(* thread that prints the buffer, the main thread's periodic uart_chk and  *)
(* its shutdown.  Every step is one access to shared memory (or one        *)
(* critical section of uart_mtx), in the order in which the build performs *)
(* them; tx_required, tx_offset, output and regs[5] are plain variables    *)
(* the threads share.  Sources: uart.cpp, main.cpp.                        *)
(*                                                                         *)
(* The IER/IIR interrupt side and the receiver are not part of this        *)
(* module: they share no variable with it but regs[5].  Its receive bit is *)
(* left out; that a read of any register loads regs[5] and stores it back  *)
(* for the sake of that bit is not.                                        *)
(***************************************************************************)
EXTENDS Integers, Sequences, FiniteSetsExt

CONSTANTS
  Writers,     \* harts that write to the UART
  IBUF_SIZE,   \* size of the output buffer (16 in the code)
  MaxWrites,   \* bound: characters the guest writes
  MaxSpurious, \* bound: spurious wakeups of the condition variable
  LsrWrites    \* bound: the values of TxBits the guest writes to LSR

ASSUME BufferAssumption == IBUF_SIZE \in Nat /\ IBUF_SIZE >= 2
ASSUME WriteBoundAssumption == MaxWrites \in Nat /\ MaxSpurious \in Nat

(* A character is its position in the guest's output and whether it is a   *)
(* line feed; NUL ends the C string pty_print prints.                      *)
NUL == [n |-> 0, lf |-> FALSE]
Chars == [n : 0 .. MaxWrites, lf : BOOLEAN]
Slots == 0 .. IBUF_SIZE - 1
TxBits == {"THRE", "TEMT"}    \* bits 5 and 6 of the line status register

ASSUME LsrAssumption == LsrWrites \subseteq SUBSET TxBits

VARIABLES
  output, tx_offset, tx_required, uart_end,   \* uart.cpp globals
  lsr,             \* the transmitter bits of regs[5] that are 1
  interrupted,     \* main.cpp: set by the SIGINT handler
  hart,            \* per writer: program counter and registers
  loop, loop_lsr,  \* uart_loop: program counter, register
  loop_cut,        \* uart_loop: the line feed cut off, as a sequence
  main, main_lsr,  \* main thread: program counter, register
  spurious,        \* spurious wakeups so far
  written,         \* characters the guest has written so far
  printed          \* positions of the characters printed, in order

buffer == <<output, tx_offset>>
loop_regs == <<loop_lsr, loop_cut>>
flags == <<tx_required, uart_end, interrupted>>
history == <<spurious, written, printed>>
vars == <<buffer, flags, lsr, hart, loop, loop_regs, main, main_lsr, history>>

HartPc == {"idle", "spin", "load", "storeChar", "storeOffset", "lsrLoad",
           "lsrTemt", "lsrThre", "flush", "poll", "exited"}
HartRegs == [pc : HartPc, chr : Chars, off : Nat, lsr : SUBSET TxBits]
LoopPc == {"woken", "check", "block", "blocked", "test", "print",
           "reset", "memset", "lsrLoad", "lsrStore", "clear", "exited"}
MainPc == {"chk", "required", "flush", "lsrLoad", "lsrStore", "joinHarts",
           "setEnd", "notifyAll", "joinUart", "done"}

(* The mutex is held by uart_loop except while it waits; the critical      *)
(* sections of the other threads are single steps.                         *)
MutexFree == loop \in {"woken", "blocked", "exited"}

(* notify_one/notify_all: only a thread already blocked is woken.          *)
Notified == IF loop = "blocked" THEN "woken" ELSE loop

-----------------------------------------------------------------------------
(* A hart's store to THR (uart_w, offset 0).                               *)

Idle == [pc |-> "idle", chr |-> NUL, off |-> 0, lsr |-> {}]   \* registers dead

Goto(h, pc) == hart' = [hart EXCEPT ![h].pc = pc]
Return(h) == hart' = [hart EXCEPT ![h] = Idle]

WriteThr(h) ==
  /\ hart[h].pc = "idle" /\ written < MaxWrites
  /\ \E lf \in BOOLEAN :
       hart' = [hart EXCEPT ![h].pc = "spin",
                            ![h].chr = [n |-> written + 1, lf |-> lf]]
  /\ written' = written + 1
  /\ UNCHANGED <<buffer, flags, lsr, loop, loop_regs, main, main_lsr, spurious, printed>>

(* while (tx_required);                                                    *)
SpinExit(h) ==
  /\ hart[h].pc = "spin" /\ ~tx_required
  /\ Goto(h, "load")
  /\ UNCHANGED <<buffer, flags, lsr, loop, loop_regs, main, main_lsr, history>>

LoadOffset(h) ==
  /\ hart[h].pc = "load"
  /\ hart' = [hart EXCEPT ![h].pc = "storeChar", ![h].off = tx_offset]
  /\ UNCHANGED <<buffer, flags, lsr, loop, loop_regs, main, main_lsr, history>>

(* output[tx_offset] = data_char; a store past the end misses the buffer.  *)
StoreChar(h) ==
  /\ hart[h].pc = "storeChar"
  /\ Goto(h, "storeOffset")
  /\ output' = [i \in Slots |-> IF i = hart[h].off THEN hart[h].chr ELSE output[i]]
  /\ UNCHANGED <<tx_offset, flags, lsr, loop, loop_regs, main, main_lsr, history>>

(* tx_offset++, from the register loaded before the character was stored.  *)
StoreOffset(h) ==
  /\ hart[h].pc = "storeOffset"
  /\ Goto(h, "lsrLoad")
  /\ tx_offset' = hart[h].off + 1
  /\ UNCHANGED <<output, flags, lsr, loop, loop_regs, main, main_lsr, history>>

LsrLoad(h) ==
  /\ hart[h].pc = "lsrLoad"
  /\ hart' = [hart EXCEPT ![h].pc = "lsrTemt", ![h].lsr = lsr]
  /\ UNCHANGED <<buffer, flags, lsr, loop, loop_regs, main, main_lsr, history>>

(* Mutant: no slot is kept for the terminating NUL.                        *)
MustFlushLate(h) == hart[h].off + 1 >= IBUF_SIZE \/ hart[h].chr.lf

(* The buffer is full or the line complete (register values, not re-read). *)
MustFlush(h) == hart[h].off + 1 >= IBUF_SIZE - 1 \/ hart[h].chr.lf

LsrClearTemt(h) ==
  /\ hart[h].pc = "lsrTemt"
  /\ lsr' = hart[h].lsr \ {"TEMT"}
  /\ IF MustFlush(h) THEN Goto(h, "lsrThre") ELSE Return(h)
  /\ UNCHANGED <<buffer, flags, loop, loop_regs, main, main_lsr, history>>

LsrClearThre(h) ==
  /\ hart[h].pc = "lsrThre"
  /\ lsr' = hart[h].lsr \ TxBits
  /\ Goto(h, "flush")
  /\ UNCHANGED <<buffer, flags, loop, loop_regs, main, main_lsr, history>>

(* lock_guard; tx_required = true; notify_one.                             *)
HartFlush(h) ==
  /\ hart[h].pc = "flush" /\ MutexFree
  /\ tx_required' = TRUE
  /\ loop' = Notified
  /\ Return(h)
  /\ UNCHANGED <<buffer, uart_end, interrupted, lsr, loop_regs, main, main_lsr, history>>

(* uart_r, any offset: for the sake of the receive bit regs[5] is loaded   *)
(* and stored back with the transmitter's bits as they were.               *)
PollLoad(h) ==
  /\ hart[h].pc = "idle"
  /\ hart' = [hart EXCEPT ![h].pc = "poll", ![h].lsr = lsr]
  /\ UNCHANGED <<buffer, flags, lsr, loop, loop_regs, main, main_lsr, history>>

PollStore(h) ==
  /\ hart[h].pc = "poll"
  /\ lsr' = hart[h].lsr
  /\ Return(h)
  /\ UNCHANGED <<buffer, flags, loop, loop_regs, main, main_lsr, history>>

(* uart_w, offset 5: the guest may write LSR like any other register.      *)
WriteLsr(h) ==
  /\ hart[h].pc = "idle"
  /\ lsr' \in LsrWrites
  /\ UNCHANGED <<buffer, flags, hart, loop, loop_regs, main, main_lsr, history>>

(* hart_loop ends once the instruction in progress is finished.            *)
HartExit(h) ==
  /\ hart[h].pc = "idle" /\ interrupted
  /\ Goto(h, "exited")
  /\ UNCHANGED <<buffer, flags, lsr, loop, loop_regs, main, main_lsr, history>>

(* In signature mode, cycle() returns false at the instruction that halts  *)
(* the machine: the hart leaves hart_loop and stops everyone else.         *)
HartHalt(h) ==
  /\ hart[h].pc = "idle"
  /\ Goto(h, "exited")
  /\ interrupted' = TRUE
  /\ UNCHANGED <<buffer, tx_required, uart_end, lsr, loop, loop_regs, main, main_lsr, history>>

HartStep(h) ==
  \/ SpinExit(h) \/ LoadOffset(h) \/ StoreChar(h) \/ StoreOffset(h)
  \/ LsrLoad(h) \/ LsrClearTemt(h) \/ LsrClearThre(h) \/ HartFlush(h) \/ PollStore(h)
  \/ HartExit(h)

-----------------------------------------------------------------------------
(* uart_loop.                                                              *)

LoopGoto(pc) == loop' = pc

(* Thread start, or the return of cv.wait: take the mutex.                 *)
LoopLock ==
  /\ loop = "woken"
  /\ LoopGoto("check")
  /\ UNCHANGED <<buffer, flags, lsr, hart, loop_regs, main, main_lsr, history>>

(* Mutant: the thread ends with the harts, not after them.                 *)
LoopCheckInterrupted ==
  /\ loop = "check"
  /\ LoopGoto(IF interrupted THEN "exited" ELSE IF tx_required THEN "test" ELSE "block")
  /\ UNCHANGED <<buffer, flags, lsr, hart, loop_regs, main, main_lsr, history>>

(* The predicate of cv.wait, evaluated with the mutex held.                *)
LoopCheck ==
  /\ loop = "check"
  /\ LoopGoto(IF uart_end THEN "exited" ELSE IF tx_required THEN "test" ELSE "block")
  /\ UNCHANGED <<buffer, flags, lsr, hart, loop_regs, main, main_lsr, history>>

(* cv.wait blocks and releases the mutex in one step.                      *)
LoopBlock ==
  /\ loop = "block"
  /\ LoopGoto("blocked")
  /\ UNCHANGED <<buffer, flags, lsr, hart, loop_regs, main, main_lsr, history>>

(* A condition variable may wake up without a notification.                *)
SpuriousWakeup ==
  /\ loop = "blocked" /\ spurious < MaxSpurious
  /\ LoopGoto("woken")
  /\ spurious' = spurious + 1
  /\ UNCHANGED <<buffer, flags, lsr, hart, loop_regs, main, main_lsr, written, printed>>

CharAt(i) == IF i \in Slots THEN output[i] ELSE NUL

(* if (output[tx_offset] == 0xa) output[tx_offset] = 0;                    *)
LoopTest ==
  /\ loop = "test"
  /\ LoopGoto("print")
  /\ output' = IF CharAt(tx_offset).lf THEN [output EXCEPT ![tx_offset] = NUL]
                                       ELSE output
  /\ loop_cut' = IF CharAt(tx_offset).lf THEN <<CharAt(tx_offset).n>> ELSE <<>>
  /\ UNCHANGED <<tx_offset, flags, lsr, hart, loop_lsr, main, main_lsr, history>>

(* The C string in output: the characters before the first NUL.            *)
TextLength == Min({IBUF_SIZE} \cup {k \in Slots : output[k] = NUL})
Text == [i \in 1 .. TextLength |-> output[i - 1].n]

(* pty_print(output), followed by pty_endl() for the line feed cut off.    *)
LoopPrint ==
  /\ loop = "print"
  /\ printed' = printed \o Text \o loop_cut
  /\ loop_cut' = <<>>
  /\ LoopGoto("reset")
  /\ UNCHANGED <<buffer, flags, lsr, hart, loop_lsr, main, main_lsr, spurious, written>>

LoopReset ==
  /\ loop = "reset"
  /\ tx_offset' = 0
  /\ LoopGoto("memset")
  /\ UNCHANGED <<output, flags, lsr, hart, loop_regs, main, main_lsr, history>>

(* Mutant: the printed text stays in the buffer.                           *)
LoopMemsetSkip ==
  /\ loop = "memset"
  /\ LoopGoto("lsrLoad")
  /\ UNCHANGED <<buffer, flags, lsr, hart, loop_regs, main, main_lsr, history>>

LoopMemset ==
  /\ loop = "memset"
  /\ output' = [i \in Slots |-> NUL]
  /\ LoopGoto("lsrLoad")
  /\ UNCHANGED <<tx_offset, flags, lsr, hart, loop_regs, main, main_lsr, history>>

LoopLsrLoad ==
  /\ loop = "lsrLoad"
  /\ loop_lsr' = lsr
  /\ LoopGoto("lsrStore")
  /\ UNCHANGED <<buffer, flags, lsr, hart, loop_cut, main, main_lsr, history>>

LoopLsrStore ==
  /\ loop = "lsrStore"
  /\ lsr' = loop_lsr \cup TxBits
  /\ loop_lsr' = {}
  /\ LoopGoto("clear")
  /\ UNCHANGED <<buffer, flags, hart, loop_cut, main, main_lsr, history>>

(* Mutant: the request is not cleared.                                     *)
LoopClearSkip ==
  /\ loop = "clear"
  /\ LoopGoto("check")
  /\ UNCHANGED <<buffer, flags, lsr, hart, loop_regs, main, main_lsr, history>>

LoopClear ==
  /\ loop = "clear"
  /\ tx_required' = FALSE
  /\ LoopGoto("check")
  /\ UNCHANGED <<buffer, uart_end, interrupted, lsr, hart, loop_regs, main, main_lsr, history>>

LoopStep ==
  \/ LoopLock \/ LoopCheck \/ LoopBlock \/ LoopTest \/ LoopPrint \/ LoopReset
  \/ LoopMemset \/ LoopLsrLoad \/ LoopLsrStore \/ LoopClear

-----------------------------------------------------------------------------
(* The main thread: uart_chk every 5 ms until interrupted, then shutdown.  *)

MainGoto(pc) == main' = pc

(* while (!interrupted) ... uart_chk: if (tx_offset == 0).                 *)
ChkOffset ==
  /\ main = "chk" /\ ~interrupted
  /\ MainGoto(IF tx_offset = 0 THEN "lsrLoad" ELSE "required")
  /\ UNCHANGED <<buffer, flags, lsr, hart, loop, loop_regs, main_lsr, history>>

ChkLsrLoad ==
  /\ main = "lsrLoad"
  /\ main_lsr' = lsr
  /\ MainGoto("lsrStore")
  /\ UNCHANGED <<buffer, flags, lsr, hart, loop, loop_regs, history>>

(* Mutant: uart_chk restores only the empty bit.                           *)
ChkLsrStoreTemt ==
  /\ main = "lsrStore"
  /\ lsr' = main_lsr \cup {"TEMT"}
  /\ main_lsr' = {}
  /\ MainGoto("chk")
  /\ UNCHANGED <<buffer, flags, hart, loop, loop_regs, history>>

ChkLsrStore ==
  /\ main = "lsrStore"
  /\ lsr' = main_lsr \cup TxBits
  /\ main_lsr' = {}
  /\ MainGoto("chk")
  /\ UNCHANGED <<buffer, flags, hart, loop, loop_regs, history>>

(* Mutant: the condition of the flush is inverted.                         *)
ChkRequiredInverted ==
  /\ main = "required"
  /\ MainGoto(IF tx_required THEN "flush" ELSE "chk")
  /\ UNCHANGED <<buffer, flags, lsr, hart, loop, loop_regs, main_lsr, history>>

(* else if (tx_required == false), read without the mutex.                 *)
ChkRequired ==
  /\ main = "required"
  /\ MainGoto(IF tx_required THEN "chk" ELSE "flush")
  /\ UNCHANGED <<buffer, flags, lsr, hart, loop, loop_regs, main_lsr, history>>

ChkFlush ==
  /\ main = "flush" /\ MutexFree
  /\ tx_required' = TRUE
  /\ loop' = Notified
  /\ MainGoto("chk")
  /\ UNCHANGED <<buffer, uart_end, interrupted, lsr, hart, loop_regs, main_lsr, history>>

ChkInterrupted ==
  /\ main = "chk" /\ interrupted
  /\ MainGoto("joinHarts")
  /\ UNCHANGED <<buffer, flags, lsr, hart, loop, loop_regs, main_lsr, history>>

JoinHarts ==
  /\ main = "joinHarts" /\ \A h \in Writers : hart[h].pc = "exited"
  /\ MainGoto("setEnd")
  /\ UNCHANGED <<buffer, flags, lsr, hart, loop, loop_regs, main_lsr, history>>

(* uart_uninit: neither the flag nor the notification takes uart_mtx.      *)
SetEnd ==
  /\ main = "setEnd"
  /\ uart_end' = TRUE
  /\ MainGoto("notifyAll")
  /\ UNCHANGED <<buffer, tx_required, interrupted, lsr, hart, loop, loop_regs, main_lsr, history>>

NotifyAll ==
  /\ main = "notifyAll"
  /\ loop' = Notified
  /\ MainGoto("joinUart")
  /\ UNCHANGED <<buffer, flags, lsr, hart, loop_regs, main_lsr, history>>

JoinUart ==
  /\ main = "joinUart" /\ loop = "exited"
  /\ MainGoto("done")
  /\ UNCHANGED <<buffer, flags, lsr, hart, loop, loop_regs, main_lsr, history>>

MainStep ==
  \/ ChkOffset \/ ChkLsrLoad \/ ChkLsrStore \/ ChkRequired \/ ChkFlush
  \/ ChkInterrupted \/ JoinHarts \/ SetEnd \/ NotifyAll \/ JoinUart

(* sigint_handler.                                                         *)
Sigint ==
  /\ ~interrupted
  /\ interrupted' = TRUE
  /\ UNCHANGED <<buffer, tx_required, uart_end, lsr, hart, loop, loop_regs, main, main_lsr, history>>

-----------------------------------------------------------------------------

(* uart_init, with the thread just started.                                *)
Init ==
  /\ output = [i \in Slots |-> NUL] /\ tx_offset = 0
  /\ tx_required = FALSE /\ uart_end = FALSE /\ interrupted = FALSE
  /\ lsr = TxBits
  /\ hart = [h \in Writers |-> Idle]
  /\ loop = "woken" /\ loop_lsr = {} /\ loop_cut = <<>>
  /\ main = "chk" /\ main_lsr = {}
  /\ spurious = 0 /\ written = 0 /\ printed = <<>>

Next ==
  \/ \E h \in Writers :
       WriteThr(h) \/ PollLoad(h) \/ WriteLsr(h) \/ HartStep(h) \/ HartHalt(h)
  \/ LoopStep
  \/ SpuriousWakeup
  \/ MainStep
  \/ Sigint

Spec == Init /\ [][Next]_vars

(* Threads are scheduled and sleep_for returns, and hart_loop looks at     *)
(* `interrupted` between any two instructions (SF); nothing makes the      *)
(* guest access the UART, the user interrupt, or a spurious wakeup happen. *)
Fairness ==
  /\ \A h \in Writers : WF_vars(HartStep(h)) /\ SF_vars(HartExit(h))
  /\ WF_vars(LoopStep)
  /\ WF_vars(MainStep)

FairSpec == Spec /\ Fairness

-----------------------------------------------------------------------------
(* Properties.                                                             *)

(* The types of the variables.                                             *)
TypeOK ==
  /\ output \in [Slots -> Chars] /\ tx_offset \in Nat
  /\ tx_required \in BOOLEAN /\ uart_end \in BOOLEAN /\ interrupted \in BOOLEAN
  /\ lsr \subseteq TxBits /\ loop_lsr \subseteq TxBits /\ main_lsr \subseteq TxBits
  /\ hart \in [Writers -> HartRegs]
  /\ loop \in LoopPc /\ main \in MainPc
  /\ loop_cut \in Seq(Nat) /\ spurious \in 0 .. MaxSpurious
  /\ written \in 0 .. MaxWrites /\ printed \in Seq(Nat)

(* The writer's unguarded index never leaves the buffer and never reaches  *)
(* its last slot, so output stays a NUL-terminated string for pty_print,   *)
(* whatever uart_chk and uart_loop do between the writer's accesses.       *)
TxInBounds ==
  /\ tx_offset < IBUF_SIZE
  /\ output[IBUF_SIZE - 1] = NUL
  /\ \A h \in Writers : hart[h].pc = "storeChar" => hart[h].off < IBUF_SIZE - 1

(* Characters reach the terminal in the order written and none twice, even *)
(* when a flush by uart_chk races with uart_w.                             *)
PrintedInOrder ==
  \A i, j \in 1 .. Len(printed) : i < j => printed[i] < printed[j]

(* Nothing is in progress anywhere: no write, no flush, no text buffered.  *)
Quiescent ==
  /\ \A h \in Writers : hart[h].pc = "idle"
  /\ main = "chk" /\ loop = "blocked" /\ ~tx_required /\ tx_offset = 0

(* The spin on tx_required protects the buffer: once everything has been   *)
(* flushed, everything written has been printed.                           *)
NothingLost == Quiescent => Len(printed) = written

(* A hart that spins on tx_required gets on: no wakeup of uart_loop is     *)
(* lost and no flush request comes back for ever.                          *)
SpinEnds == \A h \in Writers : hart[h].pc = "spin" ~> hart[h].pc # "spin"

(* Text without a line feed is printed too: the periodic uart_chk flushes  *)
(* what the writers leave behind.                                          *)
TextDrains == tx_offset # 0 ~> (tx_offset = 0 \/ interrupted)

(* uart_chk restores the bits while no poll is between its load and store. *)
CleanChk == ChkLsrStore /\ \A h \in Writers : hart[h].pc # "poll"

(* A driver that waits for the transmitter by polling sees LSR report it   *)
(* empty, for good: the guest's writing ends (MaxWrites, and no writes of  *)
(* LSR for ever) and its polls, each of which stores old bits back, do not *)
(* collide with every update by uart_chk.  From then on no thread stores   *)
(* back a value from before the bits were set.                             *)
ThreReturns ==
  /\ <>[][~ \E h \in Writers : WriteLsr(h)]_vars
  /\ []<><<ChkLsrStore>>_vars => []<><<CleanChk>>_vars
  => <>[](TxBits \subseteq lsr \/ interrupted)

(* A hart announces the flush that its next write will spin on, so the     *)
(* UART thread has to outlive the harts: after an interrupt every hart     *)
(* leaves its spin and is joined, and the program ends.  The one thing     *)
(* that can stop it is a wake-up lost in uart_uninit, whose notification   *)
(* does not take the mutex of the wait.                                    *)
ShutdownEnds ==
  interrupted ~> (main = "done" \/ (main = "joinUart" /\ loop = "blocked"))

==============================================================================
