------------------------------- MODULE UartRx --------------------------------
(***************************************************************************)
(* The receive side of the UART: the main thread's periodic uart_chk takes *)
(* characters into the input ring, a hart reads them, and both, with the   *)
(* UART thread, update LSR.  A step is one access to a variable the        *)
(* threads share, in the order in which the build performs them.           *)
(* Source: uart.cpp.  What the receiver announces is UartInt's business.   *)
(***************************************************************************)
EXTENDS Integers

CONSTANTS
  IBUF_SIZE,    \* size of the input buffer (16 in the code)
  MaxIn         \* bound: characters typed

ASSUME RxAssumption == IBUF_SIZE \in Nat \ {0} /\ MaxIn \in Nat

VARIABLES
  ring,           \* the characters (by number) from input_buffer on; 0 is none of them
  read_ptr, write_ptr, pending_in, dlab,   \* uart.cpp globals
  dr,             \* bit 0 of regs[5], data ready
  main, loop,     \* the two threads: program counter and register
  hart,           \* the hart: program counter and register
  typed, taken,   \* characters typed, slots of the ring read
  got,            \* what the last of these reads returned
  harm            \* what has happened so far that may lose input

ringVars == <<ring, read_ptr, write_ptr>>
history == <<typed, taken, got, harm>>
threads == <<main, loop, hart>>
vars == <<ringVars, pending_in, dlab, dr, threads, history>>

(* The ring wraps when a pointer is more than IBUF_SIZE past the start, so *)
(* that it has one slot more than input_buffer has bytes.                  *)
Slots == 0 .. IBUF_SIZE

(* Mutant: the pointer wraps a slot later.                                 *)
WrapLate(p) == IF p > IBUF_SIZE + 1 THEN 0 ELSE p

Wrap(p) == IF p > IBUF_SIZE THEN 0 ELSE p

(* Registers are dead between the statements of a thread.                  *)
At(pc) == [pc |-> pc, reg |-> 0]

Happens(what, cond) == harm' = IF cond THEN harm \cup {what} ELSE harm

-----------------------------------------------------------------------------
(* The main thread: uart_chk.                                              *)

NoInput ==
  /\ main.pc = "getc"
  /\ main' = At("lsrLoad")
  /\ UNCHANGED <<ringVars, pending_in, dlab, dr, loop, hart, history>>

(* *write_ptr = ch; write_ptr++.  Nobody asks whether the slot is free.    *)
Input ==
  /\ main.pc = "getc" /\ typed < MaxIn
  /\ ring' = [ring EXCEPT ![write_ptr] = typed + 1]
  /\ write_ptr' = write_ptr + 1
  /\ typed' = typed + 1
  /\ Happens("overrun", typed - taken > IBUF_SIZE)
  /\ main' = At("countLoad")
  /\ UNCHANGED <<read_ptr, pending_in, dlab, dr, loop, hart, taken, got>>

(* pending_in++, while the hart may be in pending_in--.                    *)
CountLoad ==
  /\ main.pc = "countLoad"
  /\ main' = [pc |-> "countStore", reg |-> pending_in]
  /\ Happens("count", hart.pc \in {"take", "storeCount"})
  /\ UNCHANGED <<ringVars, pending_in, dlab, dr, loop, hart, typed, taken, got>>

CountStore ==
  /\ main.pc = "countStore"
  /\ pending_in' = main.reg + 1
  /\ main' = At("trigger")
  /\ UNCHANGED <<ringVars, dlab, dr, loop, hart, history>>

(* After the test of the trigger level, which is in UartInt.               *)
TriggerWrap ==
  /\ main.pc = "trigger"
  /\ write_ptr' = Wrap(write_ptr)
  /\ main' = At("lsrLoad")
  /\ UNCHANGED <<ring, read_ptr, pending_in, dlab, dr, loop, hart, history>>

(* regs[5] |= 0b1100000 stores the receive bit back as it was loaded; with *)
(* text to send, uart_chk does something else instead.                     *)
ChkLsrLoad ==
  /\ main.pc = "lsrLoad"
  /\ main' \in {At("getc"), [pc |-> "lsrStore", reg |-> dr]}
  /\ UNCHANGED <<ringVars, pending_in, dlab, dr, loop, hart, history>>

ChkLsrStore ==
  /\ main.pc = "lsrStore"
  /\ dr' = main.reg
  /\ main' = At("getc")
  /\ UNCHANGED <<ringVars, pending_in, dlab, loop, hart, history>>

(* uart_loop does the same after a flush.                                  *)
LoopLsrLoad ==
  /\ loop.pc = "flush"
  /\ loop' = [pc |-> "lsrStore", reg |-> dr]
  /\ UNCHANGED <<ringVars, pending_in, dlab, dr, main, hart, history>>

LoopLsrStore ==
  /\ loop.pc = "lsrStore"
  /\ dr' = loop.reg
  /\ loop' = At("flush")
  /\ UNCHANGED <<ringVars, pending_in, dlab, main, hart, history>>

-----------------------------------------------------------------------------
(* The hart: uart_r.                                                       *)

(* Mutant: a read of the divisor latch takes a character, too, and without *)
(* looking at the count.                                                   *)
ReadRbrAlways ==
  /\ hart.pc = "idle"
  /\ hart' = [pc |-> "take", reg |-> pending_in]
  /\ Happens("count", main.pc = "countStore")
  /\ UNCHANGED <<ringVars, pending_in, dlab, dr, main, loop, typed, taken, got>>

(* Offset 0.  The count is loaded once, for the test and for pending_in--. *)
ReadRbr ==
  /\ hart.pc = "idle"
  /\ IF dlab \/ pending_in = 0
     THEN hart' = At("tail") /\ UNCHANGED harm
     ELSE hart' = [pc |-> "take", reg |-> pending_in] /\ Happens("count", main.pc = "countStore")
  /\ UNCHANGED <<ringVars, pending_in, dlab, dr, main, loop, typed, taken, got>>

(* output_byte = *read_ptr++, with the wrap.                               *)
Take ==
  /\ hart.pc = "take"
  /\ got' = ring[read_ptr]
  /\ taken' = taken + 1
  /\ read_ptr' = Wrap(read_ptr + 1)
  /\ hart' = [hart EXCEPT !.pc = "storeCount"]
  /\ UNCHANGED <<ring, write_ptr, pending_in, dlab, dr, main, loop, typed, harm>>

(* Mutant: the count is not decremented.                                   *)
StoreCountSkip ==
  /\ hart.pc = "storeCount"
  /\ hart' = At("tail")
  /\ UNCHANGED <<ringVars, pending_in, dlab, dr, main, loop, history>>

StoreCount ==
  /\ hart.pc = "storeCount"
  /\ pending_in' = hart.reg - 1
  /\ hart' = At("tail")
  /\ UNCHANGED <<ringVars, dlab, dr, main, loop, history>>

(* The other offsets; what they do to IIR is in UartInt.                   *)
ReadOther ==
  /\ hart.pc = "idle"
  /\ hart' = At("tail")
  /\ UNCHANGED <<ringVars, pending_in, dlab, dr, main, loop, history>>

(* Mutant: the receive bit is taken away and never given.                  *)
TailTestClear ==
  /\ hart.pc = "tail"
  /\ hart' = [pc |-> "lsrStore", reg |-> IF pending_in > 0 THEN dr ELSE 0]
  /\ UNCHANGED <<ringVars, pending_in, dlab, dr, main, loop, history>>

(* Every read ends by bringing the receive bit up to date: after the test  *)
(* of the count regs[5] is loaded and stored.  The load is of the other    *)
(* bits' concern (UartTx); bit 0 is decided by the test.                   *)
TailTest ==
  /\ hart.pc = "tail"
  /\ hart' = [pc |-> "lsrStore", reg |-> IF pending_in > 0 THEN 1 ELSE 0]
  /\ UNCHANGED <<ringVars, pending_in, dlab, dr, main, loop, history>>

TailStore ==
  /\ hart.pc = "lsrStore"
  /\ dr' = hart.reg
  /\ hart' = At("idle")
  /\ UNCHANGED <<ringVars, pending_in, dlab, main, loop, history>>

(* uart_w, offset 0: each `regs[5] &= ~bits` stores the receive bit back   *)
(* as it was loaded.                                                       *)
WriteThr ==
  /\ hart.pc = "idle"
  /\ hart' = [pc |-> "thrStore", reg |-> dr]
  /\ UNCHANGED <<ringVars, pending_in, dlab, dr, main, loop, history>>

ThrStore ==
  /\ hart.pc = "thrStore"
  /\ dr' = hart.reg
  /\ hart' = At("idle")
  /\ UNCHANGED <<ringVars, pending_in, dlab, main, loop, history>>

(* uart_w, offset 5: the guest may write LSR like any other register.      *)
WriteLsr ==
  /\ hart.pc = "idle"
  /\ dr' \in {0, 1}
  /\ UNCHANGED <<ringVars, pending_in, dlab, threads, history>>

(* uart_w, offset 3.                                                       *)
WriteLcr ==
  /\ hart.pc = "idle"
  /\ dlab' \in BOOLEAN
  /\ UNCHANGED <<ringVars, pending_in, dr, threads, history>>

(* The byte behind input_buffer belongs to another variable (in the build  *)
(* the handler_output of the ACLINT), which the hart writes when it likes. *)
Neighbour ==
  /\ hart.pc = "idle"
  /\ ring' = [ring EXCEPT ![IBUF_SIZE] = 0]
  /\ Happens("neighbour", ring[IBUF_SIZE] > taken)
  /\ UNCHANGED <<read_ptr, write_ptr, pending_in, dlab, dr, threads, typed, taken, got>>

-----------------------------------------------------------------------------

(* uart_init: both pointers at the start, the globals zero.                *)
Init ==
  /\ ring = [i \in Slots |-> 0] /\ read_ptr = 0 /\ write_ptr = 0
  /\ pending_in = 0 /\ dlab = FALSE /\ dr = 0
  /\ main = At("getc") /\ loop = At("flush") /\ hart = At("idle")
  /\ typed = 0 /\ taken = 0 /\ got = 0 /\ harm = {}

Main ==
  NoInput \/ Input \/ CountLoad \/ CountStore \/ TriggerWrap \/ ChkLsrLoad \/ ChkLsrStore
Loop == LoopLsrLoad \/ LoopLsrStore
Access == Take \/ StoreCount \/ TailTest \/ TailStore \/ ThrStore
Guest == ReadRbr \/ ReadOther \/ WriteLcr \/ WriteThr \/ WriteLsr \/ Neighbour

Next == Main \/ Loop \/ Access \/ Guest

Spec == Init /\ [][Next]_vars

(* The threads are scheduled; what the guest accesses, and when, is open,  *)
(* and so is when there is something to flush.                             *)
FairSpec == Spec /\ WF_vars(Main) /\ WF_vars(Access) /\ WF_vars(LoopLsrStore)

-----------------------------------------------------------------------------
(* Properties.                                                             *)

(* The types of the variables; the pointers stay where the ring has slots. *)
TypeOK ==
  /\ ring \in [Slots -> 0 .. MaxIn] /\ read_ptr \in Slots
  /\ write_ptr \in (IF main.pc \in {"getc", "lsrLoad", "lsrStore"}
                    THEN Slots ELSE 1 .. IBUF_SIZE + 1)
  /\ pending_in \in 0 .. MaxIn /\ dr \in {0, 1} /\ dlab \in BOOLEAN
  /\ harm \subseteq {"overrun", "count", "neighbour"}

(* The count is what has been typed and not yet read as long as the main   *)
(* thread's pending_in++ and the hart's pending_in-- do not overlap.       *)
CountExact ==
  "count" \notin harm =>
    pending_in = typed - (IF main.pc \in {"countLoad", "countStore"} THEN 1 ELSE 0)
                       - taken + (IF hart.pc = "storeCount" THEN 1 ELSE 0)

(* There are three ways to lose or garble input: overlapping updates of    *)
(* the count, more characters waiting than slots, and the neighbour of the *)
(* buffer.  Until one of them happens the guest reads what was typed, in   *)
(* order.                                                                  *)
ReadInOrder == harm = {} => got = taken

(* The end of a read, with neither of the other threads between its load   *)
(* and its store of regs[5].                                               *)
CleanTail == TailStore /\ main.pc # "lsrStore" /\ loop.pc # "lsrStore"

(* LSR shows input that stays unread, for good: the guest keeps reading    *)
(* registers, not every one of its reads collides with an update of LSR by *)
(* the other threads, and it does not write LSR for ever.  From then on    *)
(* no store of an old value takes the bit away, however the two threads'   *)
(* updates and the guest's reads and writes interleave.                    *)
PollingWorks ==
  []<><<CleanTail>>_vars /\ <>[][~WriteLsr]_vars
    => (<>[](pending_in > 0) => <>[](dr = 1))

==============================================================================
