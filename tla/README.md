# TLA+ models of rv-emu

rv-emu emulates a RISC-V machine (RV64IMAC, M/S/U modes, Sv39/48/57, PMP, ACLINT,
PLIC, a 16550 UART): one thread per hart, a UART output thread, and the main thread,
which polls the devices every few milliseconds. These modules model the parts of it
that keep state and decide something: fetch, decoding and arithmetic, protection,
translation, traps, atomics and the devices' interplay with the harts. TLC checks them on small instances; TLAPS proves
the theorems listed below for every value of the constants.

`PROJECT.json` lists the components, the runs, which source lines every definition
stands for, and the hazards the properties are aimed at.

## 1. The system: inventory

| Component | State | Operations | Interaction | Hard because |
|---|---|---|---|---|
| PMP (`mem.cpp`, `pmpcfg_rw`) | `pmpcfg`, `pmpaddr`, `pmp_lockedaddr`; the copy `pmp_expanded` with `min_lbound`, `max_ubound`, `pmp_all_enabled` | CSR writes, `sync_exp_pmp`, `chk_pmp_exp`, `chk_pmp_range_exp` | every memory access | the checks use a copy; a short circuit uses a summary of the copy |
| Translation (`page_table_walk`, `tlb_*`, `mem.ipp`) | TLB, `satp`, page tables in memory, `mem_status` | walk, hit, fill, SFENCE.VMA | uses PMP; LR/SC walk once more | stale entries; permission checks stated twice; `mem_status` is both argument and result |
| Traps (`hartexc.cpp`, SYSTEM in `cpu.cpp`) | `privmode`, `mstatus`, `mip`, `mie`, `sie`, delegation, `chk_int` | traps, MRET/SRET/WFI, CSR writes, `setup_pending_int` | devices write `mip`; the main thread sets `chk_int` | an interrupt may become deliverable in many ways, each must be noticed |
| Atomics (AMO in `cpu.cpp`) | `reservations`, `atomic_op_mtx` | LR, SC, AMO | harts share memory | plain stores take no lock; faults leave in the middle |
| UART transmitter (`uart.cpp`) | `output`, `tx_offset`, `tx_required`, LSR | `uart_w`, `uart_loop`, `uart_chk` | three threads | unsynchronised index, flags and register, which even reads of the UART store back; condition variable |
| UART receiver | input ring, `read_ptr`, `write_ptr`, `pending_in`, bit 0 of LSR | `uart_r`, `uart_chk` | three threads | unsynchronised count and ring; the ring is one slot larger than its buffer |
| UART interrupts | IER, IIR/FCR (one byte), `uart_timeout` | `uart_sendint`, `uart_clearint`, `uart_chk` | two sending threads, a hart, the PLIC | one byte for the cause, tested and replaced without a lock |
| ACLINT | `mtimecmp`, `mtime`, MSWI registers | writes, periodic checks | sets bits of `mip` | two threads run the same check |
| PLIC | priorities, pending, enables, thresholds, `int_handling` | send, try, notify, claim, complete | UART -> PLIC -> `mip` | pending bits and `mip` are plain words |
| `mip` | one word per hart | setting and clearing bits, from every thread; CSR writes of `mip` and `sip` | everything above | updates overwrite each other |
| Fetch (`cycle`, `fetch`) | `pc`, `inst`, `instbuf` | fetch, and every instruction that moves `pc` or changes translations | translation, traps, stores of other harts | nothing records which address the buffered half word belongs to |
| Decode, arithmetic (`decode_exc`) | registers | pure functions | - | scrambled immediates, width-dependent edges |
| Life cycle (`main.cpp`) | `hart_start`, `interrupted` | start, SIGINT, joins | all threads | order of release |
| Memory map, VirtIO stub, terminal, loaders, command line | tables, files | - | - | not modelled: no protocol |

What makes each part correct: PMP - locked entries cannot be changed and are enforced,
and a granted access is one every byte of which is permitted; translation - the TLB
never answers differently from the walk; traps - no deliverable interrupt is forgotten,
no trap frame is destroyed; atomics - exclusive reservations, indivisible AMOs; UART -
nothing outside the buffers, nothing lost, nobody waits for ever, causes announced; ACLINT
and PLIC - causes reach `mip` and leave it; fetch - what runs is what the address space holds
at `pc`; decoding and arithmetic - what the instruction set says.

## 2. Modules

| Module | Models | Proofs |
|---|---|---|
| `Pmp` | PMP registers, the expanded copy, the checks | `PmpProofs` |
| `Trap` | one hart's traps, returns, interrupt CSRs, the polling of `mip` | `TrapProofs` |
| `LrSc` | LR, SC, AMO and stores of several harts | `LrScProofs` |
| `AtomicMem` | what the A extension promises: LR, SC, AMO as single steps; `LrSc` implements it | `LrScProofs` |
| `Fetch` | fetch and `instbuf` of one hart | `FetchProofs` |
| `Decode` | RVC expansion, fields and immediates of 32-bit instructions | - |
| `Alu` | integer arithmetic, branches and AMO arithmetic at a small width | - |
| `Isa` | `Decode` and `Alu` against layouts and laws of the instruction set | - |
| `Mmu` | walk, TLB and translated accesses of one hart | `MmuProofs` |
| `UartTx` | transmitter: hart(s), UART thread, main thread, shutdown | `UartTxProofs` |
| `UartRx` | receiver: input ring, count and receive bit of LSR, three threads | `UartRxProofs` |
| `UartInt` | causes in IIR and their way to the PLIC, two sending threads and a hart | - |
| `MipWord` | the pending word that threads update without synchronisation and CSR instructions on `mip` and `sip` overwrite | - |
| `Aclint` | timer and software interrupts among all writers of `mip`, over `MipWord` | - |
| `Plic` | interrupt controller with two sending threads, over `MipWord` | `PlicProofs` |

`Aclint` and `Plic` extend `MipWord`: the word is shared by composition, and a thread's
`|=` is a `Load` step followed by a `Store` step of that thread; a CSRRW is a store without a load (`CsrWrite`). Each `MC...` module
gives the constants that a `.cfg` cannot write.

### How the models correspond to the code

* **Pmp.** One action per CSR instruction: `PmpcfgRw` is `pmpcfg_rw` with its trailing
  `sync_exp_pmp`; `PmpaddrRw` is the generic CSR write with the lock test and *without*
  a sync, as in the code. `Expand`, `Lbound`, `Ubound` are the cases of `sync_exp_pmp`
  with shifts modulo 2^`XLEN`. A configuration byte is a set of bits; the value a CSR read returns is left out. `ChkPmpRangeExp`
  and `ChkPmpExp` are the two checks, `Granted` is what `mem_fetch`/`mem_store` make of
  their result.
* **Trap.** A hart alternates `exec` (one instruction), `poll` (`cycle` looks at
  `chk_int`) and `setup` (`setup_pending_int`). `Interrupt` and `Except` are the two halves
  of `create_exception`. `Platform` is any device thread changing `mip` at any time,
  `Tick` the main loop setting `chk_int`. `unseen` is a history variable: who has made an
  interrupt deliverable without telling the hart.
* **LrSc.** Between two accesses of memory an instruction can be interleaved with other
  harts, so each instruction is a sequence of steps (`pc`). `loaded` and `held` are history:
  who has written the word since the load of the AMO or LR. `LrSameReg` admits LRs whose
  destination is their address register. The refinement `Linearizable` maps `reservations` to the
  links of `AtomicMem` and `held`, without the marks of plain stores, to what each hart has `seen`:
  `LrReserve`, `ScStore` or `ScFail`, and `AmoStore` are the steps at which an instruction takes
  effect, all others stutter.
* **Fetch.** A cycle is a fetch (`Fetched`, `FetchFault`, `FetchIllegal`), one action of
  `Execute` and `CycleEnd`. Memory holds classes of half words: compressed, zero (which also means
  "empty" in `instbuf`), first halves of 32-bit and of longer instructions. `Trap` is
  `create_exception`: any `pc`, and any translation, since privilege changes. Fetches read the half
  word that follows *physically*, as the code does. `from` and `overwritten` are history: the
  cell `instbuf` came from and whether it was stored to since.
* **Decode**, **Alu**, **Isa.** A word is the set of its 1 bits, so `(inst << 1) & 0b1000000`
  is `Piece(inst, -1, 6, 6)`; fields and immediates are put together piece by piece as in the code.
  `Isa` states the layouts of the instruction set as tables (`Layout`), in the other direction:
  for each bit of the RVC word the bit of the immediate. `Killed` is the host's SIGFPE. `Alu` wraps at
  `XLEN` and `HLEN` bits.
* **Mmu.** Addresses are page numbers. `Walk` is `page_table_walk`; its loop is
  the recursive function `Path`, whose value at `k` is where the walk has got after `k` levels; `Hits`/`Found` are `tlb_find`, `TlbAdd` is `tlb_add`. Both thread
  `mem_status` through as the code does. `pmp` says what PMP permits per
  mode and frame; writes of PMP registers change it without touching the TLB. `synced` is history: whether valid PTEs, other than by A and D, and `satp` are as they were at the last fence. A denied fetch of a PTE gives `ZeroPte`, as in `mem_fetch`.
  The load of an LR and the store of an SC are `Access` steps, the extra walk an `AmoWalk`.
* **UartTx.** Steps are the single accesses of shared variables, in program order, because
  none is protected (`tx_required` is a plain `bool`). `uart_cv.wait` is split into test,
  block and wake-up, spurious ones included (at most `MaxSpurious`). `PollLoad` and `PollStore` are the last two
  statements of `uart_r`, which load LSR and store it back whatever register is read; `WriteLsr` is a write of LSR
  itself, with the values `LsrWrites`. `written` and `printed`
  number the characters.
* **UartRx.** `*write_ptr = ch; write_ptr++` is a step, the load and the store of `pending_in++`
  and of `pending_in--` are steps of their own, and so are the loads and stores of LSR in
  `uart_chk`, `uart_loop` and `uart_w`, which carry the receive bit along. A read of any register ends in `TailTest` (the test of the count)
  and `TailStore` (the store of LSR). `harm` is history: which of the three
  things that spoil input (`count`, `overrun`, `neighbour`) have happened. The last slot of the
  ring lies behind `input_buffer`; the linker gives it to `handler_output` of `aclint.cpp`, which reads
  of `mtime` and `mtimecmp` overwrite (`Neighbour`).
* **UartInt.** `uart_sendint` is test, write of IIR and `plic_send_int`, as separate steps of
  either thread. Input waiting and text to send are Booleans here; `UartRx` and `UartTx` have the
  detail. A write of FCR overwrites IIR, because both are `regs[2]`.
* **Aclint**, **Plic.** As above, with comparison, load and store as separate steps, and with `CsrMip`, every CSR
  instruction on `mip` and `sip` with the masks of `cpu.cpp:1134`-1143, among the hart's actions. `Aclint` has what the PLIC does to
  `mip` as well (`MainNotify`, `UartNotify`, `Complete`), at any time; when the PLIC does it is `Plic`'s subject.
  `due` stands for `mtime >= mtimecmp`. Registers that `plic_init` does not initialise start
  with any value (`MCPlic` starts from one value each, from which the write can order the sources either way).

## 3. Runs

### Passing

| Run | Properties | What it shows | Bounds, and why they suffice |
|---|---|---|---|
| `pmp` | `LockedInForce`, `LockedFrozen`, `ShortCircuitSound`, `AlignedGrantSound` | locks cannot be circumvented and stay enforced although the copy may be stale; the two shortcuts of the checks (the summary, and looking only at the ends of an access) decide as the full scan would | 2 entries: the only coupling is between neighbours (TOR). 6-bit addresses that wrap, memory of 16 bytes: regions of 4 bytes inside accesses of 8, overlapping entries, NAPOT of everything. Whole-register writes; the proofs cover set and clear, and any number of entries |
| `trap` | `NoneMissed`, `FrameKept`, `InterruptsTaken` | every path that can unmask an interrupt sets `chk_int`; handlers keep their frames; what is deliverable is eventually taken or masked | one machine and one supervisor interrupt; status values that reach each mode with each mask, and WFI and SRET trapped |
| `lrsc` | `AmoAtomicAmongAtomics`, `MutexReleased`, `Linearizable` | no atomic of another hart falls into an AMO, and the locked steps implement single-step atomics in which an SC succeeds only on an LR of its hart with no other hart's SC to the word between (other harts' AMOs and stores since the LR are not looked at); faults leave neither the mutex nor a wrong reservation behind | 2 harts, 2 words; the proofs cover any number of both |
| `mmu` | `TlbIndexed` (`TypeOK`, `SizesCounted`, `CachedIsFindable`), `TlbCoherent`, `HitsAgree`, `OnlyMarks` | the hash table and its counters stay consistent; between fences an access that hits is one the walk would grant, but for S-mode fetches from user pages under SUM and for walks that PMP denies a table; translation sets A and D and changes nothing else, but for the one case in which it wipes a PTE (`Wipeable`) | 2 levels of 2 entries, 2 TLB slots: superpages compete with pages of their own and of the other half; PTEs of every kind; PMP takes the upper table away, leaves the lower one writable but not executable, and gives both back |
| `uart_tx` | `TxInBounds`, `PrintedInOrder`, `SpinEnds`, `TextDrains`, `ThreReturns`, `ShutdownEnds` | with one writer the unsynchronised buffer stays in bounds and in order, and nobody waits for ever; after SIGINT or a halting hart the program ends, or has lost the one wake-up `uart_uninit` can lose; LSR settles on "transmitter empty" once the guest's writing ends, although polls, writes and two other threads store old values of it | buffer of 3, 3 characters, one spurious wake-up: the buffer fills, is flushed and is used again; register reads, and writes of LSR that clear both bits, the value farthest from the one to be restored |
| `uart_rx` | `TypeOK`, `CountExact`, `ReadInOrder`, `PollingWorks` | input arrives complete and in order until one of three named races happens; LSR settles on "input" while input stays unread, although three threads store the register | ring of 3 slots (buffer of 2), 5 characters: both pointers wrap, the ring overruns |
| `uart_int` | `TypeOK`, `InputAnnounced`, `ThreAnnounced` | a cause lost in IIR is announced again; a time-out makes up for the trigger level | the time-out of the code; FCR nibbles 1 (none pending), 0 (outranks both causes) and 7 (outranked by both) |
| `isa` | `Decoding` (`RvcExpands`, `DecodersAgree`), `ArithmeticLaws` (`TypeOK`, `DivisionLaw`, `ProductLaw`), `WordLaws` (`WordOpsLocal`, `AmoWordLocal`) | both decoders follow the instruction set; division, products and half-width operations obey their laws at every boundary | all 49152 RVC words; 32-bit immediates with up to two bits set and with the sign; registers of 8 bits with halves of 4, operands around every boundary of both |
| `fetch` | `BufferTrue`, `WideAlone`, `RunsCode` | the buffered half word stays in step with `pc`; what is executed is what the address space holds, with two exceptions that the properties name | 2 pages of 2 half words, 2 frames and the one past the end; neighbouring, exchanged and missing pages; 5 memory images, 2 stores; the proofs cover any size |
| `aclint` | `TypeOK`, `TimerRaised`, `TimerFalls`, `SwiRaised` | the periodic checks repair whatever races, completions and CSR writes of `mip` and `sip` did to MTIP and MSIP: once the others leave `mip` alone, the bits settle on what the devices say | MTIP, MSIP and one bit of the PLIC, which differs from MEIP in that the mask of `sip` spares it; three threads; CSR operands that clear all, set one and set all; a write, set or clear of each |
| `plic` | `TypeOK`, `ClaimIsHighest`, `Signalled` | a claim returns the highest enabled source, the lowest-numbered of equals; no notification is lost for good | 2 sources (the UART and source 0), 3 priorities, 2 contexts, one write of a register or of `mip` or `sip` with any value, three threads on `mip` and the pending word |

The type invariants of `Pmp`, `Trap`, `LrSc`, `UartTx` and `Fetch`, which are proved for every value of the
constants, are not repeated in the runs, and neither are `ReservationExclusive` and `ScOnFreshLr`, which
`Linearizable` contains, or `TrapsNeverLower`; all of them are theorems.

`uart_tx` switches deadlock checking off: after the shutdown, or when the shutdown hangs, the
system stops.

### Code against comment

`uart_tx_loss` checks a statement of a comment and ends in a counterexample (`NothingLost`;
quotation in `PROJECT.json`, "findings"): the spin in `uart_w` is said to prevent the race on `output`, but
`uart_chk` can request a flush after the spin, and the character stored meanwhile is cleared, not
printed.

### Other behaviour seen while modelling

The models contain these behaviours of the code unless marked otherwise; no run is devoted to them.

* A `pmpaddr` write does not call `sync_exp_pmp` (`mem.h:19` says the copy is kept in sync): unlocked
  entries are enforced with their old region until the next pmpcfg write.
* A CSRRW of `sip` clears MSIP, MTIP and MEIP: the mask of `cpu.cpp:1134` ("block writes to machine mode
  interrupts") is applied to the operand, which then replaces all of `mip`. CSRRC, whose mask adds the three bits to those to clear,
  does so too. `Trap`, `Aclint` and `Plic` have both; the periodic checks bring the bits back (`TimerRaised`, `SwiRaised`, `Signalled`).
* `tlb_find` (`mem.cpp:375`) lets S-mode fetch from a cached user page when SUM is set; the walk
  (`mem.cpp:275`) does not. `HitsAgree` names the exception.
* A hit is used although PMP has come to deny one of the tables above the leaf, where a walk ends in an access
  fault (`HitsAgree` says exactly this; the privileged specification asks for a fence after a change of PMP).
* A fetch at the end of a page reads the half word that follows in physical memory, in whatever frame
  that is, one frame past the end of RAM included. A zero half word followed by something else runs as
  C.ADDI4SPN. FENCE.I and SFENCE.VMA clear `instbuf`, which is always empty when they run (`WideAlone`).
* DIVW ends the emulator by SIGFPE when the low halves overflow and the registers are not their sign
  extensions (`WordOpsLocal` names the exception).
* The receiver: the time-out announces input whether IER asks for it or not; cause 4 is not cleared by
  reading the input; the priority table ranks the transmitter's cause above the receiver's; a write of FCR
  with low nibble 0 leaves a cause in IIR that outranks everything else; old values of the receive bit come
  back when LSR is stored, by a poll of the transmitter as well as by the threads that report it empty
  (a guest whose every poll collides with such an update never sees the bit: the premises of `PollingWorks` and `ThreReturns`); the trigger level compares a wrapped with an unwrapped pointer
  (left open in the model).
* `reset_state` sets PMP entry 0 "to allow all accesses" without making the copy: until the first
  pmpcfg write S- and U-mode may access nothing.
* A pmpcfg CSR is put together with `int` shifts; bytes 4 to 7 do not read back (not in the model).
* A misaligned access that contains a 4-byte region entirely is not recognised as crossing it
  (why `AlignedGrantSound` speaks of aligned accesses).
* A write of `sie` replaces all of `mie`; a write of `mie` does not refresh `sie`.
* Stores and AMOs of other harts do not end a reservation; plain stores can fall into the middle of
  an AMO (why the properties of `LrSc` speak of SCs and of atomics).
* LR with rd = rs1 reserves the address it has just loaded. `LrSameReg = TRUE` admits this, and
  `ScOnFreshLr` and `Linearizable` then fail.
* If PMP permits storing to a page table and not fetching from it, `tlb_find` takes the PTE for 0 and overwrites it by its A bit: it
  looks at `mem_status` only after the store (`mem.cpp:377`-387, whose comments speak of setting A and D and of a mere TLB miss). `OnlyMarks`
  says that this is the only damage, and when it can happen; `MCMmu` has such a configuration.
* MXR is applied to instruction fetches instead of loads. After a hit the load itself is checked by PMP as a fetch.
* With two harts writing to the UART the index leaves the buffer (`Writers` with two members refutes
  `TxInBounds`). `uart_uninit` notifies without the mutex; the wake-up can be lost, and the join hangs
  (`ShutdownEnds` names the state).
* `aclint_mswi_chk` never clears MSIP. A check of the timer that began before `mtimecmp` was written can set MTIP
  once more; the next check clears it (`TimerFalls`).
* A PLIC claim does not look at the pending bits.

### Fairness

Weak fairness of whole threads: `WF(HartStep)`: the host
schedules hart threads and `hart_loop` runs `cycle` without blocking. `WF(Tick)`,
`WF(MainStep)`: the main loop sleeps a fixed time and polls until `interrupted`.
`WF(LoopStep)`, `WF(Loop)`, `WF(LoopLsrStore)`, `WF(MipStep("uart"))`: the UART thread runs when its condition holds and finishes an
update it has begun. `WF(Access)`: a hart in the
middle of a device access finishes it. `WF(Step(h))` in `LrSc`: a
hart inside an atomic instruction goes on; starting one is not assumed.

Strong fairness twice, where an action competes with an endless supply of others of the same thread that the code bounds or
interrupts. `SF(MainRound)` in `Aclint`: the loops of `plic_try_int_all` are finite, so a round of the main thread ends however often it notifies.
`SF(HartExit)` in `UartTx`: `hart_loop` tests `interrupted` after every instruction, so a guest that polls for ever does not keep the hart
from leaving.

No fairness is assumed of the guest (which registers it accesses, and when), of SIGINT, of devices or of
time. The spin of `uart_w` is not assumed to be ended by anybody in particular. What the stability properties need of the guest
is a premise in each: `TimerRaised`, `TimerFalls` and `SwiRaised` that CSR writes of `mip`, completions and notifications by the UART thread
end (`OthersStop`; notifications by the main thread need not), `SwiRaised` also that writes of `mtimecmp`, whose check stores `mip`, end;
`PollingWorks` that the guest keeps polling, that not every poll collides with another thread's update (`CleanTail`) and that it does not write
LSR for ever; `ThreReturns` the same of the updates of `uart_chk` (`CleanChk`).

## 4. Theorems

Assumptions are the named `ASSUME`s of the component modules (sizes are positive, constant
sets are of the right kind, powers are powers, RAM lies neither at the very start nor at the very end of the
address space). All theorems have the form `Spec => []Inv` or
`Spec => [][A]_vars`, for every value of the constants.

Three kinds of facts about numbers recur and stand at the head of the modules that need them: a least and a
greatest element, from the well-ordering of `Nat` (`MinOfNat`, `MaxOfNat`); induction up to a bound (`UptoInduction`),
stated for a *set* of numbers because the provers cannot instantiate the library's induction rule, whose parameter is an operator;
and division with remainder (`Euclid`).

* **PmpProofs.** `IInv` = `TypeOK` + `LocksHold` + `LockedInForce` + `SummaryOK`.
  `LockedInForce` is not inductive: a `pmpaddr` write does not refresh the copy, so one needs
  that every address of a locked region is itself locked (`LocksHold`), including the lower
  neighbour of a TOR entry. `SummaryOK` says the bounds enclose every restricting entry of the
  copy; with `MinOfNat` and `MaxOfNat` it gives `ShortCircuitIsSound`. `LockedEntriesFrozen` is the action
  property from the same invariant. `TypeCorrect` covers the wrapping shifts.
  `AlignedGrantsSound` rests on `RegionsRegular`: every region of the copy consists of whole 4-byte words, is the
  whole address space, or lies below address 4. The last kind are the two NAPOT sizes whose shift count exceeds the word
  width and wraps (`NapotRegular`); they would break the theorem if RAM began there, hence `MEM_START >= 4`. An aligned
  access that shares a byte with a regular region has an end in it (`EndsSuffice`), so scanning for the ends finds the
  entry that the scan for each byte would (`RangeAsBytes`).
* **TrapProofs.** `IInv` = `TypeOK` + `NoneMissed`. One lemma per way to change the mode or a
  mask; `SetupExhausts` shows that the fixed sequence of attempts of `setup_pending_int`
  leaves nothing deliverable. `FramesKept` and `TrapsKeepPrivilege` are action properties.
* **LrScProofs.** `IInv` adds to the checked properties who holds the mutex at which step and
  that a hart's reservation is the word its `held` history watches. `ScOnlyOnFreshLr` assumes
  `LrSameReg = FALSE`, without which it does not hold. `ImplementsAtomicMem` is the refinement:
  initial states map to initial states, every step to a step of `AtomicMem` or a stutter; the guard
  of its `Sc` is what `IInv` says about `held` at the store of an SC.
* **FetchProofs.** `IInv` = `TypeOK` + `BufferInv`. `BufferTrue` compares `instbuf` with memory at the
  address it is meant for and is not inductive: that address follows from where the fetch was.
  `BufferInv` says so: while an instruction executes, a full buffer was filled by the fetch at `pc`
  and the instruction is a compressed one; otherwise `pc` is the successor of the address of that fetch.
  `AdvanceKeeps` is the step between the two, `EmptiedKeeps` covers everything that clears the buffer.
* **UartTxProofs.** `TypeCorrect` for any set of writers; `SingleWriterInBounds` for one
  writer (two are refuted, see above): `BoundInv` relates the writer's copy of the
  index to the shared one at each step, whatever the flushing threads do.
  `SingleWriterInOrder`: printed text is in order because of where characters may lie. `OrderInv` says that, except between
  print and memset (`Stale`), characters in the buffer ascend with their slots, come after everything
  printed, and lie below the index *and* below the writer's copy of it, which may be older than the last flush (`PlacesInv`);
  that every number in use is at most that of the character being written (`NumbersInv`); and that a line feed cut off by
  `uart_loop` is the last character there is, of a writer that cannot write another before the mutex is free (`CutInv`).
* **UartRxProofs.** `IInv` describes the ring by the distance of a slot from `read_ptr` (`SlotAt`), without modular
  arithmetic: until one of the three harms, the character typed `j` after the next one to be read is `j` slots on, and
  `write_ptr`, wrapped, is behind the last (`RingHolds`). For the count, `CountHeld` adds that the register a thread will store
  back still is the count while no two updates overlap; `CountBounds` keeps `pending_in` in its type even when updates
  are lost. It gives `TypeCorrect`, `CountAlwaysExact` and `InputInOrder`.
* **MmuProofs.** Two inductive invariants. `IndexInv` (for `TlbIsIndexed`): every valid entry is in the slot its page and size
  hash to and starts on a boundary of its size, the counter of a size is the number of valid entries of it (so a decrement
  never meets 0, and 255 slots fit a `uint8_t`), and `max_entry_size` is the largest size counted.
  `CoherenceInv` (for `TlbStaysCoherent` and `HitsAlwaysAgree`) adds: while `synced`, every valid entry is what a walk
  in M-mode finds for its page. The work is in how the walk reacts to changes of the page tables: by induction over its rounds (`UptoInduction`),
  a walk that ended in a leaf ends in the same leaf after PTEs were marked or invalid PTEs were
  filled, for every page of a superpage. That `Path`, a recursive function, is what its definition says is
  itself such an induction (`PathIsRounds`).
  `TranslationOnlyMarks` is the action property, without any condition on PMP: the store of a TLB hit writes back what was fetched
  with A and D set, or, if the fetch was denied, wipes the PTE, and then the PTE is `Wipeable`. A wiped PTE ends `synced`, so that
  coherence needs no condition that excludes it. The one hypothesis of the two coherence theorems, a formula over the constant
  `PmpConfigs`, is `MachineReads`, since coherence is stated with a walk in M-mode. `TlbIsIndexed` needs none.
* **PlicProofs.** `TypeOK` is inductive for any set of device threads, whatever the uninitialised registers held. The one
  step that is not immediate is a claim, whose result has to be a source. `ClaimReturnsHighest` says what it is, for every number
  of sources: the claim loop is a recursive function of its rounds (`Scan`) that has a solution (`ScanIsRounds`), and a loop invariant
  (`Found`: of the first `n` sources, the candidate is the lowest-numbered enabled one of the highest priority, or 0 and no enabled one
  has a priority) passes from round to round (`RoundKeepsFound`, where the strict comparison of the code decides ties). Both are
  inductions with `UptoInduction`.

Only model-checked: all liveness properties (fairness is out of the prover's reach),
the type invariants of `Aclint` and `UartInt`, whose other properties are all liveness, and everything about `Isa` (`Alu` uses
`Bitwise`, which the prover does not support). `PrintedInOrder` and `TxInBounds` are proved for one writer; with more they do not hold.

## 5. Not modelled

Start-up (sequential), the memory map (a constant table), loaders, terminal and command line (I/O through
libraries); the VirtIO block device, which the code has disabled: its thread is never started and its registers
only store. Of the arithmetic, LUI, AUIPC and undefined encodings of the W instructions. Weak memory effects of the host beyond
reordering of threads are not modelled: each access of a shared variable is one step in program
order. `chk_pmp` and `chk_pmp_range` are dead code. The memory layout (the places of the PLIC's enable words,
the ACLINT offsets of several harts, pmpcfg4 and up, which index beyond the entries) is outside the state of the
models, and no hazard or property speaks of it.

## 6. Plan

1. `IrqSystem`: UART -> PLIC -> `mip` -> `Trap` hart -> claim -> complete, as one composition,
   with an abstract interrupt line as its specification; `UartInt` and `Plic` are its parts.
2. `Mmu` with several harts sharing page tables (write-back of A and D), and the walk as the
   abstract specification of the TLB between fences.
3. Proofs: the type invariants of `Aclint` (the lemmas on `MipWord` in `PlicProofs` apply) and `UartInt`.
