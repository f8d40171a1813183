--------------------------------- MODULE Pmp ---------------------------------
(***************************************************************************)
(* Physical memory protection of one hart: the raw pmpcfg/pmpaddr CSRs,    *)
(* their lock flags, the expanded copy that the access checks consult, and *)
(* the checks themselves.  Sources: cpu.cpp (CSR instructions, pmpcfg_rw,  *)
(* reset_state), mem.cpp (sync_exp_pmp, chk_pmp_exp, chk_pmp_range_exp),   *)
(* mem.ipp (mem_fetch, mem_store).                                         *)
(***************************************************************************)
EXTENDS Integers, FiniteSetsExt

CONSTANTS
  PMP_COUNT,   \* number of PMP entries (16 in the code)
  CSR_BYTES,   \* entries per pmpcfg CSR (8)
  XLEN,        \* width of an address word (64)
  RESET_ADDR,  \* pmpaddr[0] after reset (0x003fffffffffffff)
  MEM_START,   \* lowest physical address that does not fault (0x1000)
  MEM_END,     \* 0x80000000 + MACH_MEM_SIZE
  CsrOps,      \* CSR instructions the guest uses: csrrw, csrrs, csrrc
  CfgWrites,   \* bytes the guest writes to an entry's pmpcfg
  AddrWrites   \* words the guest writes to a pmpaddr

(* A pmpcfg byte is the set of its bits that are 1: permissions, the two   *)
(* bits of the matching mode, two bits the code stores but never tests,    *)
(* and the lock.                                                           *)
RWX == {"R", "W", "X"}
CfgBits == RWX \cup {"A0", "A1", "Z0", "Z1", "L"}

Entries == 0 .. PMP_COUNT - 1
UINT_MAX == 2^XLEN - 1
Word == 0 .. UINT_MAX
BitOf(x, k) == (x \div 2^k) % 2

(* The pmpcfg CSRs that hold an existing entry.  A pmpcfg CSR above them   *)
(* makes pmpcfg_rw index past its arrays and is outside this model.        *)
CfgCsrs == 0 .. (PMP_COUNT \div CSR_BYTES) - 1

ASSUME SizeAssumption ==
  /\ PMP_COUNT \in Nat \ {0} /\ CSR_BYTES \in Nat \ {0}
  /\ XLEN \in Nat /\ XLEN >= 3
  /\ PMP_COUNT % CSR_BYTES = 0
ASSUME PowerAssumption ==
  /\ \A n \in 0 .. XLEN : 2^n \in Nat \ {0}
  /\ 2^0 = 1 /\ \A n \in 0 .. XLEN - 1 : 2^(n + 1) = 2 * 2^n
ASSUME WriteAssumption ==
  CsrOps \subseteq {"write", "set", "clear"} /\
  CfgWrites \subseteq SUBSET CfgBits /\ AddrWrites \subseteq Word
ASSUME ResetAssumption == RESET_ADDR \in Word
ASSUME MemAssumption ==
  /\ MEM_START \in Nat /\ MEM_END \in Nat /\ MEM_START <= MEM_END
  /\ MEM_START >= 4 /\ MEM_END + 7 <= UINT_MAX    \* 0x1000; 64-bit addresses

VARIABLES
  pmpcfg, pmpaddr,   \* the raw registers
  pmp_lockedaddr,    \* pmpaddr registers that ignore writes
  pmp_expanded,      \* decoded copy of the entries
  pmp_all_enabled, min_lbound, max_ubound    \* short-circuit summary of the copy

raw == <<pmpcfg, pmpaddr, pmp_lockedaddr>>
expanded == <<pmp_expanded, pmp_all_enabled, min_lbound, max_ubound>>
vars == <<raw, expanded>>

ExpPMP == [enable : BOOLEAN, lock : BOOLEAN, lbound : Word, ubound : Word,
           lxwr : SUBSET CfgBits]

-----------------------------------------------------------------------------
(* Decoding an entry.                                                      *)

Off(cfg) == cfg \cap {"A0", "A1"} = {}
Tor(cfg) == cfg \cap {"A0", "A1"} = {"A0"}
Na4(cfg) == cfg \cap {"A0", "A1"} = {"A1"}

(* A 64-bit shift.  The host takes the count modulo the word width, which  *)
(* is what the build does with the oversized counts NAPOT can produce.     *)
Shl(x, n) == (x * 2^(n % XLEN)) % 2^XLEN

(* ffsll(~a) - 1, for an a that is not all ones.                           *)
ZeroBits(a) == {s \in 0 .. XLEN - 1 : BitOf(a, s) = 0}
AllOnes(a) == ZeroBits(a) = {}
TrailingOnes(a) == Min(ZeroBits(a))

Lbound(i, cfg, addr) ==
  IF Tor(cfg[i]) THEN IF i = 0 THEN 0 ELSE Shl(addr[i - 1], 2)
  ELSE IF Na4(cfg[i]) THEN Shl(addr[i], 2)
  ELSE IF AllOnes(addr[i]) THEN 0
  ELSE LET s == TrailingOnes(addr[i]) IN Shl(addr[i] \div 2^s, s + 2)

Ubound(i, cfg, addr) ==
  IF Tor(cfg[i]) THEN Shl(addr[i], 2)
  ELSE IF Na4(cfg[i]) THEN (Lbound(i, cfg, addr) + 4) % 2^XLEN
  ELSE IF AllOnes(addr[i]) THEN UINT_MAX
  ELSE (Lbound(i, cfg, addr) + Shl(1, TrailingOnes(addr[i]) + 2)) % 2^XLEN

Expand(i, cfg, addr) ==
  [enable |-> TRUE, lock |-> "L" \in cfg[i],
   lbound |-> Lbound(i, cfg, addr), ubound |-> Ubound(i, cfg, addr),
   lxwr |-> cfg[i] \cap (RWX \cup {"L"})]

(* sync_exp_pmp's loop body for entry i: a disabled entry keeps the other  *)
(* fields it had.                                                          *)
SyncEntry(i, cfg, addr, old) ==
  IF Off(cfg[i]) THEN [old EXCEPT !.enable = FALSE] ELSE Expand(i, cfg, addr)

Restricting(exp) == {i \in Entries : exp[i].enable /\ exp[i].lxwr # RWX}
Lowest(exp) == Min({UINT_MAX} \cup {exp[i].lbound : i \in Restricting(exp)})

(* Mutant: the maximum is taken over the wrong bound.                      *)
HighestOfLower(exp) == Max({0} \cup {exp[i].lbound : i \in Restricting(exp)})

Highest(exp) == Max({0} \cup {exp[i].ubound : i \in Restricting(exp)})
CoversAll(e) == e.enable /\ e.lbound = 0 /\ e.ubound = UINT_MAX /\ e.lxwr = RWX

(* sync_exp_pmp: rebuild the copy and its summary from the raw registers.  *)
SyncExpPmp ==
  /\ pmp_expanded' =
       [i \in Entries |-> SyncEntry(i, pmpcfg', pmpaddr', pmp_expanded[i])]
  /\ pmp_all_enabled' = (\E i \in Entries : CoversAll(pmp_expanded'[i]))
  /\ min_lbound' = Lowest(pmp_expanded')
  /\ max_ubound' = Highest(pmp_expanded')

-----------------------------------------------------------------------------
(* CSR instructions.                                                       *)

CsrByte(op, old, w) ==
  CASE op = "write" -> w
    [] op = "set"   -> old \cup w
    [] op = "clear" -> old \ w

CsrBit(op, old, w) ==
  CASE op = "write" -> w
    [] op = "set"   -> IF w = 1 THEN 1 ELSE old
    [] op = "clear" -> IF w = 1 THEN 0 ELSE old

(* Mutant: locking a TOR entry does not lock the previous address.         *)
PmpcfgRwNoTor(op, c, w) ==
  LET mine == {i \in Entries : i \div CSR_BYTES = c /\ "L" \notin pmpcfg[i]}
  IN /\ pmpcfg' = [i \in Entries |->
                     IF i \in mine THEN CsrByte(op, pmpcfg[i], w[i % CSR_BYTES])
                                   ELSE pmpcfg[i]]
     /\ pmp_lockedaddr' = [i \in Entries |->
                     pmp_lockedaddr[i] \/ (i \in mine /\ "L" \in pmpcfg'[i])]
     /\ UNCHANGED pmpaddr
     /\ SyncExpPmp

(* Mutant: the lock bit of an entry is not looked at.                      *)
PmpcfgRwUnlocked(op, c, w) ==
  LET mine == {i \in Entries : i \div CSR_BYTES = c}
      Locks(i) == i \in mine /\ "L" \in pmpcfg'[i]
  IN /\ pmpcfg' = [i \in Entries |->
                     IF i \in mine THEN CsrByte(op, pmpcfg[i], w[i % CSR_BYTES])
                                   ELSE pmpcfg[i]]
     /\ pmp_lockedaddr' = [i \in Entries |->
                     \/ pmp_lockedaddr[i]
                     \/ Locks(i)
                     \/ i + 1 \in Entries /\ Locks(i + 1) /\ Tor(pmpcfg'[i + 1])]
     /\ UNCHANGED pmpaddr
     /\ SyncExpPmp

(* pmpcfg_rw on CSR c: unlocked entries take their byte, an entry that is  *)
(* locked afterwards locks its address (and the previous one, for TOR),    *)
(* and the copy is rebuilt.                                                *)
PmpcfgRw(op, c, w) ==
  LET mine == {i \in Entries : i \div CSR_BYTES = c /\ "L" \notin pmpcfg[i]}
      Locks(i) == i \in mine /\ "L" \in pmpcfg'[i]
  IN /\ pmpcfg' = [i \in Entries |->
                     IF i \in mine THEN CsrByte(op, pmpcfg[i], w[i % CSR_BYTES])
                                   ELSE pmpcfg[i]]
     /\ pmp_lockedaddr' = [i \in Entries |->
                     \/ pmp_lockedaddr[i]
                     \/ Locks(i)
                     \/ i + 1 \in Entries /\ Locks(i + 1) /\ Tor(pmpcfg'[i + 1])]
     /\ UNCHANGED pmpaddr
     /\ SyncExpPmp

(* A CSR instruction on pmpaddr i: a locked register keeps its value, and  *)
(* no path from here calls sync_exp_pmp.                                   *)
PmpaddrRw(op, i, w) ==
  /\ ~pmp_lockedaddr[i]
  /\ \E v \in Word :
       /\ \A k \in 0 .. XLEN - 1 :
            BitOf(v, k) = CsrBit(op, BitOf(pmpaddr[i], k), BitOf(w, k))
       /\ pmpaddr' = [pmpaddr EXCEPT ![i] = v]
  /\ UNCHANGED <<pmpcfg, pmp_lockedaddr, expanded>>

(* reset_state: all zero, then entry 0 is set up without a sync.           *)
Init ==
  /\ pmpcfg = [i \in Entries |-> IF i = 0 THEN RWX \cup {"A0", "A1"} ELSE {}]
  /\ pmpaddr = [i \in Entries |-> IF i = 0 THEN RESET_ADDR ELSE 0]
  /\ pmp_lockedaddr = [i \in Entries |-> FALSE]
  /\ pmp_expanded = [i \in Entries |->
       [enable |-> FALSE, lock |-> FALSE, lbound |-> 0, ubound |-> 0, lxwr |-> {}]]
  /\ pmp_all_enabled = FALSE
  /\ min_lbound = 0 /\ max_ubound = 0

Next ==
  \/ \E op \in CsrOps, c \in CfgCsrs, w \in [0 .. CSR_BYTES - 1 -> CfgWrites] :
       PmpcfgRw(op, c, w)
  \/ \E op \in CsrOps, i \in Entries, w \in AddrWrites : PmpaddrRw(op, i, w)

Spec == Init /\ [][Next]_vars

-----------------------------------------------------------------------------
(* The access checks.  Memory is the range that mem_fetch and mem_store    *)
(* do not reject outright by the first byte's address.                     *)

MMode == 3
PrivModes == {0, 1, MMode}
Memory == MEM_START .. MEM_END - 1

NoMatch == RWX \cup {"L", "none"}    \* 0xFF and 0xFFF0
Crosses == {"cross"}                 \* 0xF7, tested before any permission

Region(i) == pmp_expanded[i].lbound .. pmp_expanded[i].ubound - 1

(* Entries the scan considers: enabled and, in M-mode, locked.             *)
Visible(priv) ==
  {i \in Entries : pmp_expanded[i].enable /\ (priv = MMode => pmp_expanded[i].lock)}

ShortCircuit(lo, hi) == pmp_all_enabled /\ (lo > max_ubound \/ hi < min_lbound)

(* The loop of chk_pmp_exp: the first visible entry that holds the byte.   *)
ScanByte(priv, a) ==
  LET hits == {i \in Visible(priv) : a \in Region(i)}
  IN IF hits = {} THEN NoMatch ELSE pmp_expanded[Min(hits)].lxwr

(* Mutant: an access is judged by its first byte only.                     *)
ScanLow(priv, lo, hi) == ScanByte(priv, lo)

(* The loop of chk_pmp_range_exp: the first visible entry that holds       *)
(* either end of the access.                                               *)
ScanRange(priv, lo, hi) ==
  LET hits == {i \in Visible(priv) : lo \in Region(i) \/ hi \in Region(i)}
      i == Min(hits)
  IN IF hits = {} THEN NoMatch
     ELSE IF {lo, hi} \subseteq Region(i) THEN pmp_expanded[i].lxwr ELSE Crosses

ChkPmpExp(priv, a) == IF ShortCircuit(a, a) THEN RWX ELSE ScanByte(priv, a)
ChkPmpRangeExp(priv, lo, hi) ==
  IF ShortCircuit(lo, hi) THEN RWX ELSE ScanRange(priv, lo, hi)

(* How mem_fetch and mem_store read a check's result: the permission is    *)
(* "R" for a load, "X" for an instruction fetch, "W" for a store.          *)
Permits(res, priv, perm) == perm \in res /\ ("none" \in res => priv = MMode)

(* An access of len bytes that mem_fetch/mem_store performs (mem_status    *)
(* false on return); one-byte accesses have specialisations of their own.  *)
Granted(priv, perm, a, len) ==
  /\ a \in Memory
  /\ Permits(IF len = 1 THEN ChkPmpExp(priv, a)
                        ELSE ChkPmpRangeExp(priv, a, a + len - 1), priv, perm)

-----------------------------------------------------------------------------
(* Properties.                                                             *)

(* Registers and their copy hold words and bytes of the right kind.        *)
TypeOK ==
  /\ pmpcfg \in [Entries -> SUBSET CfgBits]
  /\ pmpaddr \in [Entries -> Word]
  /\ pmp_lockedaddr \in [Entries -> BOOLEAN]
  /\ pmp_expanded \in [Entries -> ExpPMP]
  /\ pmp_all_enabled \in BOOLEAN
  /\ min_lbound \in Word /\ max_ubound \in Word

(* The pmpaddr registers that determine the region of entry i.             *)
AddrsOf(i) == IF i > 0 /\ Tor(pmpcfg[i]) THEN {i - 1, i} ELSE {i}

(* No sequence of CSR writes changes a locked entry: not its configuration *)
(* and none of the addresses its region is made of (pmpcfg_rw and the      *)
(* pmp_lockedaddr test of the CSR instructions).                           *)
LockedFrozen ==
  [][\A i \in Entries : "L" \in pmpcfg[i] =>
       /\ pmpcfg'[i] = pmpcfg[i]
       /\ \A j \in AddrsOf(i) : pmpaddr'[j] = pmpaddr[j]]_vars

(* A locked, enabled entry is enforced with the region its registers say:  *)
(* the copy the checks use cannot be stale for it, although pmpaddr writes *)
(* do not refresh the copy.                                                *)
LockedInForce ==
  \A i \in Entries : "L" \in pmpcfg[i] =>
    IF Off(pmpcfg[i]) THEN ~pmp_expanded[i].enable
                      ELSE pmp_expanded[i] = Expand(i, pmpcfg, pmpaddr)

(* The short circuit of the checks never decides differently from the      *)
(* scan it skips: outside [min_lbound, max_ubound] every byte of memory    *)
(* is readable, writable and executable in every mode.                     *)
ShortCircuitSound ==
  \A a \in Memory : ShortCircuit(a, a) =>
    \A priv \in PrivModes, perm \in RWX : Permits(ScanByte(priv, a), priv, perm)

(* What one access check promises: an access that is performed touches     *)
(* only bytes whose own first matching entry permits it.                   *)
GrantSound(a, len) ==
  \A priv \in PrivModes, perm \in RWX : Granted(priv, perm, a, len) =>
    \A b \in a .. a + len - 1 : Permits(ScanByte(priv, b), priv, perm)

(* Naturally aligned accesses are checked exactly although only the two    *)
(* ends are compared with the entries (chk_pmp_range_exp).                 *)
AlignedGrantSound ==
  \A len \in {1, 2, 4, 8} : \A a \in Memory : a % len = 0 => GrantSound(a, len)

==============================================================================
