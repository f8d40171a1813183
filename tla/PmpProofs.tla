------------------------------ MODULE PmpProofs ------------------------------
(***************************************************************************)
(* Theorems about Pmp for every number of entries, word width, address     *)
(* map and sequence of CSR instructions.                                   *)
(***************************************************************************)
EXTENDS Pmp, WellFoundedInduction, TLAPS

-----------------------------------------------------------------------------
(* Numbers.                                                                *)

(* A nonempty set of naturals has a least element, so Min picks it.        *)
LEMMA MinOfNat ==
  ASSUME NEW S \in SUBSET Nat, S # {}
  PROVE  Min(S) \in S /\ \A y \in S : Min(S) <= y
<1>1. PICK x \in S : \A y \in S : ~(<<y, x>> \in OpToRel(<, Nat))
  BY WFMin, NatLessThanWellFounded
<1>2. \A u, v \in Nat : u < v => <<u, v>> \in OpToRel(<, Nat)
  BY DEF OpToRel
<1>3. \A y \in S : ~(y < x)
  BY <1>1, <1>2
<1>4. \A y \in S : x <= y
  BY <1>3
<1>. QED
  BY <1>4 DEF Min

(* A nonempty set of naturals with an upper bound has a greatest element.  *)
LEMMA MaxOfNat ==
  ASSUME NEW n \in Nat, NEW S \in SUBSET (0 .. n), S # {}
  PROVE  Max(S) \in S /\ \A y \in S : y <= Max(S)
<1>. DEFINE T == {n - y : y \in S}
<1>a. \A y \in S : n - y \in Nat
  OBVIOUS
<1>1. T \in SUBSET Nat /\ T # {}
  BY <1>a
<1>2. Min(T) \in T /\ \A z \in T : Min(T) <= z
  BY <1>1, MinOfNat
<1>3. PICK x \in S : Min(T) = n - x
  BY <1>2
<1>4. \A y \in S : n - x <= n - y
  BY <1>2, <1>3
<1>5. \A y \in S : x >= y
  BY <1>4
<1>. QED
  BY <1>5 DEF Max

(* Division with remainder.                                                *)
LEMMA Euclid ==
  ASSUME NEW a \in Nat, NEW m \in Nat \ {0}
  PROVE  /\ a \div m \in Nat /\ a % m \in 0 .. m - 1 /\ a % m <= a
         /\ a = m * (a \div m) + (a % m)
OBVIOUS

(* The quotient is the only number between the bounds.                     *)
LEMMA EuclidUnique ==
  ASSUME NEW a \in Nat, NEW m \in Nat \ {0}, NEW c \in Nat, m * c <= a, a < m * c + m
  PROVE  a \div m = c
OBVIOUS

(* A number below twice the modulus.                                       *)
LEMMA ModOnce ==
  ASSUME NEW a \in Nat, NEW m \in Nat \ {0}, a < m + m
  PROVE  a % m = IF a < m THEN a ELSE a - m
<1>1. a < m => a \div m = 0
  BY EuclidUnique
<1>2. a >= m => a \div m = 1
  BY EuclidUnique
<1>. QED
  BY <1>1, <1>2, Euclid

(* A common factor does not change an order.                               *)
LEMMA Cancel ==
  ASSUME NEW q \in Nat \ {0}, NEW x \in Int, NEW y \in Int, q * x < q * y
  PROVE  x < y
OBVIOUS

(* The modulus of a word is a positive number, and reduction modulo it     *)
(* yields a word.                                                          *)
LEMMA ModIsWord ==
  ASSUME NEW x \in Int
  PROVE  x % 2^XLEN \in Word
<1>1. 2^XLEN \in Nat \ {0}
  BY SizeAssumption, PowerAssumption
<1>. DEFINE m == 2^XLEN
<1>2. m \in Nat \ {0}
  BY <1>1
<1>. HIDE DEF m
<1>3. x % m \in 0 .. m - 1
  BY <1>2
<1>. QED
  BY <1>3 DEF Word, UINT_MAX, m

(* Words are naturals (and so integers), with UINT_MAX the greatest.       *)
LEMMA WordIsNat ==
  UINT_MAX \in Nat /\ (\A x \in Word : x \in Nat /\ x \in Int) /\ 0 \in Word /\ UINT_MAX \in Word
<1>1. 2^XLEN \in Nat \ {0}
  BY SizeAssumption, PowerAssumption
<1>. QED
  BY <1>1 DEF Word, UINT_MAX

(* A host shift of any integer by any natural count yields a word.         *)
LEMMA ShlIsWord ==
  ASSUME NEW x \in Int, NEW n \in Nat
  PROVE  Shl(x, n) \in Word
<1>1. n % XLEN \in 0 .. XLEN
  BY SizeAssumption
<1>2. 2^(n % XLEN) \in Nat
  BY <1>1, PowerAssumption
<1>3. x * 2^(n % XLEN) \in Int
  BY <1>2
<1>. QED
  BY <1>3, ModIsWord DEF Shl

(* ffsll finds a bit whenever the code calls it.                           *)
LEMMA TrailingOnesIsBit ==
  ASSUME NEW a, ~AllOnes(a)
  PROVE  TrailingOnes(a) \in 0 .. XLEN - 1
<1>1. ZeroBits(a) \in SUBSET Nat
  BY SizeAssumption DEF ZeroBits
<1>2. TrailingOnes(a) \in ZeroBits(a)
  BY <1>1, MinOfNat DEF AllOnes, TrailingOnes
<1>. QED
  BY <1>2 DEF ZeroBits

-----------------------------------------------------------------------------
(* Decoding.                                                               *)

(* The bounds sync_exp_pmp computes are words, whatever the registers hold.*)
LEMMA ExpandType ==
  ASSUME NEW cfg \in [Entries -> SUBSET CfgBits], NEW addr \in [Entries -> Word],
         NEW i \in Entries
  PROVE  Expand(i, cfg, addr) \in ExpPMP
<1>1. addr[i] \in Nat
  BY WordIsNat
<1>2. i # 0 => addr[i - 1] \in Nat
  <2>1. i # 0 => i - 1 \in Entries
    BY SizeAssumption DEF Entries
  <2>. QED
    BY <2>1, WordIsNat
<1>3. ~AllOnes(addr[i]) =>
        /\ TrailingOnes(addr[i]) + 2 \in Nat
        /\ addr[i] \div 2^TrailingOnes(addr[i]) \in Int
  <2>. SUFFICES ASSUME ~AllOnes(addr[i])
                PROVE  /\ TrailingOnes(addr[i]) + 2 \in Nat
                       /\ addr[i] \div 2^TrailingOnes(addr[i]) \in Int
    OBVIOUS
  <2>1. TrailingOnes(addr[i]) \in 0 .. XLEN - 1
    BY TrailingOnesIsBit
  <2>2. TrailingOnes(addr[i]) \in 0 .. XLEN
    BY <2>1, SizeAssumption
  <2>3. 2^TrailingOnes(addr[i]) \in Nat \ {0}
    BY <2>2, PowerAssumption
  <2>. QED
    BY <1>1, <2>1, <2>3, SizeAssumption
<1>4. Lbound(i, cfg, addr) \in Word
  BY <1>1, <1>2, <1>3, ShlIsWord, WordIsNat DEF Lbound
<1>5. Ubound(i, cfg, addr) \in Word
  <2>1. Lbound(i, cfg, addr) \in Int
    BY <1>4, WordIsNat
  <2>2. (Lbound(i, cfg, addr) + 4) % 2^XLEN \in Word
    BY <2>1, ModIsWord
  <2>3. ~AllOnes(addr[i]) =>
          (Lbound(i, cfg, addr) + Shl(1, TrailingOnes(addr[i]) + 2)) % 2^XLEN \in Word
    <3>1. ~AllOnes(addr[i]) => Shl(1, TrailingOnes(addr[i]) + 2) \in Word
      BY <1>3, ShlIsWord
    <3>2. ~AllOnes(addr[i]) => Shl(1, TrailingOnes(addr[i]) + 2) \in Int
      BY <3>1, WordIsNat
    <3>. QED
      BY <2>1, <3>2, ModIsWord
  <2>4. Shl(addr[i], 2) \in Word
    BY <1>1, ShlIsWord
  <2>. QED
    BY <2>2, <2>3, <2>4, WordIsNat DEF Ubound
<1>. QED
  BY <1>4, <1>5 DEF Expand, ExpPMP

(* An entry's region depends on the addresses AddrsOf names and no other.  *)
LEMMA ExpandLocal ==
  ASSUME NEW cfg, NEW a, NEW b, NEW i \in Entries,
         a[i] = b[i], Tor(cfg[i]) /\ i # 0 => a[i - 1] = b[i - 1]
  PROVE  Expand(i, cfg, a) = Expand(i, cfg, b)
<1>1. Lbound(i, cfg, a) = Lbound(i, cfg, b)
  BY DEF Lbound
<1>2. Ubound(i, cfg, a) = Ubound(i, cfg, b)
  BY <1>1 DEF Ubound
<1>. QED
  BY <1>1, <1>2 DEF Expand

(* min_lbound and max_ubound enclose every restricting region.             *)
LEMMA SummaryBounds ==
  ASSUME NEW exp \in [Entries -> ExpPMP]
  PROVE  /\ Lowest(exp) \in Word /\ Highest(exp) \in Word
         /\ \A i \in Restricting(exp) :
              Lowest(exp) <= exp[i].lbound /\ exp[i].ubound <= Highest(exp)
<1>1. \A i \in Restricting(exp) : exp[i].lbound \in Word /\ exp[i].ubound \in Word
  BY DEF Restricting, ExpPMP
<1>. DEFINE Lo == {UINT_MAX} \cup {exp[i].lbound : i \in Restricting(exp)}
            Hi == {0} \cup {exp[i].ubound : i \in Restricting(exp)}
<1>2. Lo \subseteq Word /\ Hi \subseteq Word
  BY <1>1, WordIsNat
<1>3. Min(Lo) \in Lo /\ \A y \in Lo : Min(Lo) <= y
  <2>1. Lo \in SUBSET Nat /\ Lo # {}
    BY <1>2, WordIsNat
  <2>. HIDE DEF Lo
  <2>. QED
    BY <2>1, MinOfNat
<1>4. Max(Hi) \in Hi /\ \A y \in Hi : y <= Max(Hi)
  <2>1. Hi \in SUBSET (0 .. UINT_MAX) /\ Hi # {}
    BY <1>2 DEF Word
  <2>. HIDE DEF Hi
  <2>. QED
    BY <2>1, MaxOfNat, WordIsNat
<1>5. Lowest(exp) = Min(Lo) /\ Highest(exp) = Max(Hi)
  BY DEF Lowest, Highest
<1>. QED
  BY <1>2, <1>3, <1>4, <1>5

-----------------------------------------------------------------------------
(* The inductive invariant.                                                *)

(* A locked entry has locked every address its region is made of.          *)
LocksHold ==
  \A i \in Entries : "L" \in pmpcfg[i] => \A j \in AddrsOf(i) : pmp_lockedaddr[j]

(* The summary of the copy: an unlocked entry allows everything, and the   *)
(* two bounds enclose whatever restricts.                                  *)
SummaryOK ==
  pmp_all_enabled =>
    /\ \E i \in Entries : CoversAll(pmp_expanded[i])
    /\ \A i \in Restricting(pmp_expanded) :
         /\ min_lbound <= pmp_expanded[i].lbound
         /\ pmp_expanded[i].ubound <= max_ubound

IInv == TypeOK /\ LocksHold /\ LockedInForce /\ SummaryOK

(* The state reset_state leaves satisfies the invariant: nothing is locked *)
(* and the copy is all zero.                                               *)
LEMMA InitIInv == Init => IInv
<1>. SUFFICES ASSUME Init PROVE IInv
  OBVIOUS
<1>1. pmpcfg \in [Entries -> SUBSET CfgBits] /\ pmp_lockedaddr \in [Entries -> BOOLEAN]
  BY DEF Init, CfgBits, RWX
<1>2. pmpaddr \in [Entries -> Word] /\ min_lbound \in Word /\ max_ubound \in Word
  BY WordIsNat, ResetAssumption DEF Init
<1>3. pmp_expanded \in [Entries -> ExpPMP] /\ pmp_all_enabled \in BOOLEAN
  BY WordIsNat DEF Init, ExpPMP
<1>4. \A i \in Entries : "L" \notin pmpcfg[i]
  BY DEF Init, RWX
<1>5. LocksHold /\ LockedInForce
  BY <1>4 DEF LocksHold, LockedInForce
<1>6. SummaryOK
  BY DEF Init, SummaryOK
<1>. QED
  BY <1>1, <1>2, <1>3, <1>5, <1>6 DEF IInv, TypeOK

(* sync_exp_pmp establishes what it is meant to, from any earlier copy.    *)
LEMMA SyncStep ==
  ASSUME TypeOK, SyncExpPmp,
         pmpcfg' \in [Entries -> SUBSET CfgBits], pmpaddr' \in [Entries -> Word]
  PROVE  /\ pmp_expanded' \in [Entries -> ExpPMP] /\ pmp_all_enabled' \in BOOLEAN
         /\ min_lbound' \in Word /\ max_ubound' \in Word
         /\ LockedInForce' /\ SummaryOK'
<1>1. \A i \in Entries : SyncEntry(i, pmpcfg', pmpaddr', pmp_expanded[i]) \in ExpPMP
  <2>. SUFFICES ASSUME NEW i \in Entries
                PROVE  SyncEntry(i, pmpcfg', pmpaddr', pmp_expanded[i]) \in ExpPMP
    OBVIOUS
  <2>1. [pmp_expanded[i] EXCEPT !.enable = FALSE] \in ExpPMP
    BY DEF TypeOK, ExpPMP
  <2>2. Expand(i, pmpcfg', pmpaddr') \in ExpPMP
    BY ExpandType
  <2>. QED
    BY <2>1, <2>2 DEF SyncEntry
<1>2. pmp_expanded' \in [Entries -> ExpPMP]
  BY <1>1 DEF SyncExpPmp
<1>3. pmp_all_enabled' \in BOOLEAN
  BY DEF SyncExpPmp
<1>4. min_lbound' = Lowest(pmp_expanded') /\ max_ubound' = Highest(pmp_expanded')
  BY DEF SyncExpPmp
<1>5. /\ min_lbound' \in Word /\ max_ubound' \in Word
      /\ \A i \in Restricting(pmp_expanded') :
           /\ min_lbound' <= pmp_expanded'[i].lbound
           /\ pmp_expanded'[i].ubound <= max_ubound'
  BY <1>2, <1>4, SummaryBounds
<1>6. SummaryOK'
  BY <1>5 DEF SyncExpPmp, SummaryOK
<1>7. LockedInForce'
  <2>. SUFFICES ASSUME NEW i \in Entries
                PROVE  IF Off(pmpcfg'[i])
                       THEN ~pmp_expanded'[i].enable
                       ELSE pmp_expanded'[i] = Expand(i, pmpcfg', pmpaddr')
    BY DEF LockedInForce
  <2>1. pmp_expanded'[i] = SyncEntry(i, pmpcfg', pmpaddr', pmp_expanded[i])
    BY DEF SyncExpPmp
  <2>2. pmp_expanded[i] \in ExpPMP
    BY DEF TypeOK
  <2>3. ~[pmp_expanded[i] EXCEPT !.enable = FALSE].enable
    BY <2>2 DEF ExpPMP
  <2>. QED
    BY <2>1, <2>3 DEF SyncEntry
<1>. QED
  BY <1>2, <1>3, <1>5, <1>6, <1>7

(* A write through a pmpcfg CSR leaves locked entries alone and locks the  *)
(* addresses of the entries it locks.                                      *)
LEMMA PmpcfgStep ==
  ASSUME IInv, NEW op \in CsrOps, NEW c \in CfgCsrs,
         NEW w \in [0 .. CSR_BYTES - 1 -> CfgWrites], PmpcfgRw(op, c, w)
  PROVE  /\ IInv'
         /\ pmpaddr' = pmpaddr
         /\ \A i \in Entries : "L" \in pmpcfg[i] => pmpcfg'[i] = pmpcfg[i]
<1>. DEFINE mine == {i \in Entries : i \div CSR_BYTES = c /\ "L" \notin pmpcfg[i]}
            Locks(i) == i \in mine /\ "L" \in pmpcfg'[i]
<1>1. \A i \in Entries : i % CSR_BYTES \in 0 .. CSR_BYTES - 1
  BY SizeAssumption DEF Entries
<1>2. \A i \in Entries : w[i % CSR_BYTES] \in SUBSET CfgBits
  BY <1>1, WriteAssumption
<1>3. \A i \in Entries : CsrByte(op, pmpcfg[i], w[i % CSR_BYTES]) \in SUBSET CfgBits
  <2>. SUFFICES ASSUME NEW i \in Entries
                PROVE  CsrByte(op, pmpcfg[i], w[i % CSR_BYTES]) \in SUBSET CfgBits
    OBVIOUS
  <2>. DEFINE b == w[i % CSR_BYTES]
  <2>1. pmpcfg[i] \in SUBSET CfgBits /\ b \in SUBSET CfgBits
    BY <1>2 DEF IInv, TypeOK
  <2>2. op \in {"write", "set", "clear"}
    BY WriteAssumption
  <2>. HIDE DEF b
  <2>3. CsrByte(op, pmpcfg[i], b) \in SUBSET CfgBits
    BY <2>1, <2>2 DEF CsrByte
  <2>. QED
    BY <2>3 DEF b
<1>4. pmpcfg' \in [Entries -> SUBSET CfgBits]
  BY <1>3 DEF PmpcfgRw, IInv, TypeOK
<1>5. pmpaddr' = pmpaddr /\ pmpaddr' \in [Entries -> Word]
  BY DEF PmpcfgRw, IInv, TypeOK
<1>6. pmp_lockedaddr' \in [Entries -> BOOLEAN]
  BY DEF PmpcfgRw, IInv, TypeOK
<1>7. \A i \in Entries : "L" \in pmpcfg[i] => pmpcfg'[i] = pmpcfg[i]
  BY DEF PmpcfgRw
<1>8. LocksHold'
  <2>. SUFFICES ASSUME NEW i \in Entries, "L" \in pmpcfg'[i]
                PROVE  /\ pmp_lockedaddr'[i]
                       /\ i > 0 /\ Tor(pmpcfg'[i]) => pmp_lockedaddr'[i - 1]
    BY DEF LocksHold, AddrsOf
  <2>0. i > 0 => i - 1 \in Entries /\ (i - 1) + 1 = i
    BY SizeAssumption DEF Entries
  <2>1. CASE "L" \in pmpcfg[i]
    <3>1. \A j \in AddrsOf(i) : pmp_lockedaddr[j]
      BY <2>1 DEF IInv, LocksHold
    <3>2. pmpcfg'[i] = pmpcfg[i]
      BY <2>1, <1>7
    <3>3. pmp_lockedaddr[i] /\ (i > 0 /\ Tor(pmpcfg'[i]) => pmp_lockedaddr[i - 1])
      BY <3>1, <3>2 DEF AddrsOf
    <3>. QED
      BY <3>3, <2>0 DEF PmpcfgRw
  <2>2. CASE "L" \notin pmpcfg[i]
    <3>1. i \div CSR_BYTES = c
      BY <2>2 DEF PmpcfgRw
    <3>2. Locks(i)
      BY <2>2, <3>1
    <3>3. pmp_lockedaddr'[i]
      BY <3>2 DEF PmpcfgRw
    <3>4. ASSUME i > 0, Tor(pmpcfg'[i]) PROVE pmp_lockedaddr'[i - 1]
      BY <3>2, <3>4, <2>0 DEF PmpcfgRw
    <3>. QED
      BY <3>3, <3>4
  <2>. QED
    BY <2>1, <2>2
<1>9. SyncExpPmp /\ TypeOK
  BY DEF PmpcfgRw, IInv
<1>. QED
  BY <1>4, <1>5, <1>6, <1>7, <1>8, <1>9, SyncStep DEF IInv, TypeOK

(* A write to a pmpaddr register reaches no address of a locked entry.     *)
LEMMA PmpaddrStep ==
  ASSUME IInv, NEW op \in CsrOps, NEW k \in Entries, NEW w \in AddrWrites,
         PmpaddrRw(op, k, w)
  PROVE  /\ IInv'
         /\ pmpcfg' = pmpcfg
         /\ \A i \in Entries : "L" \in pmpcfg[i] =>
              \A j \in AddrsOf(i) : pmpaddr'[j] = pmpaddr[j]
<1>1. PICK v \in Word : pmpaddr' = [pmpaddr EXCEPT ![k] = v]
  BY DEF PmpaddrRw
<1>2. UNCHANGED <<pmpcfg, pmp_lockedaddr, expanded>> /\ ~pmp_lockedaddr[k]
  BY DEF PmpaddrRw
<1>3. TypeOK'
  BY <1>1, <1>2 DEF IInv, TypeOK, expanded
<1>4. LocksHold' /\ SummaryOK'
  BY <1>2 DEF IInv, LocksHold, SummaryOK, AddrsOf, expanded
<1>5. ASSUME NEW i \in Entries, "L" \in pmpcfg[i], NEW j \in AddrsOf(i)
      PROVE  pmpaddr'[j] = pmpaddr[j]
  <2>1. j \in Entries
    BY SizeAssumption DEF AddrsOf, Entries
  <2>2. pmp_lockedaddr[j]
    BY <1>5 DEF IInv, LocksHold
  <2>. QED
    BY <1>1, <1>2, <2>1, <2>2 DEF IInv, TypeOK
<1>6. LockedInForce'
  <2>. SUFFICES ASSUME NEW i \in Entries, "L" \in pmpcfg[i]
                PROVE  Expand(i, pmpcfg, pmpaddr') = Expand(i, pmpcfg, pmpaddr)
    BY <1>2 DEF IInv, LockedInForce, expanded
  <2>1. pmpaddr'[i] = pmpaddr[i]
    BY <1>5 DEF AddrsOf
  <2>2. Tor(pmpcfg[i]) /\ i # 0 => pmpaddr'[i - 1] = pmpaddr[i - 1]
    <3>1. i # 0 => i > 0
      BY SizeAssumption DEF Entries
    <3>. QED
      BY <3>1, <1>5 DEF AddrsOf
  <2>. QED
    BY <2>1, <2>2, ExpandLocal
<1>. QED
  BY <1>2, <1>3, <1>4, <1>5, <1>6 DEF IInv

(* Every CSR instruction on a PMP register preserves the invariant.        *)
LEMMA NextIInv == IInv /\ [Next]_vars => IInv'
<1>. SUFFICES ASSUME IInv, [Next]_vars PROVE IInv'
  OBVIOUS
<1>1. CASE Next
  BY <1>1, PmpcfgStep, PmpaddrStep DEF Next
<1>2. CASE UNCHANGED vars
  BY <1>2 DEF vars, raw, expanded, IInv, TypeOK, LocksHold, LockedInForce,
              SummaryOK, AddrsOf
<1>. QED
  BY <1>1, <1>2

(* The inductive invariant holds in every reachable state: lock flags,     *)
(* locked entries, the copy and its summary always fit together.           *)
THEOREM IInvAlways == Spec => []IInv
  BY InitIInv, NextIInv, PTL DEF Spec

(* The PMP state is well typed in every reachable state: no sequence of    *)
(* CSR writes makes sync_exp_pmp produce a bound outside a word.           *)
THEOREM TypeCorrect == Spec => []TypeOK
<1>1. IInv => TypeOK
  BY DEF IInv
<1>. QED
  BY <1>1, IInvAlways, PTL

(* The lock of pmpcfg_rw and pmp_lockedaddr is permanent and covers every  *)
(* register of the entry.                                                  *)
THEOREM LockedEntriesFrozen == Spec => LockedFrozen
<1>. DEFINE Frozen == \A i \in Entries : "L" \in pmpcfg[i] =>
                        /\ pmpcfg'[i] = pmpcfg[i]
                        /\ \A j \in AddrsOf(i) : pmpaddr'[j] = pmpaddr[j]
<1>1. IInv /\ [Next]_vars => [Frozen]_vars
  <2>. SUFFICES ASSUME IInv, Next PROVE Frozen
    OBVIOUS
  <2>1. CASE \E op \in CsrOps, c \in CfgCsrs, w \in [0 .. CSR_BYTES - 1 -> CfgWrites] :
               PmpcfgRw(op, c, w)
    BY <2>1, PmpcfgStep
  <2>2. CASE \E op \in CsrOps, i \in Entries, w \in AddrWrites : PmpaddrRw(op, i, w)
    BY <2>2, PmpaddrStep
  <2>. QED
    BY <2>1, <2>2 DEF Next
<1>. QED
  BY <1>1, IInvAlways, PTL DEF Spec, LockedFrozen

(* A locked entry is enforced with exactly the region its registers name,  *)
(* although pmpaddr writes never refresh the copy.                         *)
THEOREM LockedEntriesInForce == Spec => []LockedInForce
<1>1. IInv => LockedInForce
  BY DEF IInv
<1>. QED
  BY <1>1, IInvAlways, PTL

(* Where the short circuit applies, every first matching entry is RWX, and *)
(* there is one unless the mode is M, which needs none.                    *)
LEMMA ShortCircuitByte ==
  ASSUME IInv, NEW a \in Nat, a < UINT_MAX, ShortCircuit(a, a),
         NEW priv \in PrivModes, NEW perm \in RWX
  PROVE  Permits(ScanByte(priv, a), priv, perm)
<1>. DEFINE hits == {i \in Visible(priv) : a \in Region(i)}
<1>2. \A i \in Entries : pmp_expanded[i] \in ExpPMP
  BY DEF IInv, TypeOK
<1>3. \A i \in hits : pmp_expanded[i].lxwr = RWX
  <2>. SUFFICES ASSUME NEW i \in hits, pmp_expanded[i].lxwr # RWX PROVE FALSE
    OBVIOUS
  <2>1. i \in Restricting(pmp_expanded) /\ i \in Entries
    BY DEF Visible, Restricting
  <2>2. min_lbound <= pmp_expanded[i].lbound /\ pmp_expanded[i].ubound <= max_ubound
    BY <2>1 DEF IInv, SummaryOK, ShortCircuit
  <2>3. /\ pmp_expanded[i].lbound \in Nat /\ pmp_expanded[i].ubound \in Nat
        /\ min_lbound \in Nat /\ max_ubound \in Nat
    BY <1>2, <2>1, WordIsNat DEF ExpPMP, IInv, TypeOK
  <2>4. pmp_expanded[i].lbound <= a /\ a < pmp_expanded[i].ubound
    BY <2>3 DEF Region
  <2>. QED
    BY <2>2, <2>3, <2>4 DEF ShortCircuit
<1>4. hits \in SUBSET Nat
  BY SizeAssumption DEF Visible, Entries
<1>5. CASE hits = {}
  <2>1. PICK i \in Entries : CoversAll(pmp_expanded[i])
    BY DEF IInv, SummaryOK, ShortCircuit
  <2>2. priv # MMode => i \in hits
    BY <2>1, WordIsNat DEF CoversAll, Visible, Region
  <2>3. priv = MMode /\ ScanByte(priv, a) = NoMatch
    BY <1>5, <2>2 DEF ScanByte
  <2>. QED
    BY <2>3 DEF Permits, NoMatch
<1>6. CASE hits # {}
  <2>1. Min(hits) \in hits
    BY <1>4, <1>6, MinOfNat
  <2>2. ScanByte(priv, a) = RWX
    BY <1>3, <1>6, <2>1 DEF ScanByte
  <2>. QED
    BY <2>2 DEF Permits, RWX
<1>. QED
  BY <1>5, <1>6

(* "It is certainly RWX" (chk_pmp_exp): the short circuit agrees with the  *)
(* scan in every privilege mode.                                           *)
THEOREM ShortCircuitIsSound == Spec => []ShortCircuitSound
<1>1. \A a \in Memory : a \in Nat /\ a < UINT_MAX
  BY MemAssumption, WordIsNat DEF Memory
<1>2. IInv => ShortCircuitSound
  BY <1>1, ShortCircuitByte DEF ShortCircuitSound
<1>. QED
  BY <1>2, IInvAlways, PTL

-----------------------------------------------------------------------------
(* Accesses of several bytes.                                              *)

Fours == {4 * q : q \in Nat}

(* Powers of two from 4 on are multiples of 4.                             *)
LEMMA PowerOfFours ==
  ASSUME NEW n \in 2 .. XLEN
  PROVE  2^(n - 2) \in Nat \ {0} /\ 2^n = 4 * 2^(n - 2)
<1>1. n - 2 \in 0 .. XLEN - 1 /\ n - 1 \in 0 .. XLEN - 1 /\ n - 2 \in 0 .. XLEN
  BY SizeAssumption
<1>2. 2^(n - 1) = 2 * 2^(n - 2)
  <2>1. (n - 2) + 1 = n - 1
    BY SizeAssumption
  <2>. QED
    BY <1>1, <2>1, PowerAssumption
<1>3. 2^n = 2 * 2^(n - 1)
  <2>1. (n - 1) + 1 = n
    BY SizeAssumption
  <2>. QED
    BY <1>1, <2>1, PowerAssumption
<1>4. 2^(n - 2) \in Nat \ {0}
  BY <1>1, PowerAssumption
<1>. QED
  BY <1>2, <1>3, <1>4

(* Reduction to a word keeps multiples of 4.                               *)
LEMMA WordOfFours ==
  ASSUME NEW x \in Fours
  PROVE  x % 2^XLEN \in Fours
<1>1. PICK q \in Nat : x = 4 * q
  BY DEF Fours
<1>2. PICK k \in Nat \ {0} : 2^XLEN = 4 * k
  <2>1. XLEN \in 2 .. XLEN
    BY SizeAssumption
  <2>. QED
    BY <2>1, PowerOfFours
<1>. DEFINE m == 2^XLEN
            d == x \div m
            r == x % m
<1>3. m = 4 * k /\ m \in Nat \ {0}
  BY <1>2
<1>. HIDE DEF m
<1>4. d \in Nat /\ r \in Nat /\ x = m * d + r
  <2>1. x \in Nat
    BY <1>1
  <2>2. /\ x \div m \in Nat /\ x % m \in 0 .. m - 1 /\ x % m <= x
        /\ x = m * (x \div m) + (x % m)
    BY <1>3, <2>1, Euclid
  <2>. QED
    BY <1>3, <2>2
<1>. HIDE DEF d, r
<1>5. m * d = 4 * (k * d) /\ k * d \in Nat
  BY <1>3, <1>4
<1>6. r = 4 * (q - k * d) /\ q - k * d \in Nat
  BY <1>1, <1>4, <1>5
<1>7. r \in Fours
  BY <1>6 DEF Fours
<1>. QED
  BY <1>7 DEF r, m

(* So does a shift by two or more.                                         *)
LEMMA ShlOfFours ==
  ASSUME NEW x \in Nat, NEW n \in Nat, n % XLEN >= 2
  PROVE  Shl(x, n) \in Fours
<1>1. n % XLEN \in 2 .. XLEN
  BY SizeAssumption
<1>2. PICK k \in Nat : 2^(n % XLEN) = 4 * k
  BY <1>1, PowerOfFours
<1>3. x * 2^(n % XLEN) = 4 * (x * k) /\ x * k \in Nat
  BY <1>2
<1>4. x * 2^(n % XLEN) \in Fours
  BY <1>3 DEF Fours
<1>. QED
  BY <1>4, WordOfFours DEF Shl

(* Every region sync_exp_pmp makes is one of whole 4-byte words, is all    *)
(* of the address space, or, where the shift counts of NAPOT exceed the    *)
(* word width and wrap, lies below address 4, where there is no memory.    *)
Regular(e) ==
  \/ e.lbound \in Fours /\ e.ubound \in Fours
  \/ e.lbound = 0 /\ e.ubound = UINT_MAX
  \/ e.ubound <= 4

(* A NAPOT entry.  With s trailing ones its size is 4 * 2^s; the two       *)
(* largest values of s overflow the shift count.                           *)
LEMMA NapotRegular ==
  ASSUME NEW a \in Word, ~AllOnes(a)
  PROVE  LET s  == TrailingOnes(a)
             lb == Shl(a \div 2^s, s + 2)
             ub == (lb + Shl(1, s + 2)) % 2^XLEN
         IN (lb \in Fours /\ ub \in Fours) \/ ub <= 4
<1>. DEFINE s == TrailingOnes(a)
            h == a \div 2^s
            lb == Shl(h, s + 2)
            ub == (lb + Shl(1, s + 2)) % 2^XLEN
            m == 2^XLEN
<1>1. s \in ZeroBits(a)
  <2>1. ZeroBits(a) \in SUBSET Nat
    BY SizeAssumption DEF ZeroBits
  <2>. QED
    BY <2>1, MinOfNat DEF AllOnes, TrailingOnes
<1>2. s \in 0 .. XLEN - 1 /\ (a \div 2^s) % 2 = 0
  BY <1>1 DEF ZeroBits, BitOf
<1>. HIDE DEF s
<1>3. a \in Nat /\ a < m /\ m \in Nat \ {0}
  BY SizeAssumption, PowerAssumption DEF Word, UINT_MAX
<1>4. 2^s \in Nat \ {0} /\ h \in Nat /\ 2^s * h <= a
  <2>1. 2^s \in Nat \ {0}
    BY <1>2, PowerAssumption, SizeAssumption
  <2>. DEFINE c == 2^s
  <2>2. c \in Nat \ {0}
    BY <2>1
  <2>. HIDE DEF c
  <2>a. /\ a \div c \in Nat /\ a % c \in 0 .. c - 1 /\ a % c <= a
        /\ a = c * (a \div c) + (a % c)
    BY <1>3, <2>2, Euclid
  <2>3. a \div c \in Nat /\ a % c \in Nat /\ a = c * (a \div c) + (a % c)
    BY <2>2, <2>a
  <2>4. a \div c \in Nat /\ c * (a \div c) <= a
    <3>. DEFINE y == c * (a \div c)
    <3>1. y \in Nat
      BY <2>2, <2>3
    <3>. HIDE DEF y
    <3>2. y <= a
      <4>1. a = y + (a % c)
        BY <2>3 DEF y
      <4>. QED
        BY <1>3, <2>3, <3>1, <4>1
    <3>. QED
      BY <2>3, <3>2 DEF y
  <2>. QED
    BY <2>1, <2>4 DEF c
<1>5. CASE s + 2 < XLEN
  <2>1. (s + 2) % XLEN = s + 2 /\ s + 2 \in Nat
    <3>1. s + 2 \in Nat /\ s + 2 < XLEN + XLEN /\ XLEN \in Nat \ {0}
      BY <1>2, <1>5, SizeAssumption
    <3>. QED
      BY <1>5, <3>1, ModOnce
  <2>2. lb \in Fours /\ Shl(1, s + 2) \in Fours
    BY <1>2, <1>4, <2>1, ShlOfFours
  <2>. HIDE DEF lb
  <2>3. lb + Shl(1, s + 2) \in Fours
    <3>1. \A x, y \in Nat : 4 * x + 4 * y = 4 * (x + y) /\ x + y \in Nat
      OBVIOUS
    <3>. QED
      BY <2>2, <3>1 DEF Fours
  <2>4. ub \in Fours
    BY <2>3, WordOfFours
  <2>. QED
    BY <2>2, <2>4 DEF lb, s
<1>6. CASE s + 2 = XLEN
  <2>1. (s + 2) % XLEN = 0
    BY <1>6, SizeAssumption, ModOnce
  <2>2. m = 4 * 2^s /\ m >= 4
    <3>1. XLEN \in 2 .. XLEN /\ XLEN - 2 = s
      BY <1>2, <1>6, SizeAssumption
    <3>. QED
      BY <1>4, <3>1, PowerOfFours
  <2>3. h < 4 /\ h % 2 = 0
    <3>. DEFINE c == 2^s
    <3>1. c \in Nat \ {0} /\ c * h < c * 4
      BY <1>3, <1>4, <2>2
    <3>. HIDE DEF c, h
    <3>. QED
      BY <1>2, <1>4, <3>1, Cancel DEF h
  <2>4. h \in {0, 2}
    BY <1>4, <2>3
  <2>5. m >= 8
    <3>1. s >= 1 /\ s - 1 \in 0 .. XLEN - 1 /\ (s - 1) + 1 = s /\ s - 1 \in 0 .. XLEN
      BY <1>2, <1>6, SizeAssumption
    <3>2. 2^s = 2 * 2^(s - 1) /\ 2^(s - 1) \in Nat \ {0}
      BY <3>1, PowerAssumption
    <3>. QED
      BY <2>2, <3>2
  <2>6. lb = h /\ Shl(1, s + 2) = 1
    <3>1. h * 1 = h /\ 1 * 1 = 1
      BY <1>4
    <3>. HIDE DEF m, h
    <3>2. h % m = h /\ 1 % m = 1
      BY <1>3, <2>4, <2>5, ModOnce
    <3>. QED
      BY <2>1, <3>1, <3>2, PowerAssumption DEF Shl, m
  <2>7. ub = h + 1
    <3>. HIDE DEF m, h, lb
    <3>1. (h + 1) % m = h + 1
      <4>1. h + 1 \in Nat /\ h + 1 < m /\ h + 1 < m + m
        BY <1>3, <2>4, <2>5
      <4>. QED
        BY <1>3, <4>1, ModOnce
    <3>. QED
      BY <2>6, <3>1 DEF m
  <2>. QED
    BY <2>4, <2>7 DEF s
<1>7. CASE s + 1 = XLEN
  <2>1. (s + 2) % XLEN = 1
    <3>1. s + 2 \in Nat /\ s + 2 = XLEN + 1 /\ XLEN + 1 < XLEN + XLEN
      BY <1>2, <1>7, SizeAssumption
    <3>. QED
      BY <3>1, SizeAssumption, ModOnce
  <2>2. m = 2 * 2^s
    <3>1. s \in 0 .. XLEN - 1
      BY <1>2
    <3>. QED
      BY <1>7, <3>1, PowerAssumption
  <2>3. h = 0
    <3>. DEFINE c == 2^s
    <3>1. c \in Nat \ {0} /\ c * h < c * 2
      BY <1>3, <1>4, <2>2
    <3>2. h % 2 = 0
      BY <1>2
    <3>. HIDE DEF c, h
    <3>3. h < 2
      BY <1>4, <3>1, Cancel
    <3>. QED
      BY <1>4, <3>2, <3>3
  <2>4. 2^1 = 2
    <3>1. 0 \in 0 .. XLEN - 1 /\ 0 + 1 = 1
      BY SizeAssumption
    <3>. QED
      BY <3>1, PowerAssumption
  <2>5. m >= 8
    <3>1. s - 2 \in 0 .. XLEN /\ s \in 2 .. XLEN
      BY <1>2, <1>7, SizeAssumption
    <3>2. 2^s = 4 * 2^(s - 2) /\ 2^(s - 2) \in Nat \ {0}
      BY <3>1, PowerOfFours
    <3>. QED
      BY <2>2, <3>2
  <2>6. lb = 0 /\ Shl(1, s + 2) = 2
    <3>. HIDE DEF m, h
    <3>1. 0 % m = 0 /\ 2 % m = 2 /\ h * 2 = 0 /\ 1 * 2 = 2
      BY <1>3, <2>3, <2>5, ModOnce
    <3>. QED
      BY <2>1, <2>4, <3>1 DEF Shl, m
  <2>7. ub = 2
    <3>. HIDE DEF m, h, lb
    <3>1. (0 + 2) % m = 2
      BY <1>3, <2>5, ModOnce
    <3>. QED
      BY <2>6, <3>1 DEF m
  <2>. QED
    BY <2>7 DEF s
<1>. QED
  BY <1>2, <1>5, <1>6, <1>7, SizeAssumption

(* The region of every entry, whatever its mode and its addresses.         *)
LEMMA ExpandRegular ==
  ASSUME NEW cfg, NEW addr \in [Entries -> Word], NEW i \in Entries
  PROVE  Regular(Expand(i, cfg, addr))
<1>1. addr[i] \in Word /\ addr[i] \in Nat /\ (i # 0 => addr[i - 1] \in Nat)
  <2>1. i # 0 => i - 1 \in Entries
    BY SizeAssumption DEF Entries
  <2>. QED
    BY <2>1, WordIsNat
<1>2. 2 % XLEN = 2 /\ 0 \in Fours /\ 4 \in Fours
  <2>1. 2 % XLEN = 2
    BY SizeAssumption, ModOnce
  <2>2. 0 = 4 * 0 /\ 4 = 4 * 1
    OBVIOUS
  <2>. QED
    BY <2>1, <2>2 DEF Fours
<1>3. Shl(addr[i], 2) \in Fours /\ (i # 0 => Shl(addr[i - 1], 2) \in Fours)
  BY <1>1, <1>2, ShlOfFours
<1>4. CASE Tor(cfg[i])
  BY <1>2, <1>3, <1>4 DEF Expand, Regular, Lbound, Ubound
<1>5. CASE ~Tor(cfg[i]) /\ Na4(cfg[i])
  <2>1. Shl(addr[i], 2) + 4 \in Fours
    <3>1. PICK x \in Nat : Shl(addr[i], 2) = 4 * x
      BY <1>3 DEF Fours
    <3>2. Shl(addr[i], 2) + 4 = 4 * (x + 1) /\ x + 1 \in Nat
      BY <3>1
    <3>. QED
      BY <3>2 DEF Fours
  <2>2. (Shl(addr[i], 2) + 4) % 2^XLEN \in Fours
    BY <2>1, WordOfFours
  <2>. QED
    BY <1>3, <1>5, <2>2 DEF Expand, Regular, Lbound, Ubound
<1>6. CASE ~Tor(cfg[i]) /\ ~Na4(cfg[i]) /\ AllOnes(addr[i])
  BY <1>6 DEF Expand, Regular, Lbound, Ubound
<1>7. CASE ~Tor(cfg[i]) /\ ~Na4(cfg[i]) /\ ~AllOnes(addr[i])
  <2>1. LET s  == TrailingOnes(addr[i])
            lb == Shl(addr[i] \div 2^s, s + 2)
            ub == (lb + Shl(1, s + 2)) % 2^XLEN
        IN (lb \in Fours /\ ub \in Fours) \/ ub <= 4
    BY <1>1, <1>7, NapotRegular
  <2>. QED
    BY <1>7, <2>1 DEF Expand, Regular, Lbound, Ubound
<1>. QED
  BY <1>4, <1>5, <1>6, <1>7

(* Every enabled entry of the copy, fresh or stale, has such a region.     *)
RegionsRegular == \A i \in Entries : pmp_expanded[i].enable => Regular(pmp_expanded[i])

(* Only sync_exp_pmp makes regions, and it makes none of another kind: the *)
(* copy the checks of mem_fetch and mem_store use stays regular.           *)
THEOREM RegionsAlwaysRegular == Spec => []RegionsRegular
<1>1. Init => RegionsRegular
  BY DEF Init, RegionsRegular
<1>2. TypeOK /\ TypeOK' /\ RegionsRegular /\ [Next]_vars => RegionsRegular'
  <2>. SUFFICES ASSUME TypeOK, TypeOK', RegionsRegular, [Next]_vars
                PROVE  RegionsRegular'
    OBVIOUS
  <2>1. CASE SyncExpPmp
    <3>. SUFFICES ASSUME NEW i \in Entries, pmp_expanded'[i].enable
                  PROVE  Regular(pmp_expanded'[i])
      BY DEF RegionsRegular, Regular
    <3>1. pmp_expanded'[i] = SyncEntry(i, pmpcfg', pmpaddr', pmp_expanded[i])
      BY <2>1 DEF SyncExpPmp
    <3>2. ~[pmp_expanded[i] EXCEPT !.enable = FALSE].enable
      BY DEF TypeOK, ExpPMP
    <3>3. pmp_expanded'[i] = Expand(i, pmpcfg', pmpaddr')
      BY <3>1, <3>2 DEF SyncEntry
    <3>4. pmpaddr' \in [Entries -> Word]
      BY DEF TypeOK
    <3>. QED
      BY <3>3, <3>4, ExpandRegular
  <2>2. CASE UNCHANGED pmp_expanded
    BY <2>2 DEF RegionsRegular, Regular
  <2>3. SyncExpPmp \/ UNCHANGED pmp_expanded
    BY DEF Next, PmpcfgRw, PmpaddrRw, vars, expanded
  <2>. QED
    BY <2>1, <2>2, <2>3
<1>. QED
  BY <1>1, <1>2, TypeCorrect, PTL DEF Spec

(* An aligned access that shares a byte with a regular region has one of   *)
(* its ends in it.                                                         *)
LEMMA EndsSuffice ==
  ASSUME NEW lb \in Nat, NEW ub \in Nat,
         \/ lb \in Fours /\ ub \in Fours
         \/ lb = 0 /\ ub = UINT_MAX
         \/ ub <= 4,
         NEW a \in Nat, a >= 4, NEW len \in {1, 2, 4, 8}, a % len = 0, a + len - 1 < UINT_MAX,
         NEW b \in a .. a + len - 1, lb <= b, b < ub
  PROVE  (lb <= a /\ a < ub) \/ (lb <= a + len - 1 /\ a + len - 1 < ub)
<1>1. CASE ub <= 4
  BY <1>1
<1>2. CASE lb = 0 /\ ub = UINT_MAX
  BY <1>2, WordIsNat
<1>3. CASE lb \in Fours /\ ub \in Fours
  <2>1. PICK q \in Nat, r \in Nat : lb = 4 * q /\ ub = 4 * r
    BY <1>3 DEF Fours
  <2>2. CASE len = 1
    BY <2>2
  <2>3. CASE len = 2
    BY <2>1, <2>3
  <2>4. CASE len = 4
    BY <2>1, <2>4
  <2>5. CASE len = 8
    BY <2>1, <2>5
  <2>. QED
    BY <2>2, <2>3, <2>4, <2>5
<1>. QED
  BY <1>1, <1>2, <1>3

(* The scan of chk_pmp_range_exp for an aligned access decides as the scan *)
(* of chk_pmp_exp does for each of its bytes.                              *)
LEMMA RangeAsBytes ==
  ASSUME TypeOK, RegionsRegular, NEW priv \in PrivModes, NEW perm \in RWX,
         NEW a \in Nat, a >= 4, NEW len \in {1, 2, 4, 8}, a % len = 0, a + len - 1 < UINT_MAX,
         Permits(ScanRange(priv, a, a + len - 1), priv, perm), NEW b \in a .. a + len - 1
  PROVE  Permits(ScanByte(priv, b), priv, perm)
<1>. DEFINE hi == a + len - 1
            ends == {i \in Visible(priv) : a \in Region(i) \/ hi \in Region(i)}
            hits == {i \in Visible(priv) : b \in Region(i)}
<1>1. hi \in Nat /\ b \in Nat /\ a <= b /\ b <= hi
  OBVIOUS
<1>2. \A i \in Visible(priv) :
        /\ pmp_expanded[i].enable /\ i \in Entries
        /\ pmp_expanded[i].lbound \in Nat /\ pmp_expanded[i].ubound \in Nat
  BY WordIsNat DEF Visible, TypeOK, ExpPMP
<1>3. \A i \in Visible(priv), x \in Nat :
        x \in Region(i) <=> pmp_expanded[i].lbound <= x /\ x < pmp_expanded[i].ubound
  BY <1>2 DEF Region
<1>4. hits \subseteq ends
  <2>. SUFFICES ASSUME NEW i \in hits
                PROVE  i \in ends
    OBVIOUS
  <2>. DEFINE lb == pmp_expanded[i].lbound
              ub == pmp_expanded[i].ubound
  <2>1. i \in Visible(priv) /\ lb \in Nat /\ ub \in Nat /\ lb <= b /\ b < ub
    BY <1>1, <1>2, <1>3
  <2>2. \/ lb \in Fours /\ ub \in Fours
        \/ lb = 0 /\ ub = UINT_MAX
        \/ ub <= 4
    BY <1>2, <2>1 DEF RegionsRegular, Regular
  <2>. HIDE DEF lb, ub
  <2>3. (lb <= a /\ a < ub) \/ (lb <= hi /\ hi < ub)
    BY <2>1, <2>2, EndsSuffice
  <2>. QED
    BY <1>1, <1>3, <2>1, <2>3 DEF lb, ub
<1>5. CASE ends = {}
  BY <1>4, <1>5 DEF ScanRange, ScanByte
<1>6. CASE ends # {}
  <2>. DEFINE i == Min(ends)
  <2>0. ends \in SUBSET Nat /\ hits \in SUBSET Nat
    BY SizeAssumption DEF Visible, Entries
  <2>1. i \in ends /\ \A j \in ends : i <= j
    BY <1>6, <2>0, MinOfNat
  <2>2. {a, hi} \subseteq Region(i) /\ ScanRange(priv, a, hi) = pmp_expanded[i].lxwr
    BY <1>6 DEF ScanRange, Permits, Crosses, RWX
  <2>. HIDE DEF i
  <2>3. i \in hits
    BY <1>1, <1>2, <1>3, <2>1, <2>2
  <2>4. Min(hits) \in hits /\ \A j \in hits : Min(hits) <= j
    BY <2>0, <2>3, MinOfNat
  <2>5. Min(hits) = i
    <3>1. i \in Nat /\ Min(hits) \in Nat
      BY <2>0, <2>3, <2>4
    <3>2. i <= Min(hits) /\ Min(hits) <= i
      BY <1>4, <2>1, <2>3, <2>4
    <3>. QED
      BY <3>1, <3>2
  <2>6. ScanByte(priv, b) = pmp_expanded[i].lxwr
    BY <2>3, <2>5 DEF ScanByte
  <2>. QED
    BY <2>2, <2>6
<1>. QED
  BY <1>5, <1>6

(* Comparing only the ends of an access with the entries, as               *)
(* chk_pmp_range_exp does, lets no aligned access of mem_fetch or          *)
(* mem_store touch a byte that its own first matching entry forbids,       *)
(* whatever overlapping regions the guest has programmed.                  *)
THEOREM AlignedGrantsSound == Spec => []AlignedGrantSound
<1>1. IInv /\ RegionsRegular => AlignedGrantSound
  <2>. SUFFICES ASSUME IInv, RegionsRegular, NEW len \in {1, 2, 4, 8}, NEW a \in Memory,
                       a % len = 0, NEW priv \in PrivModes, NEW perm \in RWX,
                       Granted(priv, perm, a, len), NEW b \in a .. a + len - 1
                PROVE  Permits(ScanByte(priv, b), priv, perm)
    BY DEF AlignedGrantSound, GrantSound
  <2>. DEFINE hi == a + len - 1
  <2>0. TypeOK /\ min_lbound \in Nat /\ max_ubound \in Nat
    BY WordIsNat DEF IInv, TypeOK
  <2>1. a \in Nat /\ a >= 4 /\ hi < UINT_MAX /\ hi \in Nat
    BY MemAssumption, WordIsNat DEF Memory
  <2>2. b \in Nat /\ a <= b /\ b <= hi /\ b < UINT_MAX
    BY <2>1, WordIsNat
  <2>3. CASE ShortCircuit(a, hi)
    <3>1. ShortCircuit(b, b)
      BY <2>0, <2>1, <2>2, <2>3 DEF ShortCircuit
    <3>. QED
      BY <2>2, <3>1, ShortCircuitByte
  <2>4. CASE ~ShortCircuit(a, hi) /\ len # 1
    <3>1. Permits(ScanRange(priv, a, hi), priv, perm)
      BY <2>4 DEF Granted, ChkPmpRangeExp
    <3>. QED
      BY <2>0, <2>1, <3>1, RangeAsBytes
  <2>5. CASE ~ShortCircuit(a, hi) /\ len = 1
    <3>1. hi = a /\ b = a
      BY <2>1, <2>2, <2>5
    <3>. QED
      BY <2>5, <3>1 DEF Granted, ChkPmpExp
  <2>. QED
    BY <2>3, <2>4, <2>5
<1>. QED
  BY <1>1, IInvAlways, RegionsAlwaysRegular, PTL
==============================================================================
