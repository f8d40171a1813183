------------------------------ MODULE MmuProofs ------------------------------
(***************************************************************************)
(* Theorems about Mmu for every number of levels, size of tables and TLB,  *)
(* hash function and page table.  The walk is a recursive function; what   *)
(* is said of it is proved by induction over its rounds (UptoInduction).   *)
(***************************************************************************)
EXTENDS Mmu, WellFoundedInduction, FiniteSetTheorems, TLAPS

-----------------------------------------------------------------------------
(* Induction up to a bound, and division.                                  *)

(* A nonempty set of naturals has a least element, so Min picks it.        *)
LEMMA MinOfNat ==
  ASSUME NEW S \in SUBSET Nat, S # {}
  PROVE  Min(S) \in S /\ \A y \in S : Min(S) <= y
<1>1. PICK x \in S : \A y \in S : ~(<<y, x>> \in OpToRel(<, Nat))
  BY WFMin, NatLessThanWellFounded
<1>2. \A u, v \in Nat : u < v => <<u, v>> \in OpToRel(<, Nat)
  BY DEF OpToRel
<1>3. \A y \in S : ~(y < x)
  BY <1>1, <1>2
<1>4. \A y \in S : x <= y
  BY <1>3
<1>. QED
  BY <1>4 DEF Min

(* A nonempty set of naturals with an upper bound has a greatest element.  *)
LEMMA MaxOfNat ==
  ASSUME NEW n \in Nat, NEW S \in SUBSET (0 .. n), S # {}
  PROVE  Max(S) \in S /\ \A y \in S : y <= Max(S)
<1>. DEFINE T == {n - y : y \in S}
<1>a. \A y \in S : n - y \in Nat
  OBVIOUS
<1>1. T \in SUBSET Nat /\ T # {}
  BY <1>a
<1>2. Min(T) \in T /\ \A z \in T : Min(T) <= z
  BY <1>1, MinOfNat
<1>3. PICK x \in S : Min(T) = n - x
  BY <1>2
<1>4. \A y \in S : n - x <= n - y
  BY <1>2, <1>3
<1>5. \A y \in S : x >= y
  BY <1>4
<1>. QED
  BY <1>5 DEF Max

(* What holds of 0 and passes from k - 1 to k, up to n, holds up to n.     *)
LEMMA UptoInduction ==
  ASSUME NEW n \in Nat, NEW S, 0 \in S, \A k \in 1 .. n : k - 1 \in S => k \in S
  PROVE  \A k \in 0 .. n : k \in S
<1>. DEFINE T == {k \in 0 .. n : k \notin S}
            m == Min(T)
<1>. SUFFICES ASSUME T # {}
              PROVE  FALSE
  OBVIOUS
<1>1. m \in T /\ \A y \in T : m <= y
  BY MinOfNat
<1>. HIDE DEF m
<1>2. m \in 1 .. n /\ m \notin S
  BY <1>1
<1>3. m - 1 \in 0 .. n /\ m - 1 \notin T
  BY <1>1, <1>2
<1>. QED
  BY <1>2, <1>3

(* Division with remainder.                                                *)
LEMMA Euclid ==
  ASSUME NEW a \in Nat, NEW m \in Nat \ {0}
  PROVE  /\ a \div m \in Nat /\ a % m \in 0 .. m - 1 /\ a % m <= a
         /\ a = m * (a \div m) + (a % m)
OBVIOUS

(* The quotient is the only number between the bounds.                     *)
LEMMA EuclidUnique ==
  ASSUME NEW a \in Nat, NEW m \in Nat \ {0}, NEW c \in Nat, m * c <= a, a < m * c + m
  PROVE  a \div m = c
OBVIOUS

(* A common factor does not change an order.                               *)
LEMMA Cancel ==
  ASSUME NEW q \in Nat \ {0}, NEW x \in Int, NEW y \in Int, q * x < q * y
  PROVE  x < y
OBVIOUS

(* Nor does multiplying both sides.                                        *)
LEMMA Mono ==
  ASSUME NEW q \in Nat, NEW x \in Int, NEW y \in Int, x <= y
  PROVE  q * x <= q * y
OBVIOUS

(* Dropping a remainder does not matter to a division by a multiple.       *)
LEMMA DivOfBase ==
  ASSUME NEW a \in Nat, NEW q \in Nat \ {0}, NEW r \in Nat \ {0}
  PROVE  (a - (a % q)) \div (q * r) = a \div (q * r)
<1>. DEFINE m == q * r
            b == a \div q
            c == a \div m
<1>1. m \in Nat \ {0}
  OBVIOUS
<1>2. b \in Nat /\ a = q * b + (a % q) /\ a % q \in 0 .. q - 1
  BY Euclid
<1>3. c \in Nat /\ m * c <= a /\ a < m * c + m
  <2>. HIDE DEF m
  <2>. QED
    BY Euclid, <1>1
<1>. HIDE DEF b, c
<1>4. m * c = q * (r * c) /\ m * c + m = q * (r * c + r) /\ r * c \in Nat
  BY <1>3
<1>5. q * (r * c) < q * (b + 1)
  BY <1>2, <1>3, <1>4
<1>6. r * c <= b
  BY <1>4, <1>2, <1>5, Cancel
<1>7. m * c <= q * b
  BY <1>4, <1>6, <1>2, Mono
<1>. HIDE DEF m
<1>8. a - (a % q) = q * b /\ q * b \in Nat /\ q * b < m * c + m
  <2>. DEFINE d == q * b
              e == m * c
              x == a % q
  <2>1. d \in Nat /\ e \in Nat /\ a = d + x /\ x \in Nat /\ a < e + m
    BY <1>1, <1>2, <1>3
  <2>. HIDE DEF d, e, x
  <2>2. a - x = d /\ d \in Nat /\ d < e + m
    BY <2>1, <1>1
  <2>. QED
    BY <2>2 DEF d, e, x
<1>9. (a - (a % q)) \div m = c
  BY <1>1, <1>3, <1>7, <1>8, EuclidUnique
<1>. QED
  BY <1>9 DEF c, m

-----------------------------------------------------------------------------
(* Page numbers.                                                           *)

(* The size of a superpage is a positive number.                           *)
LEMMA PowerIsPositive ==
  ASSUME NEW i \in 0 .. LEVELS
  PROVE  FANOUT^i \in Nat \ {0}
BY MmuPowerAssumption

(* Pages are naturals, and 0 is one.                                       *)
LEMMA PagesAreNat == Pages \subseteq Nat /\ 0 \in Pages
<1>1. FANOUT^LEVELS \in Nat \ {0}
  BY PowerIsPositive, MmuSizeAssumption
<1>. QED
  BY <1>1 DEF Pages

(* The first page of a superpage is a page.                                *)
LEMMA BaseIsPage ==
  ASSUME NEW p \in Pages, NEW i \in Sizes
  PROVE  Base(p, i) \in Pages
<1>. DEFINE q == FANOUT^i
            n == FANOUT^LEVELS
<1>1. q \in Nat \ {0} /\ n \in Nat \ {0}
  BY PowerIsPositive, MmuSizeAssumption DEF Sizes
<1>2. p \in 0 .. n - 1 /\ p \in Nat
  BY PagesAreNat DEF Pages
<1>. HIDE DEF q, n
<1>3. p % q \in 0 .. q - 1 /\ p % q <= p
  BY <1>1, <1>2, Euclid
<1>4. p - (p % q) \in 0 .. n - 1
  BY <1>1, <1>2, <1>3
<1>. QED
  BY <1>4 DEF Base, Pages, q, n

(* An index is one into a table.                                           *)
LEMMA IndexInTable ==
  ASSUME NEW p \in Pages, NEW i \in Sizes
  PROVE  Index(p, i) \in 0 .. FANOUT - 1
<1>. DEFINE q == FANOUT^i
<1>1. q \in Nat \ {0} /\ p \in Nat
  BY PowerIsPositive, PagesAreNat, MmuSizeAssumption DEF Sizes
<1>. HIDE DEF q
<1>2. p \div q \in Nat
  BY <1>1, Euclid
<1>3. (p \div q) % FANOUT \in 0 .. FANOUT - 1
  BY <1>2, MmuSizeAssumption
<1>. QED
  BY <1>3 DEF Index, q

(* All pages of a superpage share the indices down to its level.           *)
LEMMA IndexOfBase ==
  ASSUME NEW p \in Pages, NEW i \in Sizes, NEW j \in Sizes, i <= j
  PROVE  Index(Base(p, i), j) = Index(p, j)
<1>. DEFINE q == FANOUT^i
            r == FANOUT^(j - i)
<1>1. /\ i \in 0 .. LEVELS /\ j \in i .. LEVELS /\ j - i \in 0 .. LEVELS
  BY MmuSizeAssumption DEF Sizes
<1>2. q \in Nat \ {0} /\ r \in Nat \ {0} /\ FANOUT^j = q * r
  BY <1>1, MmuPowerAssumption
<1>3. p \in Nat
  BY PagesAreNat
<1>. HIDE DEF q, r
<1>4. (p - (p % q)) \div (q * r) = p \div (q * r)
  BY <1>2, <1>3, DivOfBase
<1>. QED
  BY <1>2, <1>4 DEF Index, Base, q

-----------------------------------------------------------------------------
(* The walk.                                                               *)

(* One round of the loop, from where the last one got.                     *)
Round(priv, p, perm, k, last) ==
  IF k = 0 THEN [end |-> "pointer", table |-> Root]
  ELSE IF last.end # "pointer" THEN last
  ELSE WalkLevel(priv, p, perm, last.table, LEVELS - k)

(* The recursion of Path defines a function.                               *)
LEMMA PathIsRounds ==
  ASSUME NEW priv, NEW p, NEW perm
  PROVE  Path(priv, p, perm) =
           [k \in 0 .. LEVELS |-> Round(priv, p, perm, k, Path(priv, p, perm)[k - 1])]
<1>. DEFINE R(k, last) == Round(priv, p, perm, k, last)
            Upto(n) == \E f : f = [k \in 0 .. n |-> R(k, f[k - 1])]
            S == {n \in Nat : Upto(n)}
<1>1. 0 \in S
  <2>. DEFINE f == [k \in 0 .. 0 |-> Round(priv, p, perm, 0, 0)]
  <2>1. f = [k \in 0 .. 0 |-> R(k, f[k - 1])]
    BY DEF Round
  <2>. QED
    BY <2>1
<1>2. ASSUME NEW n \in 1 .. LEVELS, n - 1 \in S
      PROVE  n \in S
  <2>1. PICK f : f = [k \in 0 .. n - 1 |-> R(k, f[k - 1])]
    BY <1>2
  <2>. DEFINE g == [k \in 0 .. n |-> R(k, f[k - 1])]
  <2>2. \A k \in 0 .. n : k # 0 => g[k - 1] = f[k - 1]
    BY <2>1
  <2>3. ASSUME NEW k \in 0 .. n
        PROVE  R(k, g[k - 1]) = R(k, f[k - 1])
    <3>1. CASE k = 0
      BY <3>1 DEF Round
    <3>2. CASE k # 0
      <4>1. g[k - 1] = f[k - 1]
        BY <3>2, <2>2
      <4>. HIDE DEF R, g
      <4>. QED
        BY <4>1
    <3>. QED
      BY <3>1, <3>2
  <2>. HIDE DEF R
  <2>4. g = [k \in 0 .. n |-> R(k, g[k - 1])]
    BY <2>3
  <2>. HIDE DEF g
  <2>5. Upto(n)
    BY <2>4
  <2>. HIDE DEF Upto
  <2>. QED
    BY <2>5
<1>3. \E f : f = [k \in 0 .. LEVELS |-> R(k, f[k - 1])]
  <2>. HIDE DEF S
  <2>1. \A k \in 0 .. LEVELS : k \in S
    BY <1>1, <1>2, MmuSizeAssumption, UptoInduction
  <2>2. LEVELS \in S
    BY <2>1, MmuSizeAssumption
  <2>. QED
    BY <2>2 DEF S
<1>. QED
  BY <1>3 DEF Path, Round

(* The walk begins at the root, and a round goes on from a pointer.        *)
LEMMA PathStep ==
  ASSUME NEW priv, NEW p, NEW perm
  PROVE  /\ Path(priv, p, perm)[0] = [end |-> "pointer", table |-> Root]
         /\ \A k \in 1 .. LEVELS : LET last == Path(priv, p, perm)[k - 1] IN
              Path(priv, p, perm)[k] =
                IF last.end = "pointer"
                THEN WalkLevel(priv, p, perm, last.table, LEVELS - k) ELSE last
<1>. DEFINE P == Path(priv, p, perm)
<1>1. P = [k \in 0 .. LEVELS |-> Round(priv, p, perm, k, P[k - 1])]
  BY PathIsRounds
<1>. HIDE DEF P
<1>2. \A k \in 0 .. LEVELS : P[k] = Round(priv, p, perm, k, P[k - 1])
  BY <1>1
<1>3. P[0] = [end |-> "pointer", table |-> Root]
  BY <1>2, MmuSizeAssumption DEF Round
<1>4. \A k \in 1 .. LEVELS :
        P[k] = IF P[k - 1].end = "pointer"
               THEN WalkLevel(priv, p, perm, P[k - 1].table, LEVELS - k) ELSE P[k - 1]
  BY <1>2, MmuSizeAssumption DEF Round
<1>. QED
  BY <1>3, <1>4 DEF P

(* Where the walk has ended, it stays.                                     *)
LEMMA PathStays ==
  ASSUME NEW priv, NEW p, NEW perm, NEW m \in 0 .. LEVELS,
         Path(priv, p, perm)[m].end # "pointer"
  PROVE  \A k \in m .. LEVELS : Path(priv, p, perm)[k] = Path(priv, p, perm)[m]
<1>. DEFINE P == Path(priv, p, perm)
            S == {k \in 0 .. LEVELS : k >= m => P[k] = P[m]}
<1>1. \A k \in 1 .. LEVELS : P[k - 1].end # "pointer" => P[k] = P[k - 1]
  BY PathStep
<1>. HIDE DEF P
<1>2. P[m].end # "pointer"
  BY DEF P
<1>3. 0 \in S
  BY MmuSizeAssumption
<1>4. \A k \in 1 .. LEVELS : k - 1 \in S => k \in S
  BY <1>1, <1>2, MmuSizeAssumption
<1>. HIDE DEF S
<1>5. \A k \in 0 .. LEVELS : k \in S
  BY <1>3, <1>4, MmuSizeAssumption, UptoInduction
<1>. QED
  BY <1>5 DEF S, P

(* The page tables: a valid pointer never leads to a data frame.           *)
PtesOK ==
  /\ ptes \in [PteAddr -> Pte]
  /\ \A at \in PteAddr : "V" \in ptes[at].bits /\ PtePointer(ptes[at]) => ptes[at].ppn \notin DataFrames

(* How far a walk may have got after k rounds.                             *)
Shape(w, k) ==
  /\ w.end \in {"pointer", "page", "access", "leaf"}
  /\ w.end = "pointer" => w.table \notin DataFrames
  /\ w.end = "leaf" =>
       /\ w.at \in PteAddr /\ w.size \in Sizes /\ w.size >= LEVELS - k
       /\ ~PteInvalid(ptes[w.at]) /\ ~PtePointer(ptes[w.at])

(* One level of page_table_walk ends in a fault, a table or a leaf PTE.    *)
LEMMA LevelShape ==
  ASSUME PtesOK, NEW priv, NEW p \in Pages, NEW perm, NEW table, table \notin DataFrames,
         NEW k \in 1 .. LEVELS
  PROVE  Shape(WalkLevel(priv, p, perm, table, LEVELS - k), k)
<1>. DEFINE i == LEVELS - k
            at == <<table, Index(p, i)>>
<1>1. i \in Sizes /\ i >= LEVELS - k
  BY MmuSizeAssumption DEF Sizes
<1>2. CASE ~Permitted(priv, table, perm)
  BY <1>2 DEF WalkLevel, Shape
<1>3. CASE Permitted(priv, table, perm)
  <2>1. at \in PteAddr
    BY <1>1, <1>3, IndexInTable DEF Permitted, Frames, PteAddr
  <2>. HIDE DEF at, i
  <2>2. CASE PteInvalid(ptes[at])
    BY <1>3, <2>2 DEF WalkLevel, Shape, at, i
  <2>3. CASE ~PteInvalid(ptes[at]) /\ PtePointer(ptes[at])
    <3>1. ptes[at].ppn \notin DataFrames
      BY <2>1, <2>3 DEF PtesOK, PteInvalid
    <3>2. WalkLevel(priv, p, perm, table, i) = [end |-> "pointer", table |-> ptes[at].ppn]
      BY <1>3, <2>3 DEF WalkLevel, at
    <3>. QED
      BY <3>1, <3>2 DEF Shape, i
  <2>4. CASE ~PteInvalid(ptes[at]) /\ ~PtePointer(ptes[at])
    <3>1. WalkLevel(priv, p, perm, table, i) = [end |-> "leaf", at |-> at, size |-> i]
      BY <1>3, <2>4 DEF WalkLevel, at
    <3>. QED
      BY <1>1, <2>1, <2>4, <3>1 DEF Shape, i
  <2>. QED
    BY <2>2, <2>3, <2>4
<1>. QED
  BY <1>2, <1>3

(* The same for the walk after k levels, by induction over k.              *)
LEMMA PathShape ==
  ASSUME PtesOK, NEW priv, NEW p \in Pages, NEW perm, NEW k \in 0 .. LEVELS
  PROVE  Shape(Path(priv, p, perm)[k], k)
<1>. DEFINE P == Path(priv, p, perm)
            S == {n \in 0 .. LEVELS : Shape(P[n], n)}
<1>1. 0 \in S
  <2>1. P[0] = [end |-> "pointer", table |-> Root] /\ 0 \in 0 .. LEVELS
    BY PathStep, MmuSizeAssumption
  <2>2. Root \notin DataFrames
    BY MmuFrameAssumption
  <2>. HIDE DEF P
  <2>. QED
    BY <2>1, <2>2 DEF Shape
<1>2. ASSUME NEW n \in 1 .. LEVELS, n - 1 \in S
      PROVE  n \in S
  <2>1. P[n] = IF P[n - 1].end = "pointer"
               THEN WalkLevel(priv, p, perm, P[n - 1].table, LEVELS - n) ELSE P[n - 1]
    BY PathStep
  <2>. HIDE DEF P
  <2>2. Shape(P[n - 1], n - 1)
    BY <1>2
  <2>3. CASE P[n - 1].end = "pointer"
    <3>1. P[n - 1].table \notin DataFrames
      BY <2>2, <2>3 DEF Shape
    <3>. QED
      BY <2>1, <2>3, <3>1, LevelShape
  <2>4. CASE P[n - 1].end # "pointer"
    <3>1. P[n] = P[n - 1]
      BY <2>1, <2>4
    <3>2. Shape(P[n], n)
      BY <2>2, <3>1, MmuSizeAssumption DEF Shape, Sizes
    <3>. QED
      BY <3>2
  <2>. QED
    BY <2>3, <2>4
<1>. HIDE DEF S
<1>3. \A n \in 0 .. LEVELS : n \in S
  BY <1>1, <1>2, MmuSizeAssumption, UptoInduction
<1>. QED
  BY <1>3 DEF S

(* A leaf found below a pointer is smaller than the pointer's level.       *)
LEMMA PathNarrows ==
  ASSUME PtesOK, NEW priv, NEW p \in Pages, NEW perm, NEW k \in 0 .. LEVELS, NEW m \in k .. LEVELS,
         Path(priv, p, perm)[k].end = "pointer", Path(priv, p, perm)[m].end = "leaf"
  PROVE  Path(priv, p, perm)[m].size < LEVELS - k
<1>. DEFINE P == Path(priv, p, perm)
            S == {n \in 0 .. LEVELS : n >= k /\ P[n].end = "leaf" => P[n].size < LEVELS - k}
<1>1. P[0].end = "pointer" /\ 0 \in 0 .. LEVELS
  BY PathStep, MmuSizeAssumption
<1>2. 0 \in S
  BY <1>1
<1>3. ASSUME NEW n \in 1 .. LEVELS, n - 1 \in S
      PROVE  n \in S
  <2>1. P[n] = IF P[n - 1].end = "pointer"
               THEN WalkLevel(priv, p, perm, P[n - 1].table, LEVELS - n) ELSE P[n - 1]
    BY PathStep
  <2>. SUFFICES ASSUME n >= k, P[n].end = "leaf"
                PROVE  P[n].size < LEVELS - k
    OBVIOUS
  <2>2. P[k].end = "pointer"
    OBVIOUS
  <2>. HIDE DEF P
  <2>3. n - 1 >= k
    BY <2>2
  <2>4. CASE P[n - 1].end = "pointer"
    <3>1. P[n].end = "leaf" => P[n].size = LEVELS - n
      BY <2>1, <2>4 DEF WalkLevel
    <3>. QED
      BY <3>1, <2>3, MmuSizeAssumption
  <2>5. CASE P[n - 1].end # "pointer"
    BY <1>3, <2>1, <2>3, <2>5
  <2>. QED
    BY <2>4, <2>5
<1>. HIDE DEF S
<1>4. \A n \in 0 .. LEVELS : n \in S
  BY <1>2, <1>3, MmuSizeAssumption, UptoInduction
<1>. QED
  BY <1>4, MmuSizeAssumption DEF S

(* While a walk that finds a leaf is on its way, PMP permits it the table  *)
(* it has got to, which is one.                                            *)
LEMMA PathPermitted ==
  ASSUME PtesOK, NEW priv, NEW p \in Pages, NEW perm, NEW k \in 1 .. LEVELS,
         Path(priv, p, perm)[k - 1].end = "pointer", Descend(priv, p, perm).end # "access"
  PROVE  LET table == Path(priv, p, perm)[k - 1].table
         IN table \in Tables /\ Permitted(priv, table, perm)
<1>. DEFINE P == Path(priv, p, perm)
<1>1. P[k] = WalkLevel(priv, p, perm, P[k - 1].table, LEVELS - k)
  BY PathStep
<1>2. P[k].end # "access"
  <2>. SUFFICES ASSUME P[k].end = "access"
                PROVE  FALSE
    OBVIOUS
  <2>1. P[LEVELS] = P[k]
    BY PathStays, MmuSizeAssumption
  <2>. QED
    BY <2>1 DEF Descend
<1>3. Permitted(priv, P[k - 1].table, perm)
  <2>. HIDE DEF P
  <2>. QED
    BY <1>1, <1>2 DEF WalkLevel
<1>4. P[k - 1].table \notin DataFrames
  BY PathShape, MmuSizeAssumption DEF Shape
<1>. QED
  BY <1>3, <1>4 DEF Permitted, Frames

(* PMP lets M-mode read tables (see MachineReads).                         *)
LEMMA MachinePermitted ==
  ASSUME MachineReads, pmp \in PmpConfigs, NEW t \in Tables
  PROVE  Permitted(3, t, "R")
BY DEF MachineReads, Permitted, Frames

(* A walk that finds a leaf finds it for the first page of the superpage,  *)
(* too, and in M-mode.                                                     *)
LEMMA LeafOfBase ==
  ASSUME PtesOK, MachineReads, pmp \in PmpConfigs, NEW priv, NEW p \in Pages, NEW perm,
         Descend(priv, p, perm).end = "leaf"
  PROVE  LET leaf == Descend(priv, p, perm)
         IN leaf.size \in Sizes /\ Descend(3, Base(p, leaf.size), "R") = leaf
<1>. DEFINE A == Path(priv, p, perm)
            s == A[LEVELS].size
            b == Base(p, s)
            B == Path(3, b, "R")
            S == {k \in 0 .. LEVELS : B[k] = A[k]}
<1>1. A[LEVELS].end = "leaf" /\ s \in Sizes /\ LEVELS \in 0 .. LEVELS
  BY PathShape, MmuSizeAssumption DEF Descend, Shape
<1>2. 0 \in S
  BY PathStep, MmuSizeAssumption
<1>3. ASSUME NEW k \in 1 .. LEVELS, k - 1 \in S
      PROVE  k \in S
  <2>1. A[k] = IF A[k - 1].end = "pointer"
               THEN WalkLevel(priv, p, perm, A[k - 1].table, LEVELS - k) ELSE A[k - 1]
    BY PathStep
  <2>2. B[k] = IF B[k - 1].end = "pointer"
               THEN WalkLevel(3, b, "R", B[k - 1].table, LEVELS - k) ELSE B[k - 1]
    BY PathStep
  <2>3. B[k - 1] = A[k - 1]
    BY <1>3
  <2>4. CASE A[k - 1].end = "pointer"
    <3>. DEFINE t == A[k - 1].table
    <3>1. t \in Tables /\ Permitted(priv, t, perm)
      BY <2>4, PathPermitted
    <3>2. Permitted(3, t, "R")
      BY <3>1, MachinePermitted
    <3>3. s < LEVELS - (k - 1)
      BY <1>1, <2>4, PathNarrows, MmuSizeAssumption
    <3>4. LEVELS - k \in Sizes /\ s <= LEVELS - k
      BY <1>1, <3>3, MmuSizeAssumption DEF Sizes
    <3>. HIDE DEF s
    <3>5. Index(b, LEVELS - k) = Index(p, LEVELS - k)
      BY <1>1, <3>4, IndexOfBase
    <3>. HIDE DEF A, B, b
    <3>6. WalkLevel(3, b, "R", t, LEVELS - k) = WalkLevel(priv, p, perm, t, LEVELS - k)
      BY <3>1, <3>2, <3>5 DEF WalkLevel
    <3>. QED
      BY <2>1, <2>2, <2>3, <2>4, <3>6
  <2>5. CASE A[k - 1].end # "pointer"
    <3>. HIDE DEF A, B, s, b
    <3>. QED
      BY <2>1, <2>2, <2>3, <2>5
  <2>. QED
    BY <2>4, <2>5
<1>. HIDE DEF S
<1>4. \A k \in 0 .. LEVELS : k \in S
  BY <1>2, <1>3, MmuSizeAssumption, UptoInduction
<1>. QED
  BY <1>1, <1>4 DEF S, Descend

(* And what M-mode finds for the first page it finds for all the others.   *)
LEMMA LeafOfPage ==
  ASSUME PtesOK, NEW p \in Pages, NEW s \in Sizes,
         Descend(3, Base(p, s), "R").end = "leaf", Descend(3, Base(p, s), "R").size = s
  PROVE  Descend(3, p, "R") = Descend(3, Base(p, s), "R")
<1>. DEFINE b == Base(p, s)
            A == Path(3, b, "R")
            B == Path(3, p, "R")
            S == {k \in 0 .. LEVELS : B[k] = A[k]}
<1>1. A[LEVELS].end = "leaf" /\ A[LEVELS].size = s /\ b \in Pages /\ LEVELS \in 0 .. LEVELS
  BY BaseIsPage, MmuSizeAssumption DEF Descend
<1>2. 0 \in S
  BY PathStep, MmuSizeAssumption
<1>3. ASSUME NEW k \in 1 .. LEVELS, k - 1 \in S
      PROVE  k \in S
  <2>1. A[k] = IF A[k - 1].end = "pointer"
               THEN WalkLevel(3, b, "R", A[k - 1].table, LEVELS - k) ELSE A[k - 1]
    BY PathStep
  <2>2. B[k] = IF B[k - 1].end = "pointer"
               THEN WalkLevel(3, p, "R", B[k - 1].table, LEVELS - k) ELSE B[k - 1]
    BY PathStep
  <2>3. B[k - 1] = A[k - 1]
    BY <1>3
  <2>4. CASE A[k - 1].end = "pointer"
    <3>. HIDE DEF b
    <3>a. k - 1 \in 0 .. LEVELS /\ LEVELS \in k - 1 .. LEVELS
      BY MmuSizeAssumption
    <3>b. A[LEVELS].size < LEVELS - (k - 1)
      BY <1>1, <2>4, <3>a, PathNarrows
    <3>1. s < LEVELS - (k - 1)
      BY <1>1, <3>b
    <3>2. LEVELS - k \in Sizes /\ s <= LEVELS - k
      BY <3>1, MmuSizeAssumption DEF Sizes
    <3>3. Index(b, LEVELS - k) = Index(p, LEVELS - k)
      BY <3>2, IndexOfBase DEF b
    <3>. HIDE DEF A, B
    <3>4. WalkLevel(3, b, "R", A[k - 1].table, LEVELS - k)
            = WalkLevel(3, p, "R", A[k - 1].table, LEVELS - k)
      BY <3>3 DEF WalkLevel
    <3>. QED
      BY <2>1, <2>2, <2>3, <2>4, <3>4
  <2>5. CASE A[k - 1].end # "pointer"
    <3>. HIDE DEF A, B, b
    <3>. QED
      BY <2>1, <2>2, <2>3, <2>5
  <2>. QED
    BY <2>4, <2>5
<1>. HIDE DEF S
<1>4. \A k \in 0 .. LEVELS : k \in S
  BY <1>2, <1>3, MmuSizeAssumption, UptoInduction
<1>. QED
  BY <1>1, <1>4 DEF S, Descend

(* PMP either lets a walk pass that M-mode completes, or denies it one of  *)
(* its tables, and then the walk ends in an access fault.                  *)
LEMMA PmpOnWalk ==
  ASSUME PtesOK, NEW priv, NEW p \in Pages, NEW perm, Descend(3, p, "R").end = "leaf"
  PROVE  IF \A t \in WalkTables(p) : Permitted(priv, t, perm)
         THEN Descend(priv, p, perm) = Descend(3, p, "R")
         ELSE Descend(priv, p, perm).end = "access"
<1>. DEFINE A == Path(3, p, "R")
            B == Path(priv, p, perm)
            S == {k \in 0 .. LEVELS : B[k] = A[k] \/ B[k].end = "access"}
<1>1. A[LEVELS].end = "leaf" /\ LEVELS \in 0 .. LEVELS
  BY MmuSizeAssumption DEF Descend
<1>2. \A k \in 1 .. LEVELS :
        A[k] = IF A[k - 1].end = "pointer"
               THEN WalkLevel(3, p, "R", A[k - 1].table, LEVELS - k) ELSE A[k - 1]
  BY PathStep
<1>3. \A k \in 1 .. LEVELS :
        B[k] = IF B[k - 1].end = "pointer"
               THEN WalkLevel(priv, p, perm, B[k - 1].table, LEVELS - k) ELSE B[k - 1]
  BY PathStep
<1>4. ASSUME NEW k \in 1 .. LEVELS, A[k - 1].end = "pointer"
      PROVE  Permitted(3, A[k - 1].table, "R")
  BY <1>1, <1>4, PathPermitted DEF Descend
<1>5. 0 \in S
  BY PathStep, MmuSizeAssumption
<1>6. ASSUME NEW k \in 1 .. LEVELS, k - 1 \in S
      PROVE  k \in S
  <2>. HIDE DEF A, B
  <2>1. CASE B[k - 1].end = "access"
    BY <1>3, <2>1
  <2>2. CASE B[k - 1] = A[k - 1] /\ A[k - 1].end = "pointer"
    <3>1. \/ WalkLevel(priv, p, perm, A[k - 1].table, LEVELS - k)
               = WalkLevel(3, p, "R", A[k - 1].table, LEVELS - k)
          \/ WalkLevel(priv, p, perm, A[k - 1].table, LEVELS - k).end = "access"
      BY <1>4, <2>2 DEF WalkLevel
    <3>. QED
      BY <1>2, <1>3, <2>2, <3>1
  <2>3. CASE B[k - 1] = A[k - 1] /\ A[k - 1].end # "pointer"
    BY <1>2, <1>3, <2>3
  <2>. QED
    BY <1>6, <2>1, <2>2, <2>3
<1>7. \A k \in 0 .. LEVELS : k \in S
  <2>. HIDE DEF S
  <2>. QED
    BY <1>5, <1>6, MmuSizeAssumption, UptoInduction
<1>8. CASE \A t \in WalkTables(p) : Permitted(priv, t, perm)
  <2>. DEFINE T == {k \in 0 .. LEVELS : B[k].end # "access"}
  <2>1. 0 \in T
    BY PathStep, MmuSizeAssumption
  <2>2. ASSUME NEW k \in 1 .. LEVELS, k - 1 \in T
        PROVE  k \in T
    <3>1. A[k - 1].end = "pointer" => A[k - 1].table \in WalkTables(p)
      BY MmuSizeAssumption DEF WalkTables
    <3>. HIDE DEF A, B
    <3>2. B[k - 1] = A[k - 1]
      BY <1>7, <2>2
    <3>3. CASE A[k - 1].end = "pointer"
      <4>1. Permitted(priv, A[k - 1].table, perm)
        BY <1>8, <3>1, <3>3
      <4>2. WalkLevel(priv, p, perm, A[k - 1].table, LEVELS - k).end # "access"
        BY <4>1 DEF WalkLevel
      <4>. QED
        BY <1>3, <3>2, <3>3, <4>2
    <3>4. CASE A[k - 1].end # "pointer"
      BY <1>3, <2>2, <3>2, <3>4
    <3>. QED
      BY <3>3, <3>4
  <2>3. \A k \in 0 .. LEVELS : k \in T
    <3>. HIDE DEF T
    <3>. QED
      BY <2>1, <2>2, MmuSizeAssumption, UptoInduction
  <2>4. B[LEVELS] = A[LEVELS]
    BY <1>1, <1>7, <2>3
  <2>. QED
    BY <1>8, <2>4 DEF Descend
<1>9. CASE ~(\A t \in WalkTables(p) : Permitted(priv, t, perm))
  <2>. SUFFICES ASSUME B[LEVELS].end # "access"
                PROVE  FALSE
    BY <1>9 DEF Descend
  <2>1. PICK n \in 0 .. LEVELS - 1 : A[n].end = "pointer" /\ ~Permitted(priv, A[n].table, perm)
    BY <1>9 DEF WalkTables
  <2>2. n + 1 \in 1 .. LEVELS /\ n \in 0 .. LEVELS /\ (n + 1) - 1 = n
    BY MmuSizeAssumption
  <2>3. B[n].end # "access"
    <3>. SUFFICES ASSUME B[n].end = "access"
                  PROVE  FALSE
      OBVIOUS
    <3>1. B[LEVELS] = B[n]
      BY <2>2, PathStays, MmuSizeAssumption
    <3>. QED
      BY <3>1
  <2>4. B[n] = A[n]
    BY <1>7, <2>2, <2>3
  <2>5. Permitted(priv, B[(n + 1) - 1].table, perm)
    BY <2>1, <2>2, <2>4, PathPermitted DEF Descend
  <2>. QED
    BY <2>1, <2>2, <2>4, <2>5
<1>. QED
  BY <1>8, <1>9

(* PathStep in the next state.                                             *)
LEMMA PathStepNext ==
  ASSUME NEW CONSTANT priv, NEW CONSTANT p, NEW CONSTANT perm
  PROVE  (/\ Path(priv, p, perm)[0] = [end |-> "pointer", table |-> Root]
          /\ \A k \in 1 .. LEVELS : LET last == Path(priv, p, perm)[k - 1] IN
               Path(priv, p, perm)[k] =
                 IF last.end = "pointer"
                 THEN WalkLevel(priv, p, perm, last.table, LEVELS - k) ELSE last)'
<1>1. /\ Path(priv, p, perm)[0] = [end |-> "pointer", table |-> Root]
      /\ \A k \in 1 .. LEVELS : LET last == Path(priv, p, perm)[k - 1] IN
           Path(priv, p, perm)[k] =
             IF last.end = "pointer"
             THEN WalkLevel(priv, p, perm, last.table, LEVELS - k) ELSE last
  BY PathStep
<1>. QED
  BY <1>1, PTL

(* Two PTEs a walk does not tell apart before it gets to the permissions.  *)
SameForWalk(new, old) ==
  /\ PteInvalid(new) <=> PteInvalid(old)
  /\ PtePointer(new) <=> PtePointer(old)
  /\ new.ppn = old.ppn

(* What M-mode finds it finds again if only PTEs that were not valid have  *)
(* changed, and others in ways the walk does not see; PMP does not matter. *)
LEMMA WalkKept ==
  ASSUME PtesOK, MachineReads, pmp \in PmpConfigs, pmp' \in PmpConfigs, NEW CONSTANT p \in Pages,
         Descend(3, p, "R").end = "leaf",
         \A at \in PteAddr : ~PteInvalid(ptes[at]) => SameForWalk(ptes'[at], ptes[at])
  PROVE  Descend(3, p, "R")' = Descend(3, p, "R")
<1>. DEFINE A == Path(3, p, "R")
            S == {k \in 0 .. LEVELS : A'[k] = A[k]}
<1>1. A[LEVELS].end = "leaf" /\ LEVELS \in 0 .. LEVELS
  BY MmuSizeAssumption DEF Descend
<1>2. 0 \in S
  BY PathStep, PathStepNext, MmuSizeAssumption
<1>3. ASSUME NEW k \in 1 .. LEVELS, k - 1 \in S
      PROVE  k \in S
  <2>1. A[k] = IF A[k - 1].end = "pointer"
               THEN WalkLevel(3, p, "R", A[k - 1].table, LEVELS - k) ELSE A[k - 1]
    BY PathStep
  <2>2. A'[k] = IF A'[k - 1].end = "pointer"
                THEN WalkLevel(3, p, "R", A[k - 1].table, LEVELS - k)' ELSE A'[k - 1]
    BY PathStepNext
  <2>3. A'[k - 1] = A[k - 1]
    BY <1>3
  <2>4. CASE A[k - 1].end = "pointer"
    <3>0. PICK t : t = A[k - 1].table
      OBVIOUS
    <3>. DEFINE i == LEVELS - k
                at == <<t, Index(p, i)>>
    <3>1. t \in Tables /\ Permitted(3, t, "R")
      BY <1>1, <2>4, <3>0, PathPermitted DEF Descend
    <3>2. A[k].end # "page"
      <4>. SUFFICES ASSUME A[k].end = "page"
                    PROVE  FALSE
        OBVIOUS
      <4>1. A[LEVELS] = A[k]
        BY PathStays, MmuSizeAssumption
      <4>. QED
        BY <1>1, <4>1
    <3>3. i \in Sizes
      BY MmuSizeAssumption DEF Sizes
    <3>4. at \in PteAddr
      BY <3>1, <3>3, IndexInTable DEF PteAddr
    <3>. HIDE DEF A, i, at
    <3>5. ~PteInvalid(ptes[at])
      BY <2>1, <2>4, <3>0, <3>1, <3>2 DEF WalkLevel, i, at
    <3>6. SameForWalk(ptes'[at], ptes[at])
      BY <3>4, <3>5
    <3>7. "R" \in pmp'[3][t] /\ t \in Frames
      BY <3>1 DEF MachineReads, Frames
    <3>8. WalkLevel(3, p, "R", t, i)' = WalkLevel(3, p, "R", t, i)
      <4>1. WalkLevel(3, p, "R", t, i)
              = IF PtePointer(ptes[at]) THEN [end |-> "pointer", table |-> ptes[at].ppn]
                ELSE [end |-> "leaf", at |-> at, size |-> i]
        BY <3>1, <3>5 DEF WalkLevel, at
      <4>2. WalkLevel(3, p, "R", t, i)'
              = IF PtePointer(ptes'[at]) THEN [end |-> "pointer", table |-> ptes'[at].ppn]
                ELSE [end |-> "leaf", at |-> at, size |-> i]
        BY <3>5, <3>6, <3>7 DEF WalkLevel, Permitted, SameForWalk, at
      <4>. QED
        BY <3>6, <4>1, <4>2 DEF SameForWalk
    <3>9. WalkLevel(3, p, "R", A[k - 1].table, i)' = WalkLevel(3, p, "R", t, i)'
      BY <2>3, <3>0 DEF WalkLevel
    <3>. QED
      BY <2>1, <2>2, <2>3, <2>4, <3>0, <3>8, <3>9 DEF i
  <2>5. CASE A[k - 1].end # "pointer"
    <3>. HIDE DEF A
    <3>. QED
      BY <2>1, <2>2, <2>3, <2>5
  <2>. QED
    BY <2>4, <2>5
<1>. HIDE DEF S
<1>4. \A k \in 0 .. LEVELS : k \in S
  BY <1>2, <1>3, MmuSizeAssumption, UptoInduction
<1>. QED
  BY <1>1, <1>4 DEF S, Descend

-----------------------------------------------------------------------------
(* The TLB as a table.                                                     *)

(* A cached translation is in the slot its first page hashes to.           *)
EntriesPlaced ==
  \A s \in Slots : Valid(tlb_entries[s]) => tlb_hash[tlb_entries[s].page] = s

(* No misaligned superpage gets into the TLB, which records no such fault. *)
EntriesAligned ==
  \A s \in Slots : LET e == tlb_entries[s] IN Valid(e) => e.ppn % (FANOUT^(e.size)) = 0

(* The inductive invariant for the table alone.                            *)
IndexInv ==
  /\ TypeOK /\ PtesOK /\ EntriesPlaced /\ EntriesAligned
  /\ SizesCounted /\ max_entry_size = Largest(size_count)

(* The valid entries of one size, a finite set.                            *)
OfSize(i) == {s \in Slots : Valid(tlb_entries[s]) /\ tlb_entries[s].size = i}

(* Any set of slots is finite, and small enough for a uint8_t.             *)
LEMMA SlotsFinite ==
  ASSUME NEW S \in SUBSET Slots
  PROVE  IsFiniteSet(S) /\ Cardinality(S) \in 0 .. TLB_SIZE
<1>1. IsFiniteSet(Slots) /\ Cardinality(Slots) = TLB_SIZE
  BY FS_Interval, MmuSizeAssumption DEF Slots
<1>2. IsFiniteSet(S) /\ Cardinality(S) <= Cardinality(Slots)
  BY <1>1, FS_Subset
<1>3. Cardinality(S) \in Nat
  BY <1>2, FS_CardinalityType
<1>. QED
  BY <1>1, <1>2, <1>3, MmuSizeAssumption

(* max_entry_size is a size, and no entry is larger.                       *)
LEMMA LargestIsSize ==
  ASSUME NEW count
  PROVE  Largest(count) \in Sizes /\ \A i \in Sizes : count[i] > 0 => i <= Largest(count)
<1>. DEFINE S == {0} \cup {i \in Sizes : count[i] > 0}
            n == LEVELS - 1
<1>1. n \in Nat /\ S \in SUBSET (0 .. n) /\ S # {}
  BY MmuSizeAssumption DEF Sizes
<1>. HIDE DEF n
<1>2. Max(S) \in S /\ \A y \in S : y <= Max(S)
  <2>. HIDE DEF S
  <2>. QED
    BY <1>1, MaxOfNat
<1>. QED
  BY <1>1, <1>2 DEF Largest, Sizes, n

(* Replacing an entry: what happens to the sets of entries of a size.      *)
LEMMA ReplacedSizes ==
  ASSUME TypeOK, NEW e \in TLBEntry, Valid(e), NEW index \in Slots, NEW i \in Sizes,
         tlb_entries' = [tlb_entries EXCEPT ![index] = e]
  PROVE  OfSize(i)' = IF e.size = i THEN OfSize(i) \cup {index} ELSE OfSize(i) \ {index}
<1>1. \A s \in Slots : tlb_entries'[s] = IF s = index THEN e ELSE tlb_entries[s]
  BY DEF TypeOK
<1>. QED
  BY <1>1 DEF OfSize

(* tlb_add keeps the counters exact: the uint8_t of the old size is        *)
(* positive when it is decremented.                                        *)
LEMMA AddCounts ==
  ASSUME TypeOK, SizesCounted, NEW e \in TLBEntry, Valid(e), TlbAdd(e)
  PROVE  SizesCounted' /\ size_count' \in [Sizes -> 0 .. TLB_SIZE]
<1>. DEFINE index == tlb_hash[e.page]
            old == tlb_entries[index]
            out == IF Valid(old) THEN [size_count EXCEPT ![old.size] = Dec(@)] ELSE size_count
<1>1. index \in Slots
  BY MmuTableAssumption DEF TLBEntry
<1>2. /\ size_count' = [out EXCEPT ![e.size] = @ + 1]
      /\ tlb_entries' = [tlb_entries EXCEPT ![index] = e]
  BY DEF TlbAdd
<1>3. old \in TLBEntry /\ size_count \in [Sizes -> 0 .. TLB_SIZE]
  BY <1>1 DEF TypeOK
<1>a. out \in [Sizes -> Int] /\ e.size \in Sizes
  BY <1>3, MmuSizeAssumption DEF TLBEntry, Dec
<1>4. ASSUME NEW i \in Sizes
      PROVE  size_count'[i] = Cardinality(OfSize(i)')
  <2>1. OfSize(i)' = IF e.size = i THEN OfSize(i) \cup {index} ELSE OfSize(i) \ {index}
    BY <1>1, <1>2, ReplacedSizes
  <2>2. size_count[i] = Cardinality(OfSize(i)) /\ IsFiniteSet(OfSize(i))
    BY SlotsFinite DEF SizesCounted, OfSize
  <2>3. index \in OfSize(i) <=> Valid(old) /\ old.size = i
    BY <1>1 DEF OfSize
  <2>. HIDE DEF index, old
  <2>4. size_count'[i] = (IF index \in OfSize(i) THEN Dec(size_count[i]) ELSE size_count[i])
                           + (IF e.size = i THEN 1 ELSE 0)
    <3>1. out[i] = IF Valid(old) /\ old.size = i THEN Dec(size_count[i]) ELSE size_count[i]
      BY <1>3 DEF TLBEntry
    <3>. HIDE DEF out
    <3>2. size_count'[i] = out[i] + (IF e.size = i THEN 1 ELSE 0)
      BY <1>2, <1>a
    <3>. QED
      BY <2>3, <3>1, <3>2
  <2>5. index \in OfSize(i) => Dec(size_count[i]) = size_count[i] - 1
    <3>. SUFFICES ASSUME index \in OfSize(i)
                  PROVE  Dec(size_count[i]) = size_count[i] - 1
      OBVIOUS
    <3>1. size_count[i] # 0
      BY <2>2, FS_EmptySet
    <3>2. size_count[i] \in 1 .. 255
      BY <1>3, <3>1, MmuSizeAssumption
    <3>. QED
      BY <3>2 DEF Dec
  <2>6. Cardinality(OfSize(i) \cup {index})
          = IF index \in OfSize(i) THEN size_count[i] ELSE size_count[i] + 1
    BY <2>2, FS_AddElement
  <2>7. Cardinality(OfSize(i) \ {index})
          = IF index \in OfSize(i) THEN size_count[i] - 1 ELSE size_count[i]
    BY <2>2, FS_RemoveElement
  <2>8. size_count[i] \in Nat
    BY <1>3, MmuSizeAssumption
  <2>. QED
    BY <2>1, <2>4, <2>5, <2>6, <2>7, <2>8
<1>5. ASSUME NEW i \in Sizes
      PROVE  Cardinality(OfSize(i)') \in 0 .. TLB_SIZE
  BY SlotsFinite DEF OfSize
<1>6. size_count' \in [Sizes -> 0 .. TLB_SIZE]
  <2>. HIDE DEF out
  <2>1. DOMAIN size_count' = Sizes /\ size_count' = [i \in Sizes |-> size_count'[i]]
    BY <1>2, <1>a
  <2>. QED
    BY <1>4, <1>5, <2>1
<1>. QED
  BY <1>4, <1>6 DEF SizesCounted, OfSize

-----------------------------------------------------------------------------
(* What a translation does to the page tables and the TLB.                 *)

(* Setting A and D changes nothing else about a PTE.                       *)
LEMMA MarkedPte ==
  ASSUME NEW pte \in Pte, NEW w \in BOOLEAN
  PROVE  LET new == Marked(pte, w)
         IN /\ new \in Pte /\ new.ppn = pte.ppn
            /\ pte.bits \subseteq new.bits /\ new.bits \subseteq pte.bits \cup {"A", "D"}
            /\ new.bits \cap RWX = pte.bits \cap RWX
            /\ "U" \in new.bits <=> "U" \in pte.bits
            /\ "V" \in new.bits <=> "V" \in pte.bits
            /\ PtePointer(new) <=> PtePointer(pte)
            /\ SameForWalk(new, pte)
<1>. DEFINE add == {"A"} \cup (IF w THEN {"D"} ELSE {})
            new == Marked(pte, w)
<1>1. new = [bits |-> pte.bits \cup add, ppn |-> pte.ppn]
  BY DEF Marked, Pte
<1>2. {"A"} \subseteq add /\ add \subseteq {"A", "D"}
  OBVIOUS
<1>. HIDE DEF add, new
<1>3. new.bits = pte.bits \cup add /\ new.ppn = pte.ppn
  BY <1>1
<1>4. pte.bits \subseteq RWX \cup {"V", "U", "A", "D"} /\ pte.ppn \in Nat
  BY DEF Pte
<1>5. new \in Pte
  BY <1>1, <1>2, <1>4 DEF Pte
<1>6. new.bits \cap RWX = pte.bits \cap RWX
  BY <1>2, <1>3 DEF RWX
<1>7. \A b \in {"U", "V", "R", "W"} : b \in new.bits <=> b \in pte.bits
  BY <1>2, <1>3
<1>8. PtePointer(new) <=> PtePointer(pte)
  BY <1>6 DEF PtePointer
<1>9. PteInvalid(new) <=> PteInvalid(pte)
  BY <1>7 DEF PteInvalid
<1>10. pte.bits \subseteq new.bits /\ new.bits \subseteq pte.bits \cup {"A", "D"}
  BY <1>2, <1>3
<1>. QED
  BY <1>3, <1>5, <1>6, <1>7, <1>8, <1>9, <1>10 DEF SameForWalk, new

(* The three outcomes: nothing happens, a hit marks its PTE again (or, if  *)
(* it could not fetch it, puts A and D in its place), or a walk marks the  *)
(* leaf it found and offers it to the TLB.                                 *)
Nothing(t) == t.fill = {} /\ t.ptes = ptes

Remarks(t) ==
  /\ t.fill = {}
  /\ \E at \in PteAddr, w \in BOOLEAN, pte \in Pte :
       /\ t.ptes = [ptes EXCEPT ![at] = Marked(pte, w)]
       /\ pte = ptes[at] \/ (pte = ZeroPte /\ Wipeable(at))

EntryFor(p, leaf, pte) ==
  [page |-> Base(p, leaf.size), ppn |-> pte.ppn, at |-> leaf.at, size |-> leaf.size,
   permissions |-> pte.bits \cap RWX, user |-> "U" \in pte.bits]

Fills(t) ==
  \E priv \in Modes, p \in Pages, perm \in RWX, w \in BOOLEAN :
    LET leaf == Descend(priv, p, perm)
        pte == Marked(ptes[leaf.at], w)
    IN /\ leaf.end = "leaf" /\ ptes[leaf.at].ppn % (FANOUT^(leaf.size)) = 0
       /\ t.ptes = [ptes EXCEPT ![leaf.at] = pte]
       /\ t.fill = {EntryFor(p, leaf, pte)}

(* page_table_walk changes nothing, or marks a leaf and asks for its entry.*)
LEMMA WalkResult ==
  ASSUME NEW priv \in Modes, NEW sum, NEW mxr, NEW p \in Pages, NEW w \in BOOLEAN,
         NEW status \in BOOLEAN
  PROVE  LET t == Walk(priv, sum, mxr, p, w, status) IN Nothing(t) \/ Fills(t)
<1>. DEFINE perm == Reads(status)
            leaf == Descend(priv, p, perm)
            pte == Marked(ptes[leaf.at], w)
            t == Walk(priv, sum, mxr, p, w, status)
            done == Yields(pte.ppn + p - Base(p, leaf.size), [ptes EXCEPT ![leaf.at] = pte],
                           {EntryFor(p, leaf, pte)})
            faults == \E kind \in {"page", "access"} : t = Faults(kind)
<1>1. perm \in RWX
  BY DEF Reads, RWX
<1>. HIDE DEF perm, leaf
<1>2. t = Yields(p, ptes, {}) \/ faults
        \/ (t = done /\ leaf.end = "leaf" /\ ~LeafFault(priv, sum, mxr, leaf, w, status))
  BY DEF Walk, EntryFor, perm, leaf
<1>. HIDE DEF t, done, pte
<1>3. CASE t = Yields(p, ptes, {})
  BY <1>3 DEF Nothing, Yields, t
<1>4. CASE faults
  BY <1>4 DEF Nothing, Faults, t
<1>5. CASE t = done /\ leaf.end = "leaf" /\ ~LeafFault(priv, sum, mxr, leaf, w, status)
  <2>1. ptes[leaf.at].ppn % (FANOUT^(leaf.size)) = 0
    BY <1>5 DEF LeafFault
  <2>2. t.ptes = [ptes EXCEPT ![leaf.at] = pte] /\ t.fill = {EntryFor(p, leaf, pte)}
    BY <1>5 DEF done, Yields
  <2>3. Fills(t)
    BY <1>1, <1>5, <2>1, <2>2 DEF Fills, leaf, pte
  <2>. QED
    BY <2>3 DEF t
<1>. QED
  BY <1>2, <1>3, <1>4, <1>5

(* A hit is an entry of the TLB.                                           *)
LEMMA HitIsEntry ==
  ASSUME TypeOK, NEW priv, NEW sum, NEW p \in Pages, NEW perm, NEW i \in Hits(priv, sum, p, perm)
  PROVE  /\ i \in Sizes /\ Slot(p, i) \in TLBEntry /\ Slot(p, i).size = i
         /\ tlb_hash[Base(p, i)] \in Slots
         /\ \E s \in Slots : Slot(p, i) = tlb_entries[s] /\ Valid(tlb_entries[s])
<1>1. i \in 0 .. max_entry_size /\ Slot(p, i).size = i /\ Valid(Slot(p, i))
  BY DEF Hits
<1>2. i \in Sizes
  BY <1>1, MmuSizeAssumption DEF TypeOK, Sizes
<1>3. tlb_hash[Base(p, i)] \in Slots
  BY <1>2, BaseIsPage, MmuTableAssumption
<1>4. Slot(p, i) \in TLBEntry
  BY <1>3 DEF Slot, TypeOK
<1>5. \E s \in Slots : Slot(p, i) = tlb_entries[s] /\ Valid(tlb_entries[s])
  BY <1>1, <1>3 DEF Slot
<1>. QED
  BY <1>1, <1>2, <1>3, <1>4, <1>5

(* A hit of tlb_find at most writes the PTE of its entry back.             *)
LEMMA FoundResult ==
  ASSUME TypeOK, NEW priv \in {0, 1}, NEW sum, NEW p \in Pages, NEW perm, NEW status \in BOOLEAN,
         NEW i \in Hits(priv, sum, p, perm), Usable(priv, p, i)
  PROVE  Remarks(Found(priv, p, perm, status, i))
<1>. DEFINE at == Slot(p, i).at
            pte == IF Permitted(priv, at[1], Reads(status)) THEN ptes[at] ELSE ZeroPte
            t == Found(priv, p, perm, status, i)
            w == (perm = "W")
<1>1. at \in PteAddr /\ at[1] \in Tables
  BY HitIsEntry DEF TLBEntry, PteAddr
<1>2. ptes[at] \in Pte /\ ZeroPte \in Pte
  BY <1>1 DEF TypeOK, ZeroPte, Pte
<1>3. pte \in Pte
  BY <1>2
<1>4. pte = ptes[at] \/ (pte = ZeroPte /\ Wipeable(at))
  <2>. SUFFICES ASSUME ~Permitted(priv, at[1], Reads(status))
                PROVE  pte = ZeroPte /\ Wipeable(at)
    OBVIOUS
  <2>1. "W" \in pmp[priv][at[1]] /\ at[1] \in Frames
    BY DEF Usable, Permitted
  <2>2. ~({"R", "X"} \subseteq pmp[priv][at[1]])
    BY <2>1 DEF Permitted, Reads
  <2>3. \E s \in Slots : Valid(tlb_entries[s]) /\ tlb_entries[s].at = at
    BY HitIsEntry
  <2>4. pte = ZeroPte
    OBVIOUS
  <2>. HIDE DEF at, pte
  <2>. QED
    BY <2>1, <2>2, <2>3, <2>4 DEF Wipeable
<1>5. t.fill = {} /\ t.ptes = [ptes EXCEPT ![at] = Marked(pte, w)]
  BY DEF Found, Yields
<1>6. w \in BOOLEAN
  OBVIOUS
<1>. HIDE DEF at, pte, t, w
<1>7. Remarks(t)
  BY <1>1, <1>3, <1>4, <1>5, <1>6 DEF Remarks
<1>. QED
  BY <1>7 DEF t

(* A translation does nothing, marks the PTE of a hit, or fills the TLB.   *)
LEMMA TranslateResult ==
  ASSUME TypeOK, NEW kind \in {"load", "store", "fetch"}, NEW priv \in {0, 1}, NEW sum, NEW mxr,
         NEW status \in Status(kind), NEW p \in Pages
  PROVE  LET t == Translate(kind, priv, sum, mxr, status, p)
         IN Nothing(t) \/ Remarks(t) \/ Fills(t)
<1>. DEFINE perm == Needs(kind)
            hits == Hits(priv, sum, p, perm)
            top == Max(hits)
            before == IF hits = {} THEN status ELSE FALSE
            walk == Walk(priv, sum, mxr, p, kind = "store", before)
            found == Found(priv, p, perm, status, top)
            t == Translate(kind, priv, sum, mxr, status, p)
            usable == Usable(priv, p, top)
<1>1. status \in BOOLEAN /\ before \in BOOLEAN /\ (kind = "store") \in BOOLEAN /\ priv \in Modes
  BY DEF Status, Modes
<1>2. Nothing(walk) \/ Fills(walk)
  BY <1>1, WalkResult
<1>3. hits # {} => top \in hits
  <2>1. hits \in SUBSET (0 .. max_entry_size)
    BY DEF Hits
  <2>2. max_entry_size \in Nat
    BY MmuSizeAssumption DEF TypeOK, Sizes
  <2>. HIDE DEF hits
  <2>. QED
    BY <2>1, <2>2, MaxOfNat
<1>4. hits # {} /\ usable => Remarks(found)
  <2>. HIDE DEF perm, top
  <2>. QED
    BY <1>1, <1>3, FoundResult
<1>5. t = IF satp = "off" THEN Yields(p, ptes, {})
          ELSE IF hits # {} /\ usable THEN found ELSE walk
  BY DEF Translate
<1>6. Nothing(Yields(p, ptes, {}))
  BY DEF Nothing, Yields
<1>. HIDE DEF t, found, walk, hits, usable
<1>7. Nothing(t) \/ Remarks(t) \/ Fills(t)
  BY <1>2, <1>4, <1>5, <1>6
<1>. QED
  BY <1>7 DEF t

(* Writing a PTE that is no bad pointer keeps the page tables well formed. *)
LEMMA PteWritten ==
  ASSUME PtesOK, NEW at \in PteAddr, NEW new \in Pte, ptes' = [ptes EXCEPT ![at] = new],
         "V" \in new.bits /\ PtePointer(new) => new.ppn \notin DataFrames
  PROVE  PtesOK'
<1>1. \A a \in PteAddr : ptes'[a] = IF a = at THEN new ELSE ptes[a]
  BY DEF PtesOK
<1>2. ptes' \in [PteAddr -> Pte]
  BY DEF PtesOK
<1>3. \A a \in PteAddr :
        "V" \in ptes'[a].bits /\ PtePointer(ptes'[a]) => ptes'[a].ppn \notin DataFrames
  BY <1>1 DEF PtesOK
<1>. QED
  BY <1>2, <1>3 DEF PtesOK, PtePointer

(* Marking does.                                                           *)
LEMMA PteMarked ==
  ASSUME PtesOK, NEW at \in PteAddr, NEW pte \in Pte, pte = ptes[at] \/ pte = ZeroPte,
         NEW w \in BOOLEAN, ptes' = [ptes EXCEPT ![at] = Marked(pte, w)]
  PROVE  PtesOK'
<1>. DEFINE new == Marked(pte, w)
<1>1. /\ new \in Pte /\ new.ppn = pte.ppn
      /\ "V" \in new.bits <=> "V" \in pte.bits
      /\ PtePointer(new) <=> PtePointer(pte)
  BY MarkedPte
<1>2. "V" \in pte.bits => pte = ptes[at]
  BY DEF ZeroPte
<1>3. "V" \in pte.bits /\ PtePointer(pte) => pte.ppn \notin DataFrames
  BY <1>2 DEF PtesOK
<1>. HIDE DEF new
<1>4. "V" \in new.bits /\ PtePointer(new) => new.ppn \notin DataFrames
  BY <1>1, <1>3
<1>5. ptes' = [ptes EXCEPT ![at] = new]
  BY DEF new
<1>. QED
  BY <1>1, <1>4, <1>5, PteWritten

(* What a walk offers to the TLB is a valid, aligned entry.                *)
LEMMA EntryOK ==
  ASSUME PtesOK, NEW priv, NEW p \in Pages, NEW perm, NEW w \in BOOLEAN,
         NEW leaf, leaf = Descend(priv, p, perm), leaf.end = "leaf",
         ptes[leaf.at].ppn % (FANOUT^(leaf.size)) = 0
  PROVE  LET e == EntryFor(p, leaf, Marked(ptes[leaf.at], w))
         IN /\ leaf.at \in PteAddr
            /\ e \in TLBEntry /\ Valid(e) /\ e.ppn % (FANOUT^(e.size)) = 0
            /\ e.ppn = ptes[leaf.at].ppn /\ e.permissions = ptes[leaf.at].bits \cap RWX
            /\ e.user <=> "U" \in ptes[leaf.at].bits
            /\ e.at = leaf.at /\ e.size = leaf.size /\ e.page = Base(p, leaf.size)
<1>1. LEVELS \in 0 .. LEVELS
  BY MmuSizeAssumption
<1>2. Shape(leaf, LEVELS)
  BY <1>1, PathShape DEF Descend
<1>3. leaf.at \in PteAddr /\ leaf.size \in Sizes /\ ~PtePointer(ptes[leaf.at])
  BY <1>2 DEF Shape
<1>. DEFINE pte == ptes[leaf.at]
            new == Marked(pte, w)
            e == EntryFor(p, leaf, new)
<1>4. pte \in Pte
  BY <1>3 DEF PtesOK
<1>5. /\ new.ppn = pte.ppn /\ new.bits \cap RWX = pte.bits \cap RWX
      /\ "U" \in new.bits <=> "U" \in pte.bits
  BY <1>4, MarkedPte
<1>6. Base(p, leaf.size) \in Pages
  BY <1>3, BaseIsPage
<1>7. pte.ppn \in Nat
  BY <1>4 DEF Pte
<1>8. pte.bits \cap RWX # {}
  BY <1>3 DEF PtePointer
<1>9. pte.ppn % (FANOUT^(leaf.size)) = 0
  OBVIOUS
<1>. HIDE DEF pte, new
<1>10. /\ e.page = Base(p, leaf.size) /\ e.ppn = pte.ppn /\ e.at = leaf.at /\ e.size = leaf.size
       /\ e.permissions = pte.bits \cap RWX
       /\ e.user <=> "U" \in pte.bits
  BY <1>5 DEF EntryFor
<1>11. e \in TLBEntry
  BY <1>3, <1>5, <1>6, <1>7 DEF EntryFor, TLBEntry
<1>. HIDE DEF e
<1>12. Valid(e)
  BY <1>8, <1>10 DEF Valid
<1>13. e.ppn % (FANOUT^(e.size)) = 0
  BY <1>9, <1>10
<1>. QED
  BY <1>3, <1>10, <1>11, <1>12, <1>13 DEF pte, new, e

-----------------------------------------------------------------------------
(* The table survives every step.                                          *)

(* What IndexInv says of the TLB.                                          *)
TlbOK ==
  /\ tlb_entries \in [Slots -> TLBEntry]
  /\ size_count \in [Sizes -> 0 .. TLB_SIZE] /\ max_entry_size \in Sizes
  /\ EntriesPlaced /\ EntriesAligned /\ SizesCounted /\ max_entry_size = Largest(size_count)

(* tlb_add puts an entry where it will be looked for and counts it.        *)
LEMMA AddIndexed ==
  ASSUME IndexInv, NEW e \in TLBEntry, Valid(e), e.ppn % (FANOUT^(e.size)) = 0, TlbAdd(e)
  PROVE  TlbOK'
<1>. DEFINE index == tlb_hash[e.page]
<1>1. index \in Slots
  BY MmuTableAssumption DEF TLBEntry
<1>2. /\ tlb_entries' = [tlb_entries EXCEPT ![index] = e]
      /\ max_entry_size' = Largest(size_count')
  BY DEF TlbAdd
<1>3. SizesCounted' /\ size_count' \in [Sizes -> 0 .. TLB_SIZE]
  BY AddCounts DEF IndexInv
<1>4. tlb_entries \in [Slots -> TLBEntry]
  BY DEF IndexInv, TypeOK
<1>5. tlb_entries' \in [Slots -> TLBEntry]
  BY <1>1, <1>2, <1>4
<1>6. \A s \in Slots : tlb_entries'[s] = IF s = index THEN e ELSE tlb_entries[s]
  BY <1>1, <1>2, <1>4
<1>7. EntriesPlaced'
  BY <1>6 DEF EntriesPlaced, IndexInv
<1>8. EntriesAligned'
  BY <1>6 DEF EntriesAligned, IndexInv
<1>9. max_entry_size' \in Sizes /\ (max_entry_size = Largest(size_count))'
  BY <1>2, LargestIsSize DEF Largest
<1>. QED
  BY <1>3, <1>5, <1>7, <1>8, <1>9 DEF TlbOK

(* An empty TLB is in order.                                               *)
TlbEmpty ==
  /\ tlb_entries = [s \in Slots |-> NoEntry]
  /\ size_count = [i \in Sizes |-> 0] /\ max_entry_size = 0

(* What tlb_clear leaves behind is in order.                               *)
LEMMA EmptyIndexed == TlbEmpty => TlbOK
<1>. SUFFICES ASSUME TlbEmpty
              PROVE  TlbOK
  OBVIOUS
<1>. USE DEF TlbEmpty
<1>1. NoEntry \in TLBEntry /\ ~Valid(NoEntry)
  <2>1. <<Root, 0>> \in PteAddr
    BY MmuFrameAssumption, MmuSizeAssumption DEF PteAddr
  <2>2. 0 \in Sizes /\ 0 \in Pages
    BY PagesAreNat, MmuSizeAssumption DEF Sizes
  <2>. QED
    BY <2>1, <2>2 DEF NoEntry, TLBEntry, Valid
<1>2. \A s \in Slots : tlb_entries[s] = NoEntry
  OBVIOUS
<1>3. tlb_entries \in [Slots -> TLBEntry]
  BY <1>1
<1>4. size_count \in [Sizes -> 0 .. TLB_SIZE]
  BY MmuSizeAssumption
<1>5. EntriesPlaced /\ EntriesAligned
  BY <1>1, <1>2 DEF EntriesPlaced, EntriesAligned
<1>6. SizesCounted
  <2>. SUFFICES ASSUME NEW i \in Sizes
                PROVE  size_count[i] = Cardinality(OfSize(i))
    BY DEF SizesCounted, OfSize
  <2>1. OfSize(i) = {}
    BY <1>1, <1>2 DEF OfSize
  <2>. QED
    BY <2>1, FS_EmptySet
<1>7. max_entry_size = Largest(size_count) /\ max_entry_size \in Sizes
  <2>. DEFINE S == {0} \cup {i \in Sizes : size_count[i] > 0}
  <2>1. S = {0}
    OBVIOUS
  <2>2. Max(S) \in S
    <3>. HIDE DEF S
    <3>1. S \in SUBSET (0 .. 0) /\ S # {}
      BY <2>1
    <3>. QED
      BY <3>1, MaxOfNat
  <2>. QED
    BY <2>1, <2>2, MmuSizeAssumption DEF Largest, Sizes
<1>. QED
  BY <1>3, <1>4, <1>5, <1>6, <1>7 DEF TlbOK

(* The same in the next state.                                             *)
LEMMA EmptyIndexedNext == TlbEmpty' => TlbOK'
BY EmptyIndexed, PTL

(* A step that leaves the TLB alone leaves it in order.                    *)
LEMMA TlbUntouched ==
  ASSUME IndexInv, UNCHANGED tlb
  PROVE  TlbOK'
BY DEF IndexInv, TypeOK, tlb, TlbOK, EntriesPlaced, EntriesAligned, SizesCounted, Largest

(* The invariant is put together from the TLB and the page tables.         *)
LEMMA IndexParts ==
  ASSUME TlbOK, PtesOK, pmp \in PmpConfigs, satp \in {"off", "bare", "sv"}, synced \in BOOLEAN
  PROVE  IndexInv
BY DEF TlbOK, IndexInv, TypeOK, PtesOK

(* Every outcome of a translation leaves the table in order.               *)
LEMMA CommitIndexed ==
  ASSUME IndexInv, NEW t, Nothing(t) \/ Remarks(t) \/ Fills(t), Commit(t)
  PROVE  IndexInv'
<1>1. PtesOK /\ pmp' \in PmpConfigs /\ satp' \in {"off", "bare", "sv"} /\ synced' \in BOOLEAN
  <2>1. PtesOK /\ pmp' \in PmpConfigs /\ satp' \in {"off", "bare", "sv"}
    BY DEF IndexInv, TypeOK, Commit
  <2>2. synced' \in BOOLEAN
    BY DEF Commit
  <2>. QED
    BY <2>1, <2>2
<1>2. CASE Nothing(t)
  <2>1. ptes' = ptes /\ UNCHANGED tlb
    BY <1>2 DEF Nothing, Commit
  <2>2. PtesOK'
    BY <1>1, <2>1 DEF PtesOK, PtePointer
  <2>. QED
    BY <1>1, <2>1, <2>2, TlbUntouched, IndexParts DEF IndexInv, TlbOK, TypeOK, PtesOK
<1>3. CASE Remarks(t)
  <2>1. PICK at \in PteAddr, w \in BOOLEAN, pte \in Pte :
          t.ptes = [ptes EXCEPT ![at] = Marked(pte, w)] /\ (pte = ptes[at] \/ pte = ZeroPte)
    BY <1>3 DEF Remarks
  <2>2. ptes' = t.ptes /\ UNCHANGED tlb
    BY <1>3 DEF Remarks, Commit
  <2>3. PtesOK'
    BY <1>1, <2>1, <2>2, PteMarked
  <2>. QED
    BY <1>1, <2>2, <2>3, TlbUntouched DEF IndexInv, TlbOK, TypeOK, PtesOK
<1>4. CASE Fills(t)
  <2>1. PICK priv \in Modes, p \in Pages, perm \in RWX, w \in BOOLEAN :
          LET leaf == Descend(priv, p, perm)
              pte == Marked(ptes[leaf.at], w)
          IN /\ leaf.end = "leaf" /\ ptes[leaf.at].ppn % (FANOUT^(leaf.size)) = 0
             /\ t.ptes = [ptes EXCEPT ![leaf.at] = pte]
             /\ t.fill = {EntryFor(p, leaf, pte)}
    BY <1>4 DEF Fills
  <2>. DEFINE leaf == Descend(priv, p, perm)
              e == EntryFor(p, leaf, Marked(ptes[leaf.at], w))
  <2>2. leaf.at \in PteAddr /\ e \in TLBEntry /\ Valid(e) /\ e.ppn % (FANOUT^(e.size)) = 0
    BY <1>1, <2>1, EntryOK
  <2>3. ptes' = [ptes EXCEPT ![leaf.at] = Marked(ptes[leaf.at], w)] /\ TlbAdd(e)
    <3>1. t.fill = {e} /\ t.ptes = [ptes EXCEPT ![leaf.at] = Marked(ptes[leaf.at], w)]
      BY <2>1
    <3>. HIDE DEF e, leaf
    <3>. QED
      BY <3>1 DEF Commit
  <2>. HIDE DEF e, leaf
  <2>4. ptes[leaf.at] \in Pte
    BY <1>1, <2>2 DEF PtesOK
  <2>5. PtesOK'
    BY <1>1, <2>2, <2>3, <2>4, PteMarked
  <2>6. TlbOK'
    BY <2>2, <2>3, AddIndexed
  <2>. QED
    BY <1>1, <2>5, <2>6 DEF IndexInv, TlbOK, TypeOK, PtesOK
<1>. QED
  BY <1>2, <1>3, <1>4

(* reset_state clears the TLB.                                             *)
LEMMA IndexInit == Init => IndexInv
<1>. SUFFICES ASSUME Init
              PROVE  IndexInv
  OBVIOUS
<1>1. TlbOK
  BY EmptyIndexed DEF Init, TlbEmpty
<1>2. PtesOK
  <2>1. ZeroPte \in Pte /\ "V" \notin ZeroPte.bits
    BY DEF ZeroPte, Pte
  <2>2. \A at \in PteAddr : ptes[at] = ZeroPte
    BY DEF Init
  <2>. QED
    BY <2>1, <2>2 DEF Init, PtesOK
<1>3. satp \in {"off", "bare", "sv"} /\ pmp \in PmpConfigs /\ synced \in BOOLEAN
  BY DEF Init
<1>. QED
  BY <1>1, <1>2, <1>3, IndexParts

(* Every access, fence and CSR write keeps the TLB indexed.                *)
LEMMA IndexStep == IndexInv /\ [Next]_vars => IndexInv'
<1>. SUFFICES ASSUME IndexInv, [Next]_vars
              PROVE  IndexInv'
  OBVIOUS
<1>0. TypeOK /\ PtesOK
  BY DEF IndexInv
<1>1. ASSUME NEW kind \in {"load", "store", "fetch"}, NEW priv \in {0, 1}, NEW sum \in BOOLEAN,
             NEW mxr \in BOOLEAN, NEW p \in Pages, NEW status \in Status(kind),
             Access(kind, priv, sum, mxr, status, p)
      PROVE  IndexInv'
  BY <1>0, <1>1, TranslateResult, CommitIndexed DEF Access
<1>2. ASSUME NEW sc \in BOOLEAN, NEW sum \in BOOLEAN, NEW mxr \in BOOLEAN, NEW priv \in Modes,
             NEW p \in Pages, AmoWalk(sc, priv, sum, mxr, p)
      PROVE  IndexInv'
  <2>1. (~sc) \in BOOLEAN
    OBVIOUS
  <2>. QED
    BY <1>2, <2>1, WalkResult, CommitIndexed DEF AmoWalk
<1>3. ASSUME NEW w \in PteWrites, PteW(w)
      PROVE  IndexInv'
  <2>1. w.at \in PteAddr /\ w.pte \in Pte
    BY MmuTableAssumption
  <2>2. "V" \in w.pte.bits /\ PtePointer(w.pte) => w.pte.ppn \notin DataFrames
    BY MmuTableAssumption DEF PtePointer
  <2>3. PtesOK'
    BY <1>0, <1>3, <2>1, <2>2, PteWritten DEF PteW
  <2>4. TlbOK'
    BY <1>3, TlbUntouched DEF PteW
  <2>5. (satp \in {"off", "bare", "sv"} /\ pmp \in PmpConfigs)' /\ synced' \in BOOLEAN
    BY <1>0, <1>3 DEF PteW, TypeOK
  <2>. QED
    BY <2>3, <2>4, <2>5 DEF IndexInv, TlbOK, TypeOK, PtesOK
<1>4. ASSUME NEW mode \in {"off", "bare", "sv"}, SatpW(mode)
      PROVE  IndexInv'
  <2>1. PtesOK'
    BY <1>0, <1>4 DEF SatpW, PtesOK, PtePointer
  <2>2. TlbOK'
    BY <1>4, TlbUntouched DEF SatpW
  <2>3. (satp \in {"off", "bare", "sv"} /\ pmp \in PmpConfigs)' /\ synced' \in BOOLEAN
    BY <1>0, <1>4 DEF SatpW, TypeOK
  <2>. QED
    BY <2>1, <2>2, <2>3 DEF IndexInv, TlbOK, TypeOK, PtesOK
<1>5. ASSUME NEW config \in PmpConfigs, PmpW(config)
      PROVE  IndexInv'
  <2>1. PtesOK'
    BY <1>0, <1>5 DEF PmpW, PtesOK, PtePointer
  <2>2. TlbOK'
    BY <1>5, TlbUntouched DEF PmpW
  <2>3. (satp \in {"off", "bare", "sv"} /\ pmp \in PmpConfigs)' /\ synced' \in BOOLEAN
    BY <1>0, <1>5 DEF PmpW, TypeOK
  <2>. QED
    BY <2>1, <2>2, <2>3 DEF IndexInv, TlbOK, TypeOK, PtesOK
<1>6. ASSUME Sfence
      PROVE  IndexInv'
  <2>1. PtesOK'
    BY <1>0, <1>6 DEF Sfence, PtesOK, PtePointer
  <2>2. TlbOK'
    BY <1>6, EmptyIndexedNext DEF Sfence, TlbClear, TlbEmpty
  <2>3. (satp \in {"off", "bare", "sv"} /\ pmp \in PmpConfigs)' /\ synced' \in BOOLEAN
    BY <1>0, <1>6 DEF Sfence, TypeOK
  <2>. QED
    BY <2>1, <2>2, <2>3 DEF IndexInv, TlbOK, TypeOK, PtesOK
<1>7. CASE UNCHANGED vars
  <2>1. PtesOK'
    BY <1>0, <1>7 DEF vars, PtesOK, PtePointer
  <2>2. TlbOK'
    BY <1>7, TlbUntouched DEF vars
  <2>3. (satp \in {"off", "bare", "sv"} /\ pmp \in PmpConfigs)' /\ synced' \in BOOLEAN
    BY <1>0, <1>7 DEF vars, TypeOK
  <2>. QED
    BY <2>1, <2>2, <2>3 DEF IndexInv, TlbOK, TypeOK, PtesOK
<1>. QED
  BY <1>1, <1>2, <1>3, <1>4, <1>5, <1>6, <1>7 DEF Next

(* The table, its counters and the placement of entries are always right.  *)
THEOREM IndexAlways == Spec => []IndexInv
BY IndexInit, IndexStep, PTL DEF Spec

(* tlb_find can rely on tlb_add: whatever order pages and superpages       *)
(* replace each other in, the counters are exact (no uint8_t underflows)   *)
(* and every cached translation is found again.                            *)
THEOREM TlbIsIndexed == Spec => []TlbIndexed
<1>1. ASSUME IndexInv
      PROVE  TlbIndexed
  <2>1. TypeOK /\ SizesCounted /\ EntriesPlaced /\ max_entry_size = Largest(size_count)
    BY <1>1 DEF IndexInv
  <2>2. ASSUME NEW s \in Slots, Valid(tlb_entries[s])
        PROVE  /\ tlb_entries[s].size <= max_entry_size
               /\ \A p \in Pages : Base(p, tlb_entries[s].size) = tlb_entries[s].page
                                     => Slot(p, tlb_entries[s].size) = tlb_entries[s]
    <3>. DEFINE i == tlb_entries[s].size
    <3>1. i \in Sizes
      BY <2>1 DEF TypeOK, TLBEntry
    <3>2. s \in OfSize(i)
      BY <2>2 DEF OfSize
    <3>. HIDE DEF i
    <3>3. size_count[i] = Cardinality(OfSize(i)) /\ IsFiniteSet(OfSize(i))
      BY <2>1, <3>1, SlotsFinite DEF SizesCounted, OfSize
    <3>4. size_count[i] > 0
      <4>1. size_count[i] # 0
        BY <3>2, <3>3, FS_EmptySet
      <4>. QED
        BY <2>1, <3>1, <4>1, MmuSizeAssumption DEF TypeOK
    <3>5. i <= max_entry_size
      BY <2>1, <3>1, <3>4, LargestIsSize
    <3>6. tlb_hash[tlb_entries[s].page] = s
      BY <2>1, <2>2 DEF EntriesPlaced
    <3>. QED
      BY <3>5, <3>6 DEF i, Slot
  <2>. QED
    BY <2>1, <2>2 DEF TlbIndexed, CachedIsFindable
<1>. QED
  BY <1>1, IndexAlways, PTL

-----------------------------------------------------------------------------
(* Page tables and TLB agree.                                              *)

(* A translation has set A and D of the PTE or, where PMP hid it from      *)
(* tlb_find, wiped it.                                                     *)
MarkedOrWiped(at) ==
  \/ Remarked(ptes[at], ptes'[at])
  \/ Wipeable(at) /\ \E dirty \in BOOLEAN : ptes'[at] = Marked(ZeroPte, dirty)

(* What OnlyMarks says of one step.                                        *)
MarksOnly == (\E w \in PteWrites : PteW(w)) \/ \A at \in PteAddr : MarkedOrWiped(at)

(* A change of a PTE that concerns neither the walk nor an entry made of   *)
(* it.                                                                     *)
SameForEntry(new, old) ==
  /\ SameForWalk(new, old)
  /\ new.bits \cap RWX = old.bits \cap RWX
  /\ "U" \in new.bits <=> "U" \in old.bits

(* The walk and the entries do not depend on A and D.                      *)
LEMMA RemarkedIsSame ==
  ASSUME NEW old, NEW new, Remarked(old, new)
  PROVE  SameForEntry(new, old)
<1>1. new.ppn = old.ppn /\ \A b : b \notin {"A", "D"} => (b \in new.bits <=> b \in old.bits)
  BY DEF Remarked
<1>2. new.bits \cap RWX = old.bits \cap RWX
  BY <1>1 DEF RWX
<1>3. /\ "U" \in new.bits <=> "U" \in old.bits
      /\ PteInvalid(new) <=> PteInvalid(old)
  BY <1>1 DEF PteInvalid
<1>4. PtePointer(new) <=> PtePointer(old)
  BY <1>2 DEF PtePointer
<1>. QED
  BY <1>1, <1>2, <1>3, <1>4 DEF SameForEntry, SameForWalk

(* Writing one PTE back marked, or wiping it, changes no other.            *)
LEMMA MarkingMarks ==
  ASSUME PtesOK, NEW at \in PteAddr, NEW w \in BOOLEAN, NEW pte \in Pte,
         pte = ptes[at] \/ (pte = ZeroPte /\ Wipeable(at)),
         ptes' = [ptes EXCEPT ![at] = Marked(pte, w)]
  PROVE  \A a \in PteAddr : MarkedOrWiped(a)
<1>. DEFINE new == Marked(pte, w)
<1>1. Remarked(pte, new)
  BY MarkedPte DEF Remarked
<1>2. \A a \in PteAddr : ptes'[a] = IF a = at THEN new ELSE ptes[a]
  BY DEF PtesOK
<1>3. \A a \in PteAddr : Remarked(ptes[a], ptes[a])
  BY DEF Remarked
<1>4. ptes'[at] = new
  BY <1>2
<1>5. MarkedOrWiped(at)
  <2>1. CASE pte = ptes[at]
    <3>. HIDE DEF new
    <3>. QED
      BY <1>1, <1>4, <2>1 DEF MarkedOrWiped
  <2>2. CASE pte = ZeroPte /\ Wipeable(at)
    BY <1>4, <2>2 DEF MarkedOrWiped
  <2>. QED
    BY <2>1, <2>2
<1>6. ASSUME NEW a \in PteAddr, a # at
      PROVE  MarkedOrWiped(a)
  <2>1. ptes'[a] = ptes[a]
    BY <1>2, <1>6
  <2>. QED
    BY <1>3, <2>1 DEF MarkedOrWiped
<1>. QED
  BY <1>5, <1>6

(* A translation marks one PTE, or wipes one, or changes none.             *)
LEMMA CommitMarks ==
  ASSUME IndexInv, NEW t, Nothing(t) \/ Remarks(t) \/ Fills(t), Commit(t)
  PROVE  MarksOnly
<1>1. PtesOK
  BY DEF IndexInv
<1>2. CASE Nothing(t)
  <2>1. ptes' = ptes
    BY <1>2 DEF Nothing, Commit
  <2>. QED
    BY <2>1 DEF MarksOnly, MarkedOrWiped, Remarked
<1>3. CASE Remarks(t)
  <2>1. PICK at \in PteAddr, w \in BOOLEAN, pte \in Pte :
          /\ t.ptes = [ptes EXCEPT ![at] = Marked(pte, w)]
          /\ pte = ptes[at] \/ (pte = ZeroPte /\ Wipeable(at))
    BY <1>3 DEF Remarks
  <2>2. ptes' = [ptes EXCEPT ![at] = Marked(pte, w)]
    BY <2>1 DEF Commit
  <2>. QED
    BY <1>1, <2>1, <2>2, MarkingMarks DEF MarksOnly
<1>4. CASE Fills(t)
  <2>1. PICK priv \in Modes, p \in Pages, perm \in RWX, w \in BOOLEAN :
          LET leaf == Descend(priv, p, perm)
              pte == Marked(ptes[leaf.at], w)
          IN /\ leaf.end = "leaf" /\ ptes[leaf.at].ppn % (FANOUT^(leaf.size)) = 0
             /\ t.ptes = [ptes EXCEPT ![leaf.at] = pte]
             /\ t.fill = {EntryFor(p, leaf, pte)}
    BY <1>4 DEF Fills
  <2>. DEFINE leaf == Descend(priv, p, perm)
  <2>2. leaf.at \in PteAddr
    BY <1>1, <2>1, EntryOK
  <2>3. ptes' = [ptes EXCEPT ![leaf.at] = Marked(ptes[leaf.at], w)]
    BY <2>1 DEF Commit
  <2>. HIDE DEF leaf
  <2>4. ptes[leaf.at] \in Pte
    BY <1>1, <2>2 DEF PtesOK
  <2>. QED
    BY <1>1, <2>2, <2>3, <2>4, MarkingMarks DEF MarksOnly
<1>. QED
  BY <1>2, <1>3, <1>4

(* Every step marks or wipes, or is a store of the guest.                  *)
LEMMA StepMarks ==
  ASSUME IndexInv, [Next]_vars
  PROVE  MarksOnly
<1>0. TypeOK
  BY DEF IndexInv
<1>1. ASSUME NEW kind \in {"load", "store", "fetch"}, NEW priv \in {0, 1}, NEW sum \in BOOLEAN,
             NEW mxr \in BOOLEAN, NEW p \in Pages, NEW status \in Status(kind),
             Access(kind, priv, sum, mxr, status, p)
      PROVE  MarksOnly
  BY <1>0, <1>1, TranslateResult, CommitMarks DEF Access
<1>2. ASSUME NEW sc \in BOOLEAN, NEW sum \in BOOLEAN, NEW mxr \in BOOLEAN, NEW priv \in Modes,
             NEW p \in Pages, AmoWalk(sc, priv, sum, mxr, p)
      PROVE  MarksOnly
  <2>1. (~sc) \in BOOLEAN
    OBVIOUS
  <2>. QED
    BY <1>2, <2>1, WalkResult, CommitMarks DEF AmoWalk
<1>3. ASSUME NEW w \in PteWrites, PteW(w)
      PROVE  MarksOnly
  BY <1>3 DEF MarksOnly
<1>4. ASSUME ptes' = ptes
      PROVE  MarksOnly
  BY <1>4 DEF MarksOnly, MarkedOrWiped, Remarked
<1>. QED
  BY <1>1, <1>2, <1>3, <1>4 DEF Next, SatpW, PmpW, Sfence, vars

(* The write-backs of page_table_walk and tlb_find set A and D and damage  *)
(* no PTE but those of cached leaves in a table that PMP lets some mode    *)
(* write and not both load and fetch; such a PTE they can only wipe.       *)
THEOREM TranslationOnlyMarks == Spec => OnlyMarks
<1>1. IndexInv /\ [Next]_vars => [MarksOnly]_vars
  BY StepMarks
<1>2. [MarksOnly]_vars =>
        [\/ \E w \in PteWrites : PteW(w)
         \/ \A at \in PteAddr :
              \/ Remarked(ptes[at], ptes'[at])
              \/ Wipeable(at) /\ \E dirty \in BOOLEAN : ptes'[at] = Marked(ZeroPte, dirty)]_vars
  BY DEF MarksOnly, MarkedOrWiped
<1>. QED
  BY <1>1, <1>2, IndexAlways, PTL DEF Spec, OnlyMarks

(* A walk in M-mode would find the entry.                                  *)
Coherent(e) ==
  LET leaf == Descend(3, e.page, "R")
  IN /\ leaf.end = "leaf" /\ leaf.at = e.at /\ leaf.size = e.size
     /\ ptes[e.at].ppn = e.ppn /\ ptes[e.at].bits \cap RWX = e.permissions
     /\ e.user <=> "U" \in ptes[e.at].bits

(* It still would after changes to PTEs that were not valid, to PMP, and   *)
(* to what the walk and the entry do not depend on.                        *)
LEMMA EntryKept ==
  ASSUME PtesOK, MachineReads, pmp \in PmpConfigs, pmp' \in PmpConfigs,
         NEW CONSTANT e \in TLBEntry, Coherent(e),
         \A at \in PteAddr : ~PteInvalid(ptes[at]) => SameForEntry(ptes'[at], ptes[at])
  PROVE  Coherent(e)'
<1>1. PICK page \in Pages : page = e.page
  BY DEF TLBEntry
<1>2. Descend(3, page, "R").end = "leaf"
  BY <1>1 DEF Coherent
<1>3. Descend(3, page, "R")' = Descend(3, page, "R")
  BY <1>2, WalkKept DEF SameForEntry
<1>4. e.at \in PteAddr /\ ~PteInvalid(ptes[e.at])
  <2>1. Shape(Descend(3, page, "R"), LEVELS)
    BY PathShape, MmuSizeAssumption DEF Descend
  <2>2. Descend(3, page, "R").at = e.at
    BY <1>1 DEF Coherent
  <2>. QED
    BY <1>2, <2>1, <2>2 DEF Shape
<1>5. SameForEntry(ptes'[e.at], ptes[e.at])
  BY <1>4
<1>. DEFINE leaf == Descend(3, page, "R")
<1>6. leaf.end = "leaf" /\ leaf.at = e.at /\ leaf.size = e.size
  BY <1>1 DEF Coherent
<1>7. leaf' = leaf
  BY <1>3
<1>8. /\ ptes[e.at].ppn = e.ppn /\ ptes[e.at].bits \cap RWX = e.permissions
      /\ e.user <=> "U" \in ptes[e.at].bits
  BY DEF Coherent
<1>9. /\ ptes'[e.at].ppn = e.ppn /\ ptes'[e.at].bits \cap RWX = e.permissions
      /\ e.user <=> "U" \in ptes'[e.at].bits
  BY <1>5, <1>8 DEF SameForEntry, SameForWalk
<1>. HIDE DEF leaf
<1>10. leaf'.end = "leaf" /\ leaf'.at = e.at /\ leaf'.size = e.size
  BY <1>6, <1>7
<1>. QED
  BY <1>1, <1>9, <1>10 DEF Coherent, leaf

(* What a walk offers to the TLB is coherent.                              *)
LEMMA EntryCoherent ==
  ASSUME PtesOK, MachineReads, pmp \in PmpConfigs, NEW priv, NEW p \in Pages, NEW perm,
         NEW w \in BOOLEAN, NEW leaf, leaf = Descend(priv, p, perm), leaf.end = "leaf",
         ptes[leaf.at].ppn % (FANOUT^(leaf.size)) = 0
  PROVE  Coherent(EntryFor(p, leaf, Marked(ptes[leaf.at], w)))
<1>. DEFINE e == EntryFor(p, leaf, Marked(ptes[leaf.at], w))
<1>1. /\ e.ppn = ptes[leaf.at].ppn /\ e.permissions = ptes[leaf.at].bits \cap RWX
      /\ e.user <=> "U" \in ptes[leaf.at].bits
      /\ e.at = leaf.at /\ e.size = leaf.size /\ e.page = Base(p, leaf.size)
  BY EntryOK
<1>. HIDE DEF e
<1>2. Descend(3, e.page, "R") = leaf
  BY <1>1, LeafOfBase
<1>3. Coherent(e)
  BY <1>1, <1>2 DEF Coherent
<1>. QED
  BY <1>3 DEF e

(* The inductive invariant for coherence.                                  *)
AllCoherent == \A s \in Slots : Valid(tlb_entries[s]) => Coherent(tlb_entries[s])

(* TlbCoherent speaks of every valid entry.                                *)
LEMMA CoherentIsAll == TlbCoherent <=> (synced => AllCoherent)
BY DEF TlbCoherent, AllCoherent, Coherent

CoherenceInv == IndexInv /\ (synced => AllCoherent)

(* A TLB that is not filled stays coherent.                                *)
LEMMA AllKept ==
  ASSUME IndexInv, MachineReads, AllCoherent, pmp' \in PmpConfigs, tlb_entries' = tlb_entries,
         \A at \in PteAddr : ~PteInvalid(ptes[at]) => SameForEntry(ptes'[at], ptes[at])
  PROVE  AllCoherent'
<1>1. PtesOK /\ pmp \in PmpConfigs /\ tlb_entries \in [Slots -> TLBEntry]
  BY DEF IndexInv, TypeOK
<1>2. ASSUME NEW CONSTANT s \in Slots, Valid(tlb_entries[s])'
      PROVE  Coherent(tlb_entries[s])'
  <2>1. PICK e \in TLBEntry : e = tlb_entries[s]
    BY <1>1
  <2>2. Coherent(e)
    BY <1>2, <2>1 DEF AllCoherent, Valid
  <2>3. Coherent(e)'
    BY <1>1, <2>2, EntryKept
  <2>. QED
    BY <2>1, <2>3 DEF Coherent
<1>. QED
  BY <1>2 DEF AllCoherent

(* Nor does a translation that marks and wipes nothing make it incoherent. *)
LEMMA CommitCoherent ==
  ASSUME IndexInv, MachineReads, AllCoherent, synced',
         NEW CONSTANT t, Nothing(t) \/ Remarks(t) \/ Fills(t), Commit(t)
  PROVE  AllCoherent'
<1>1. PtesOK /\ pmp \in PmpConfigs /\ pmp' \in PmpConfigs /\ tlb_entries \in [Slots -> TLBEntry]
  BY DEF IndexInv, TypeOK, Commit
<1>2. \A at \in PteAddr : ~PteInvalid(ptes[at]) => SameForEntry(ptes'[at], ptes[at])
  BY RemarkedIsSame DEF Commit
<1>3. CASE Nothing(t) \/ Remarks(t)
  <2>1. tlb_entries' = tlb_entries
    BY <1>3 DEF Nothing, Remarks, Commit, tlb
  <2>. QED
    BY <1>1, <1>2, <2>1, AllKept
<1>4. CASE Fills(t)
  <2>1. PICK priv \in Modes, p \in Pages, perm \in RWX, w \in BOOLEAN :
          LET leaf == Descend(priv, p, perm)
              pte == Marked(ptes[leaf.at], w)
          IN /\ leaf.end = "leaf" /\ ptes[leaf.at].ppn % (FANOUT^(leaf.size)) = 0
             /\ t.ptes = [ptes EXCEPT ![leaf.at] = pte]
             /\ t.fill = {EntryFor(p, leaf, pte)}
    BY <1>4 DEF Fills
  <2>. DEFINE leaf == Descend(priv, p, perm)
  <2>2. PICK e : e = EntryFor(p, leaf, Marked(ptes[leaf.at], w))
    OBVIOUS
  <2>3. e \in TLBEntry /\ Coherent(e)
    BY <1>1, <2>1, <2>2, EntryOK, EntryCoherent
  <2>4. TlbAdd(e)
    <3>1. t.fill = {e}
      BY <2>1, <2>2
    <3>. QED
      BY <3>1 DEF Commit
  <2>5. ASSUME NEW CONSTANT s \in Slots
        PROVE  tlb_entries'[s] = e \/ tlb_entries'[s] = tlb_entries[s]
    BY <1>1, <2>4 DEF TlbAdd
  <2>6. ASSUME NEW CONSTANT s \in Slots, Valid(tlb_entries[s])'
        PROVE  Coherent(tlb_entries[s])'
    <3>1. PICK f \in TLBEntry : f = tlb_entries'[s]
      BY <1>1, <2>3, <2>5
    <3>2. Coherent(f)
      BY <2>3, <2>5, <2>6, <3>1 DEF AllCoherent, Valid
    <3>3. Coherent(f)'
      BY <1>1, <1>2, <3>2, EntryKept
    <3>. QED
      BY <3>1, <3>3 DEF Coherent
  <2>. QED
    BY <2>6 DEF AllCoherent
<1>. QED
  BY <1>3, <1>4

(* Every step keeps a TLB coherent that the guest has fenced.              *)
LEMMA CoherenceStep ==
  ASSUME MachineReads, CoherenceInv, [Next]_vars
  PROVE  CoherenceInv'
<1>0. IndexInv /\ TypeOK /\ PtesOK /\ IndexInv'
  BY IndexStep DEF CoherenceInv, IndexInv
<1>. SUFFICES ASSUME synced'
              PROVE  AllCoherent'
  BY <1>0 DEF CoherenceInv
<1>a. pmp' \in PmpConfigs
  BY <1>0 DEF IndexInv, TypeOK
<1>1. ASSUME NEW kind \in {"load", "store", "fetch"}, NEW priv \in {0, 1}, NEW sum \in BOOLEAN,
             NEW mxr \in BOOLEAN, NEW p \in Pages, NEW status \in Status(kind),
             Access(kind, priv, sum, mxr, status, p)
      PROVE  AllCoherent'
  <2>1. PICK t : t = Translate(kind, priv, sum, mxr, status, p)
    OBVIOUS
  <2>2. Commit(t)
    BY <1>1, <2>1 DEF Access
  <2>3. AllCoherent
    BY <2>2 DEF Commit, CoherenceInv
  <2>4. Nothing(t) \/ Remarks(t) \/ Fills(t)
    BY <1>0, <2>1, TranslateResult
  <2>. QED
    BY <1>0, <2>2, <2>3, <2>4, CommitCoherent
<1>2. ASSUME NEW sc \in BOOLEAN, NEW sum \in BOOLEAN, NEW mxr \in BOOLEAN, NEW priv \in Modes,
             NEW p \in Pages, AmoWalk(sc, priv, sum, mxr, p)
      PROVE  AllCoherent'
  <2>1. PICK t : t = Walk(priv, sum, mxr, p, sc, ~sc)
    OBVIOUS
  <2>2. Commit(t)
    BY <1>2, <2>1 DEF AmoWalk
  <2>3. AllCoherent
    BY <2>2 DEF Commit, CoherenceInv
  <2>4. (~sc) \in BOOLEAN
    OBVIOUS
  <2>5. Nothing(t) \/ Fills(t)
    BY <2>1, <2>4, WalkResult
  <2>. QED
    BY <1>0, <2>2, <2>3, <2>5, CommitCoherent
<1>b. \A at \in PteAddr : SameForEntry(ptes[at], ptes[at])
  BY DEF SameForEntry, SameForWalk
<1>3. ASSUME NEW w \in PteWrites, PteW(w)
      PROVE  AllCoherent'
  <2>1. AllCoherent /\ PteInvalid(ptes[w.at])
    BY <1>3 DEF PteW, CoherenceInv
  <2>2. tlb_entries' = tlb_entries
    BY <1>3 DEF PteW, tlb
  <2>3. w.at \in PteAddr
    BY MmuTableAssumption
  <2>4. \A at \in PteAddr : at # w.at => ptes'[at] = ptes[at]
    BY <1>0, <1>3, <2>3 DEF PteW, PtesOK
  <2>5. \A at \in PteAddr : ~PteInvalid(ptes[at]) => SameForEntry(ptes'[at], ptes[at])
    BY <1>b, <2>1, <2>4
  <2>. QED
    BY <1>0, <1>a, <2>1, <2>2, <2>5, AllKept
<1>4. ASSUME ptes' = ptes, tlb_entries' = tlb_entries, synced
      PROVE  AllCoherent'
  <2>1. AllCoherent
    BY <1>4 DEF CoherenceInv
  <2>. QED
    BY <1>0, <1>a, <1>b, <1>4, <2>1, AllKept
<1>5. ASSUME Sfence
      PROVE  AllCoherent'
  BY <1>5 DEF Sfence, TlbClear, AllCoherent, Valid, NoEntry
<1>6. ASSUME NEW mode \in {"off", "bare", "sv"}, SatpW(mode)
      PROVE  AllCoherent'
  BY <1>4, <1>6 DEF SatpW, tlb
<1>7. ASSUME NEW config \in PmpConfigs, PmpW(config)
      PROVE  AllCoherent'
  BY <1>4, <1>7 DEF PmpW, tlb
<1>8. CASE UNCHANGED vars
  BY <1>4, <1>8 DEF vars, tlb
<1>. QED
  BY <1>1, <1>2, <1>3, <1>5, <1>6, <1>7, <1>8 DEF Next

(* The strengthened invariant of coherence: the TLB that tlb_add fills is  *)
(* indexed, and every valid entry of a fenced TLB is one that              *)
(* page_table_walk would make now.                                         *)
THEOREM CoherenceAlways ==
  ASSUME MachineReads
  PROVE  Spec => []CoherenceInv
<1>1. Init => CoherenceInv
  <2>. SUFFICES ASSUME Init
                PROVE  CoherenceInv
    OBVIOUS
  <2>1. AllCoherent
    BY DEF Init, AllCoherent, Valid, NoEntry
  <2>. QED
    BY <2>1, IndexInit DEF CoherenceInv
<1>2. CoherenceInv /\ [Next]_vars => CoherenceInv'
  BY CoherenceStep
<1>. QED
  BY <1>1, <1>2, PTL DEF Spec

(* Between fences of the guest the TLB holds what a walk would find: the   *)
(* marking of PTEs, changes of PMP, the filling of invalid PTEs and the    *)
(* replacement of entries never leave a stale translation behind.          *)
THEOREM TlbStaysCoherent ==
  ASSUME MachineReads
  PROVE  Spec => []TlbCoherent
<1>1. CoherenceInv => TlbCoherent
  BY CoherentIsAll DEF CoherenceInv
<1>. QED
  BY <1>1, CoherenceAlways, PTL

(* The leaf that a hit stands for.                                         *)
LEMMA HitIsLeaf ==
  ASSUME CoherenceInv, synced, NEW priv, NEW sum, NEW p \in Pages, NEW perm,
         NEW i \in Hits(priv, sum, p, perm)
  PROVE  LET e == Slot(p, i)
             leaf == Descend(3, p, "R")
         IN /\ leaf.end = "leaf" /\ leaf.at = e.at /\ leaf.size = i
            /\ i \in Sizes /\ e \in TLBEntry /\ e.at \in PteAddr /\ ptes[e.at] \in Pte
            /\ ptes[e.at].ppn = e.ppn /\ ptes[e.at].bits \cap RWX = e.permissions
            /\ e.user <=> "U" \in ptes[e.at].bits
            /\ e.ppn % (FANOUT^i) = 0
<1>. DEFINE e == Slot(p, i)
<1>1. TypeOK /\ PtesOK /\ EntriesAligned /\ AllCoherent
  BY DEF CoherenceInv, IndexInv
<1>2. i \in Sizes /\ e \in TLBEntry /\ e.size = i /\ tlb_hash[Base(p, i)] \in Slots
  BY <1>1, HitIsEntry
<1>3. Valid(e) /\ e.page = Base(p, i)
  BY DEF Hits
<1>4. Coherent(e) /\ e.ppn % (FANOUT^(e.size)) = 0
  BY <1>1, <1>2, <1>3 DEF AllCoherent, EntriesAligned, Slot
<1>. HIDE DEF e
<1>5. /\ Descend(3, Base(p, i), "R").end = "leaf" /\ Descend(3, Base(p, i), "R").size = i
      /\ Descend(3, Base(p, i), "R").at = e.at
  BY <1>2, <1>3, <1>4 DEF Coherent
<1>6. Descend(3, p, "R") = Descend(3, Base(p, i), "R")
  BY <1>1, <1>2, <1>5, LeafOfPage
<1>7. e.at \in PteAddr /\ ptes[e.at] \in Pte
  BY <1>1, <1>2 DEF TLBEntry, PtesOK
<1>8. /\ ptes[e.at].ppn = e.ppn /\ ptes[e.at].bits \cap RWX = e.permissions
      /\ e.user <=> "U" \in ptes[e.at].bits
  BY <1>4 DEF Coherent
<1>9. e.ppn % (FANOUT^i) = 0
  BY <1>2, <1>4
<1>. QED
  BY <1>2, <1>5, <1>6, <1>7, <1>8, <1>9 DEF e

(* A usable hit of tlb_find and page_table_walk give the same frame.       *)
LEMMA HitAgrees ==
  ASSUME CoherenceInv, synced, satp = "sv",
         NEW kind \in {"load", "store", "fetch"}, NEW priv \in {0, 1}, NEW sum \in BOOLEAN,
         NEW mxr \in BOOLEAN, NEW p \in Pages, NEW status \in Status(kind),
         NEW i \in Hits(priv, sum, p, Needs(kind)), Usable(priv, p, i),
         ~(kind = "fetch" /\ priv = 1 /\ sum)
  PROVE  LET walk == Walk(priv, sum, mxr, p, kind = "store", status)
         IN IF \A t \in WalkTables(p) : Permitted(priv, t, Reads(status))
            THEN walk.fault = "none" /\ walk.frame = Found(priv, p, Needs(kind), status, i).frame
            ELSE walk.fault = "access"
<1>. DEFINE e == Slot(p, i)
            w == (kind = "store")
            perm == Needs(kind)
            bits == ptes[e.at].bits
            leaf == Descend(priv, p, Reads(status))
            walk == Walk(priv, sum, mxr, p, w, status)
            pass == \A t \in WalkTables(p) : Permitted(priv, t, Reads(status))
<1>1. LET l == Descend(3, p, "R")
      IN /\ l.end = "leaf" /\ l.at = e.at /\ l.size = i
         /\ i \in Sizes /\ e \in TLBEntry /\ e.at \in PteAddr /\ ptes[e.at] \in Pte
         /\ ptes[e.at].ppn = e.ppn /\ bits \cap RWX = e.permissions
         /\ e.user <=> "U" \in bits
         /\ e.ppn % (FANOUT^i) = 0
  BY HitIsLeaf
<1>2. IF pass THEN leaf = Descend(3, p, "R") ELSE leaf.end = "access"
  <2>1. PtesOK
    BY DEF CoherenceInv, IndexInv
  <2>. QED
    BY <1>1, <2>1, PmpOnWalk
<1>3. CASE ~pass
  <2>1. leaf.end = "access"
    BY <1>2, <1>3
  <2>2. walk = Faults("access")
    BY <2>1 DEF Walk
  <2>. QED
    BY <1>3, <2>2 DEF Faults
<1>4. CASE pass
  <2>1. leaf.end = "leaf" /\ leaf.at = e.at /\ leaf.size = i
    BY <1>1, <1>2, <1>4
  <2>2. perm \in e.permissions /\ (priv = 0 => e.user) /\ (priv >= 1 /\ e.user => sum)
    BY DEF Hits
  <2>3. perm \in bits /\ ("U" \in bits <=> e.user)
    BY <1>1, <2>2
  <2>4. /\ kind = "load" => perm = "R" /\ status = TRUE
        /\ kind = "fetch" => perm = "X" /\ status = FALSE
        /\ kind = "store" => perm = "W"
    BY DEF Needs, Status
  <2>5. ptes[e.at].ppn % (FANOUT^i) = 0
    BY <1>1
  <2>. HIDE DEF e, perm, bits, leaf
  <2>6. ~LeafFault(priv, sum, mxr, leaf, w, status)
    <3>1. ~(w /\ "W" \notin bits) /\ ~(~w /\ status /\ "R" \notin bits)
            /\ ~(~w /\ ~status /\ "X" \notin bits)
      BY <2>3, <2>4
    <3>2. ~("U" \in bits /\ priv >= 1 /\ (~sum \/ (~status /\ ~w)))
      BY <2>2, <2>3, <2>4
    <3>3. ~("U" \notin bits /\ priv = 0)
      BY <2>2, <2>3
    <3>. QED
      BY <2>1, <2>5, <3>1, <3>2, <3>3 DEF LeafFault, bits
  <2>7. Permitted(priv, leaf.at[1], "W")
    BY <2>1 DEF Usable, e
  <2>. DEFINE pte == Marked(ptes[leaf.at], w)
  <2>8. pte.ppn = e.ppn
    <3>1. w \in BOOLEAN
      OBVIOUS
    <3>2. ptes[leaf.at] \in Pte /\ ptes[leaf.at].ppn = e.ppn
      BY <1>1, <2>1
    <3>. HIDE DEF w
    <3>. QED
      BY <3>1, <3>2, MarkedPte
  <2>9. walk.fault = "none" /\ walk.frame = pte.ppn + p - Base(p, i)
    BY <2>1, <2>6, <2>7 DEF Walk, Yields, leaf
  <2>10. Found(priv, p, Needs(kind), status, i).frame = e.ppn + p - Base(p, i)
    BY DEF Found, Yields, e
  <2>. QED
    BY <1>4, <2>8, <2>9, <2>10
<1>. QED
  BY <1>3, <1>4

(* Between fences of the guest, an access that hits the TLB is granted     *)
(* only if a walk would grant it, and reaches the same frame; apart from   *)
(* S-mode fetches under SUM, only PMP can make the walk say otherwise, by  *)
(* denying it a table.                                                     *)
THEOREM HitsAlwaysAgree ==
  ASSUME MachineReads
  PROVE  Spec => []HitsAgree
<1>1. CoherenceInv => HitsAgree
  BY HitAgrees DEF HitsAgree
<1>. QED
  BY <1>1, CoherenceAlways, PTL

==============================================================================
