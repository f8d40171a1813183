------------------------------ MODULE PlicProofs -----------------------------
(***************************************************************************)
(* Theorems about Plic for every number of sources, priority range, set of *)
(* device threads and interleaving.  The claim loop is a recursive         *)
(* function; what is said of it is proved by induction over its rounds     *)
(* (UptoInduction).                                                        *)
(***************************************************************************)
EXTENDS Plic, WellFoundedInduction, TLAPS

-----------------------------------------------------------------------------
(* Types.                                                                  *)

(* The numbers and names the constants provide.                            *)
LEMMA PlicConstants ==
  /\ PLIC_SOURCE_COUNT \in Nat \ {0} /\ 0 \in Sources /\ UART_SOURCE \in Sources
  /\ 0 \in Prios /\ "main" \in Devices /\ "hart" \in Threads
  /\ \A c \in Contexts : CtxBit(c) \in Bits
<1>1. PLIC_SOURCE_COUNT \in Nat \ {0} /\ UART_SOURCE \in Sources /\ 0 \in Sources
  BY PlicAssumption DEF Sources
<1>2. 0 \in Prios /\ \A c \in Contexts : CtxBit(c) \in Bits
  BY PlicAssumption DEF Prios, CtxBit
<1>3. "main" \in Devices /\ "hart" \in Threads
  BY MipAssumption DEF Devices
<1>. QED
  BY <1>1, <1>2, <1>3

(* The locals a device thread starts a statement with are well typed.      *)
LEMMA LocalsAreRegs ==
  /\ \A pc \in DevPc : Locals(pc) \in DevRegs
  /\ \A s \in Sources, b \in BOOLEAN : Try(s, b) \in DevRegs
  /\ \A t : AfterUart(t) \in DevRegs
<1>1. \A pc \in DevPc : Locals(pc) \in DevRegs
  BY PlicConstants DEF Locals, DevRegs
<1>2. \A s \in Sources, b \in BOOLEAN : Try(s, b) \in DevRegs
  <2>1. \A r \in DevRegs, s \in Sources, b \in BOOLEAN :
          [r EXCEPT !.src = s, !.sending = b] \in DevRegs
    BY DEF DevRegs
  <2>. QED
    BY <1>1, <2>1 DEF Try, DevPc
<1>3. \A t : AfterUart(t) \in DevRegs
  BY <1>1, <1>2, PlicConstants DEF AfterUart, DevPc
<1>. QED
  BY <1>1, <1>2, <1>3

(* plic_try_int returns to a statement with well-typed locals.             *)
LEMMA ReturnedIsRegs ==
  ASSUME NEW t \in Devices, dev[t] \in DevRegs
  PROVE  Returned(t) \in DevRegs
<1>1. dev[t].src \in Sources
  BY DEF DevRegs
<1>2. dev[t].src + 1 < PLIC_SOURCE_COUNT => dev[t].src + 1 \in Sources
  BY <1>1, PlicConstants DEF Sources
<1>. QED
  BY <1>2, LocalsAreRegs DEF Returned, DevPc

(* plic_init leaves the registers well typed, whatever they hold.          *)
LEMMA InitTypeOK == Init => TypeOK
<1>. SUFFICES ASSUME Init PROVE TypeOK
  OBVIOUS
<1>1. MipTypeOK
  BY DEF Init, MipInit, MipTypeOK, Update, NoUpdate
<1>2. dev \in [Devices -> DevRegs] /\ hart \in HartRegs
  BY LocalsAreRegs, PlicConstants DEF Init, IdleRegs, HartRegs, DevPc
<1>3. writes \in 0 .. MaxWrites
  BY PlicAssumption DEF Init
<1>. QED
  BY <1>1, <1>2, <1>3 DEF Init, TypeOK

(* The steps of an update of mip keep its types.                           *)
LEMMA MipSteps ==
  ASSUME MipTypeOK, NEW t \in Threads
  PROVE  /\ \A b \in BOOLEAN, B \in SUBSET Bits : Start(t, b, B) => MipTypeOK'
         /\ Load(t) \/ Store(t) => MipTypeOK'
         /\ \A sip \in BOOLEAN, w \in SUBSET Bits : Csr(sip, w) => MipTypeOK'
<1>. USE DEF MipTypeOK, Update
<1>1. ASSUME NEW b \in BOOLEAN, NEW B \in SUBSET Bits, Start(t, b, B) PROVE MipTypeOK'
  BY <1>1 DEF Start
<1>2. ASSUME Load(t) PROVE MipTypeOK'
  BY <1>2 DEF Load
<1>3. ASSUME Store(t) PROVE MipTypeOK'
  <2>1. rmw[t].reg \subseteq Bits /\ rmw[t].bits \subseteq Bits
    OBVIOUS
  <2>2. mip' \subseteq Bits
    BY <1>3, <2>1 DEF Store
  <2>3. rmw' \in [Threads -> Update]
    BY <1>3 DEF Store, NoUpdate
  <2>. QED
    BY <2>2, <2>3
<1>4. ASSUME NEW b \in BOOLEAN, NEW B \in SUBSET Bits, Start("hart", b, B) PROVE MipTypeOK'
  BY <1>4, MipAssumption DEF Start
<1>5. ASSUME NEW sip \in BOOLEAN, NEW w \in SUBSET Bits, Csr(sip, w) PROVE MipTypeOK'
  <2>1. w \ MachineBits \in SUBSET Bits /\ w \cup (MachineBits \cap Bits) \in SUBSET Bits
    OBVIOUS
  <2>. HIDE DEF MipTypeOK, Update
  <2>2. ASSUME CsrWrite(sip, w) PROVE MipTypeOK'
    BY <2>1, <2>2 DEF CsrWrite, MipTypeOK
  <2>3. ASSUME CsrSet(sip, w) PROVE MipTypeOK'
    BY <1>4, <2>1, <2>3 DEF CsrSet
  <2>4. ASSUME CsrClear(sip, w) PROVE MipTypeOK'
    BY <1>4, <2>1, <2>4 DEF CsrClear
  <2>. QED
    BY <1>5, <2>2, <2>3, <2>4 DEF Csr
<1>. QED
  BY <1>1, <1>2, <1>3, <1>5

-----------------------------------------------------------------------------
(* The claim loop.                                                         *)

(* What holds of 0 and passes from k - 1 to k, up to n, holds up to n.     *)
LEMMA UptoInduction ==
  ASSUME NEW n \in Nat, NEW S, 0 \in S, \A k \in 1 .. n : k - 1 \in S => k \in S
  PROVE  \A k \in 0 .. n : k \in S
<1>. DEFINE T == {k \in 0 .. n : k \notin S}
<1>. SUFFICES ASSUME T # {}
              PROVE  FALSE
  OBVIOUS
<1>1. PICK m \in T : \A y \in T : ~(<<y, m>> \in OpToRel(<, Nat))
  <2>1. T \subseteq Nat
    OBVIOUS
  <2>. HIDE DEF T
  <2>. QED
    BY <2>1, WFMin, NatLessThanWellFounded
<1>2. m \in 1 .. n /\ m - 1 \in 0 .. n
  OBVIOUS
<1>3. <<m - 1, m>> \in OpToRel(<, Nat)
  BY <1>2 DEF OpToRel
<1>. QED
  BY <1>1, <1>2, <1>3

(* What the loop has found after n rounds, from what it found before.      *)
Round(c, n, last) ==
  IF n = 0 THEN [prio |-> 0, src |-> 0] ELSE Higher(c, last, n - 1)

(* The claim loop is what its rounds make of it: the recursion has a       *)
(* solution for every number of sources.                                   *)
LEMMA ScanIsRounds ==
  ASSUME NEW c
  PROVE  Scan(c) = [n \in 0 .. PLIC_SOURCE_COUNT |-> Round(c, n, Scan(c)[n - 1])]
<1>. DEFINE Upto(n) == \E f : f = [k \in 0 .. n |-> Round(c, k, f[k - 1])]
            S == {n \in Nat : Upto(n)}
<1>1. 0 \in S
  <2>. DEFINE f == [k \in 0 .. 0 |-> Round(c, 0, 0)]
  <2>1. f = [k \in 0 .. 0 |-> Round(c, k, f[k - 1])]
    BY DEF Round
  <2>. QED
    BY <2>1
<1>2. ASSUME NEW n \in 1 .. PLIC_SOURCE_COUNT, n - 1 \in S
      PROVE  n \in S
  <2>1. PICK f : f = [k \in 0 .. n - 1 |-> Round(c, k, f[k - 1])]
    BY <1>2
  <2>. DEFINE g == [k \in 0 .. n |-> Round(c, k, f[k - 1])]
  <2>2. \A k \in 0 .. n : k # 0 => g[k - 1] = f[k - 1]
    BY <2>1
  <2>. HIDE DEF g
  <2>3. \A k \in 0 .. n : Round(c, k, g[k - 1]) = Round(c, k, f[k - 1])
    BY <2>2 DEF Round
  <2>4. g = [k \in 0 .. n |-> Round(c, k, g[k - 1])]
    BY <2>3 DEF g
  <2>5. Upto(n)
    BY <2>4
  <2>. HIDE DEF Upto
  <2>. QED
    BY <2>5
<1>3. \E f : f = [k \in 0 .. PLIC_SOURCE_COUNT |-> Round(c, k, f[k - 1])]
  <2>. HIDE DEF S
  <2>1. \A k \in 0 .. PLIC_SOURCE_COUNT : k \in S
    BY <1>1, <1>2, PlicConstants, UptoInduction
  <2>2. PLIC_SOURCE_COUNT \in S
    BY <2>1, PlicConstants
  <2>. QED
    BY <2>2 DEF S
<1>. QED
  BY <1>3 DEF Scan, Round

(* The loop invariant: of the first n sources, b is the lowest-numbered    *)
(* enabled one of the highest priority, or 0 if none has a priority.       *)
Found(c, n, b) ==
  /\ b.prio \in Nat
  /\ \A s \in Sources : (s < n /\ plic_find_en(c, s)) => int_prio_regs[s] <= b.prio
  /\ \/ b.prio = 0 /\ b.src = 0
     \/ /\ b.prio > 0 /\ b.src \in Sources /\ plic_find_en(c, b.src)
        /\ int_prio_regs[b.src] = b.prio
        /\ \A s \in Sources : (s < b.src /\ plic_find_en(c, s)) => int_prio_regs[s] < b.prio

(* A round of the loop, with one more source.                              *)
LEMMA RoundKeepsFound ==
  ASSUME TypeOK, NEW c, NEW n \in 1 .. PLIC_SOURCE_COUNT, NEW b, Found(c, n - 1, b)
  PROVE  Found(c, n, Higher(c, b, n - 1))
<1>1. n - 1 \in Sources /\ \A s \in Sources : s \in Nat /\ int_prio_regs[s] \in Nat
  BY PlicAssumption DEF TypeOK, Sources, Prios
<1>2. \A s \in Sources : s < n => s < n - 1 \/ s = n - 1
  BY <1>1
<1>3. CASE int_prio_regs[n - 1] > b.prio /\ plic_find_en(c, n - 1)
  <2>. DEFINE d == Higher(c, b, n - 1)
  <2>1. d.prio = int_prio_regs[n - 1] /\ d.src = n - 1
    BY <1>3 DEF Higher
  <2>. HIDE DEF d
  <2>2. \A s \in Sources : (s < n - 1 /\ plic_find_en(c, s)) => int_prio_regs[s] < d.prio
    BY <1>1, <1>3, <2>1 DEF Found
  <2>3. \A s \in Sources : (s < n /\ plic_find_en(c, s)) => int_prio_regs[s] <= d.prio
    BY <1>1, <1>2, <2>1, <2>2
  <2>4. d.prio \in Nat /\ d.prio > 0
    BY <1>1, <1>3, <2>1 DEF Found
  <2>5. Found(c, n, d)
    BY <1>1, <1>3, <2>1, <2>2, <2>3, <2>4 DEF Found
  <2>. QED
    BY <2>5 DEF d
<1>4. CASE ~(int_prio_regs[n - 1] > b.prio /\ plic_find_en(c, n - 1))
  <2>1. Higher(c, b, n - 1) = b
    BY <1>4 DEF Higher
  <2>2. plic_find_en(c, n - 1) => int_prio_regs[n - 1] <= b.prio
    BY <1>1, <1>4 DEF Found
  <2>3. \A s \in Sources : (s < n /\ plic_find_en(c, s)) => int_prio_regs[s] <= b.prio
    BY <1>1, <1>2, <2>2 DEF Found
  <2>. QED
    BY <2>1, <2>3 DEF Found
<1>. QED
  BY <1>3, <1>4

(* So the whole loop finds it among all sources.                           *)
LEMMA ScanFinds ==
  ASSUME TypeOK, NEW c
  PROVE  Found(c, PLIC_SOURCE_COUNT, Scan(c)[PLIC_SOURCE_COUNT])
<1>. DEFINE F == Scan(c)
            S == {n \in 0 .. PLIC_SOURCE_COUNT : Found(c, n, F[n])}
<1>1. \A n \in 0 .. PLIC_SOURCE_COUNT : F[n] = Round(c, n, F[n - 1])
  BY ScanIsRounds
<1>. HIDE DEF F
<1>2. 0 \in S
  <2>1. F[0] = [prio |-> 0, src |-> 0]
    BY <1>1, PlicConstants DEF Round
  <2>2. \A s \in Sources : ~(s < 0)
    BY DEF Sources
  <2>3. Found(c, 0, F[0])
    BY <2>1, <2>2 DEF Found
  <2>. QED
    BY <2>3, PlicConstants
<1>3. ASSUME NEW n \in 1 .. PLIC_SOURCE_COUNT, n - 1 \in S
      PROVE  n \in S
  <2>1. F[n] = Higher(c, F[n - 1], n - 1)
    BY <1>1, PlicConstants DEF Round
  <2>2. Found(c, n, F[n])
    BY <1>3, <2>1, RoundKeepsFound
  <2>. QED
    BY <2>2, PlicConstants
<1>. HIDE DEF S
<1>4. \A n \in 0 .. PLIC_SOURCE_COUNT : n \in S
  BY <1>2, <1>3, PlicConstants, UptoInduction
<1>5. PLIC_SOURCE_COUNT \in S
  BY <1>4, PlicConstants
<1>. QED
  BY <1>5 DEF S, F

(* A claim returns a source of the machine (0 for none).                   *)
LEMMA ClaimedIsSource ==
  ASSUME TypeOK, NEW c
  PROVE  Claimed(c) \in Sources
BY ScanFinds, PlicConstants DEF Claimed, Found

(* In a well-typed state a claim returns the source it should.             *)
LEMMA TypedClaimIsHighest == TypeOK => ClaimIsHighest
<1>. SUFFICES ASSUME TypeOK, NEW c \in Contexts
              PROVE  LET able == {s \in Sources : plic_find_en(c, s) /\ int_prio_regs[s] > 0}
                         top  == {s \in able : \A r \in able : int_prio_regs[r] <= int_prio_regs[s]}
                     IN Claimed(c) = IF top = {} THEN 0 ELSE Min(top)
  BY DEF ClaimIsHighest
<1>. DEFINE able == {s \in Sources : plic_find_en(c, s) /\ int_prio_regs[s] > 0}
            top == {s \in able : \A r \in able : int_prio_regs[r] <= int_prio_regs[s]}
            b == Scan(c)[PLIC_SOURCE_COUNT]
<1>1. \A s \in Sources : s \in Nat /\ s < PLIC_SOURCE_COUNT /\ int_prio_regs[s] \in Nat
  BY PlicAssumption DEF TypeOK, Sources, Prios
<1>2. Found(c, PLIC_SOURCE_COUNT, b) /\ Claimed(c) = b.src
  BY ScanFinds DEF Claimed
<1>. HIDE DEF b
<1>3. b.prio \in Nat /\ \A s \in Sources : plic_find_en(c, s) => int_prio_regs[s] <= b.prio
  BY <1>1, <1>2 DEF Found
<1>4. CASE b.prio = 0 /\ b.src = 0
  <2>1. able = {}
    BY <1>1, <1>3, <1>4
  <2>. QED
    BY <1>2, <1>4, <2>1
<1>5. CASE /\ b.prio > 0 /\ b.src \in Sources /\ plic_find_en(c, b.src)
           /\ int_prio_regs[b.src] = b.prio
           /\ \A s \in Sources : (s < b.src /\ plic_find_en(c, s)) => int_prio_regs[s] < b.prio
  <2>1. b.src \in top
    BY <1>3, <1>5
  <2>2. \A s \in top : s \in Sources /\ plic_find_en(c, s) /\ int_prio_regs[s] = b.prio
    BY <1>1, <1>3, <1>5, <2>1
  <2>3. \A s \in top : b.src <= s
    BY <1>1, <1>5, <2>2
  <2>4. \A s \in top : s \in Nat
    BY <1>1, <2>2
  <2>. HIDE DEF top
  <2>5. Min(top) = b.src
    <3>1. \A x \in top : (\A y \in top : x <= y) => x = b.src
      BY <2>1, <2>3, <2>4
    <3>. QED
      BY <2>1, <2>3, <3>1 DEF Min
  <2>. QED
    BY <1>2, <2>1, <2>5 DEF top
<1>. QED
  BY <1>2, <1>4, <1>5 DEF Found

-----------------------------------------------------------------------------
(* Every step.                                                             *)

(* Every step of every thread keeps the types; no device thread leaves the *)
(* arrays of sources and contexts.                                         *)
LEMMA NextTypeOK == TypeOK /\ [Next]_vars => TypeOK'
<1>. SUFFICES ASSUME TypeOK, [Next]_vars PROVE TypeOK'
  OBVIOUS
<1>. USE DEF TypeOK
<1>a. ASSUME NEW t \in Devices, NEW r \in DevRegs, Goto(t, r)
      PROVE  dev' \in [Devices -> DevRegs]
  BY <1>a DEF Goto
<1>b. ASSUME UNCHANGED mipvars PROVE MipTypeOK'
  BY <1>b DEF mipvars, MipTypeOK
<1>c. \A t \in Devices : t \in Threads
  BY DEF Devices
<1>1. ASSUME NEW t \in Devices, UartSends(t) PROVE TypeOK'
  <2>1. Locals("sendTest") \in DevRegs
    BY LocalsAreRegs DEF DevPc
  <2>. QED
    BY <1>1, <1>a, <1>b, <2>1 DEF UartSends, regs
<1>2. ASSUME UartQuiet PROVE TypeOK'
  BY <1>2, <1>a, <1>b, LocalsAreRegs, PlicConstants DEF UartQuiet, regs
<1>3. ASSUME NEW t \in Devices, SendTest(t) PROVE TypeOK'
  <2>1. (IF UART_SOURCE \in int_pend_regs THEN AfterUart(t) ELSE Locals("sendLoad")) \in DevRegs
    BY LocalsAreRegs DEF DevPc
  <2>. QED
    BY <1>3, <1>a, <1>b, <2>1 DEF SendTest, regs
<1>4. ASSUME NEW t \in Devices, SendLoad(t) PROVE TypeOK'
  <2>1. [Locals("sendStore") EXCEPT !.pend = int_pend_regs] \in DevRegs
    <3>1. \A r \in DevRegs : [r EXCEPT !.pend = int_pend_regs] \in DevRegs
      BY DEF DevRegs
    <3>. QED
      BY <3>1, LocalsAreRegs DEF DevPc
  <2>. QED
    BY <1>4, <1>a, <1>b, <2>1 DEF SendLoad, regs
<1>5. ASSUME NEW t \in Devices, SendStore(t) PROVE TypeOK'
  <2>1. Try(UART_SOURCE, TRUE) \in DevRegs
    BY LocalsAreRegs, PlicConstants
  <2>2. int_pend_regs' \subseteq Sources
    <3>1. dev[t].pend \subseteq Sources
      BY DEF DevRegs
    <3>. QED
      BY <1>5, <3>1, PlicConstants DEF SendStore
  <2>. QED
    BY <1>5, <1>a, <1>b, <2>1, <2>2 DEF SendStore
<1>6. ASSUME NEW t \in Devices, TrySource(t) PROVE TypeOK'
  <2>1. Returned(t) \in DevRegs
    BY ReturnedIsRegs
  <2>2. [dev[t] EXCEPT !.pc = "ctx", !.prio = int_prio_regs[dev[t].src]] \in DevRegs
    BY DEF DevRegs, DevPc
  <2>. QED
    BY <1>6, <1>a, <1>b, <2>1, <2>2 DEF TrySource, regs
<1>7. ASSUME NEW t \in Devices, TryCtx(t) PROVE TypeOK'
  <2>1. [dev[t] EXCEPT !.ctx = @ + 1] \in DevRegs
    <3>1. dev[t].ctx + 1 \in 0 .. 2
      BY <1>7 DEF TryCtx, Contexts
    <3>. QED
      BY <3>1 DEF DevRegs
  <2>2. MipTypeOK'
    <3>1. {CtxBit(dev[t].ctx)} \subseteq Bits
      BY <1>7, PlicConstants DEF TryCtx
    <3>. QED
      BY <1>7, <1>b, <1>c, <3>1, MipSteps DEF TryCtx
  <2>. QED
    BY <1>7, <1>a, <2>1, <2>2 DEF TryCtx, regs
<1>8. ASSUME NEW t \in Devices, TryReturn(t) PROVE TypeOK'
  BY <1>8, <1>a, <1>b, ReturnedIsRegs DEF TryReturn, regs
<1>9. ASSUME NEW t \in Threads, MipStep(t) PROVE TypeOK'
  BY <1>9, MipSteps DEF MipStep, regs
<1>10. ASSUME NEW t \in Devices, DevStep(t) PROVE TypeOK'
  BY <1>3, <1>4, <1>5, <1>6, <1>7, <1>8, <1>9, <1>10, <1>c DEF DevStep
<1>11. ASSUME HartStep PROVE TypeOK'
  <2>1. ASSUME ClaimStore PROVE TypeOK'
    BY <2>1, <1>b, PlicConstants DEF ClaimStore, HartRegs, IdleRegs
  <2>. QED
    BY <1>9, <1>11, <2>1, PlicConstants DEF HartStep
<1>12. ASSUME Guest PROVE TypeOK'
  <2>. USE DEF RegW
  <2>a. ASSUME RegW PROVE writes' \in 0 .. MaxWrites /\ MipTypeOK'
    BY <2>a, <1>b, PlicAssumption
  <2>1. ASSUME NEW s \in Sources, NEW p \in Prios, PrioW(s, p) PROVE TypeOK'
    BY <2>1, <2>a DEF PrioW
  <2>2. ASSUME NEW S \in SUBSET Sources, PendW(S) PROVE TypeOK'
    BY <2>2, <2>a DEF PendW
  <2>3. ASSUME NEW c \in Contexts, NEW S \in SUBSET Sources, EnableW(c, S) PROVE TypeOK'
    BY <2>3, <2>a DEF EnableW
  <2>4. ASSUME NEW c \in Contexts, NEW p \in Prios, ThresW(c, p) PROVE TypeOK'
    BY <2>4, <2>a DEF ThresW
  <2>5. ASSUME NEW c \in Contexts, Claim(c) PROVE TypeOK'
    <3>1. hart' \in HartRegs
      BY <2>5, ClaimedIsSource DEF Claim, HartRegs
    <3>2. int_handling' \in [Contexts -> BOOLEAN]
      BY <2>5 DEF Claim
    <3>. QED
      BY <2>5, <1>b, <3>1, <3>2 DEF Claim
  <2>6. ASSUME NEW c \in Contexts, Complete(c) PROVE TypeOK'
    <3>1. MipTypeOK'
      <4>1. {CtxBit(c)} \in SUBSET Bits /\ FALSE \in BOOLEAN
        BY PlicConstants
      <4>. QED
        BY <2>6, <4>1, MipSteps, PlicConstants DEF Complete
    <3>2. int_handling' \in [Contexts -> BOOLEAN]
      BY <2>6 DEF Complete
    <3>. QED
      BY <2>6, <3>1, <3>2 DEF Complete
  <2>7. ASSUME NEW sip \in BOOLEAN, NEW w \in SUBSET Bits, CsrMip(sip, w) PROVE TypeOK'
    <3>1. MipTypeOK'
      BY <2>7, MipSteps, PlicConstants DEF CsrMip
    <3>2. writes' \in 0 .. MaxWrites
      BY <2>7, PlicAssumption DEF CsrMip
    <3>. QED
      BY <2>7, <3>1, <3>2 DEF CsrMip, regs
  <2>. QED
    BY <1>12, <2>1, <2>2, <2>3, <2>4, <2>5, <2>6, <2>7 DEF Guest
<1>13. ASSUME UNCHANGED vars PROVE TypeOK'
  BY <1>13, <1>b DEF vars, regs
<1>. HIDE DEF TypeOK
<1>. QED
  BY <1>1, <1>2, <1>10, <1>11, <1>12, <1>13, PlicConstants DEF Next, MainStep

(* Whatever the interleaving, the variables keep their types: plic_try_int *)
(* stays inside the arrays of sources and contexts, and a claim returns a  *)
(* source.                                                                 *)
THEOREM TypeCorrect == Spec => []TypeOK
<1>1. Init => TypeOK
  BY InitTypeOK
<1>2. TypeOK /\ [Next]_vars => TypeOK'
  BY NextTypeOK
<1>. QED
  BY <1>1, <1>2, PTL DEF Spec

-----------------------------------------------------------------------------
(* What a claim returns.                                                   *)

(* No state the threads can reach makes a claim return anything but the    *)
(* lowest-numbered enabled source of the highest priority.                 *)
THEOREM ClaimReturnsHighest == Spec => []ClaimIsHighest
<1>1. TypeOK => ClaimIsHighest
  BY TypedClaimIsHighest
<1>. QED
  BY <1>1, TypeCorrect, PTL

==============================================================================
