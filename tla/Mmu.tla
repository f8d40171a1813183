--------------------------------- MODULE Mmu ---------------------------------
(***************************************************************************)
(* Address translation of one hart: the page table walk with its updates   *)
(* of A and D, the TLB (a hash table of leaf entries), and the accesses    *)
(* that go through both.                                                   *)
(* Sources: mem.cpp (page_table_walk, tlb_clear, tlb_find, tlb_add),       *)
(* mem.ipp (virt_mem_fetch, virt_mem_store), cpu.cpp (SFENCE.VMA, satp,    *)
(* the walks of LR and SC).                                                *)
(*                                                                         *)
(* Addresses are page numbers: page offsets are copied.  The state of      *)
(* privmode, SUM and MXR at an access is an input of the access; so is the *)
(* mode MPRV substitutes.  Untranslated accesses of M-mode matter only     *)
(* where they write a page table.                                          *)
(***************************************************************************)
EXTENDS Integers, FiniteSetsExt

CONSTANTS
  LEVELS,      \* levels of the page table (3, 4 or 5 in the code)
  FANOUT,      \* entries of a table (512)
  TLB_SIZE,    \* slots of the TLB (64)
  tlb_hash,    \* slot of a page number
  Tables,      \* frames that hold page tables
  Root,        \* the one satp points to
  DataFrames,  \* other frames of memory
  PmpConfigs,  \* what PMP may permit: mode -> frame -> permissions
  PteWrites    \* PTEs the guest writes: sets of [at, pte]

RWX == {"R", "W", "X"}
Pages == 0 .. (FANOUT^LEVELS - 1)
Frames == Tables \cup DataFrames
Sizes == 0 .. LEVELS - 1        \* how many levels a leaf skips
Slots == 0 .. TLB_SIZE - 1
Modes == {0, 1, 3}
PteAddr == Tables \X (0 .. FANOUT - 1)
Pte == [bits : SUBSET (RWX \cup {"V", "U", "A", "D"}), ppn : Nat]

ASSUME MmuSizeAssumption ==    \* the counters of TLBStruct are uint8_t
  LEVELS \in Nat \ {0} /\ FANOUT \in Nat \ {0} /\ TLB_SIZE \in 1 .. 255
ASSUME MmuPowerAssumption ==
  \A i \in 0 .. LEVELS : /\ FANOUT^i \in Nat \ {0}
                        /\ \A j \in i .. LEVELS : FANOUT^j = FANOUT^i * FANOUT^(j - i)
ASSUME MmuFrameAssumption ==
  Root \in Tables /\ Frames \subseteq Nat /\ Tables \cap DataFrames = {}
ASSUME MmuTableAssumption ==
  /\ tlb_hash \in [Pages -> Slots]
  /\ PmpConfigs \subseteq [Modes -> [Frames -> SUBSET RWX]]
  /\ PteWrites \subseteq [at : PteAddr, pte : Pte]
  /\ \A w \in PteWrites : w.pte.bits = {} \/ "V" \in w.pte.bits
  /\ \A w \in PteWrites :    \* frame 0 is no memory; tables stay where they are
       IF w.pte.bits \cap RWX = {} THEN w.pte.ppn \notin DataFrames ELSE w.pte.ppn # 0

VARIABLES
  ptes,            \* the page tables in memory
  pmp,             \* what PMP permits
  satp,            \* 0 ("off"), Bare but not 0 ("bare"), Sv39/48/57 ("sv")
  tlb_entries, size_count, max_entry_size,    \* TLBStruct
  synced           \* since SFENCE.VMA no satp has been written and no valid PTE
                   \* changed, updates of A and D apart

tlb == <<tlb_entries, size_count, max_entry_size>>
vars == <<ptes, pmp, satp, tlb, synced>>

TLBEntry == [page : Pages, ppn : Nat, at : PteAddr, size : Sizes,
             permissions : SUBSET RWX, user : BOOLEAN]
NoEntry == [page |-> 0, ppn |-> 0, at |-> <<Root, 0>>, size |-> 0,
            permissions |-> {}, user |-> FALSE]    \* all zero
ZeroPte == [bits |-> {}, ppn |-> 0]

Base(p, i) == p - (p % (FANOUT^i))
Index(p, i) == (p \div (FANOUT^i)) % FANOUT

(* mem_fetch and mem_store fault unless PMP permits the access.            *)
Permitted(priv, frame, perm) == frame \in Frames /\ perm \in pmp[priv][frame]

(* What mem_fetch checks for: a load if mem_status is set, else a fetch.   *)
Reads(status) == IF status THEN "R" ELSE "X"

-----------------------------------------------------------------------------
(* page_table_walk.                                                        *)

PteInvalid(pte) == "V" \notin pte.bits \/ ("R" \notin pte.bits /\ "W" \in pte.bits)
PtePointer(pte) == pte.bits \cap RWX = {}

(* One level of the walk: i more levels are left below table.              *)
WalkLevel(priv, p, perm, table, i) ==
  LET at == <<table, Index(p, i)>>
  IN IF ~Permitted(priv, table, perm) THEN [end |-> "access"]
     ELSE IF PteInvalid(ptes[at]) THEN [end |-> "page"]
     ELSE IF PtePointer(ptes[at]) THEN [end |-> "pointer", table |-> ptes[at].ppn]
     ELSE [end |-> "leaf", at |-> at, size |-> i]

(* The loop over the levels, whose fetches PMP checks for perm: how far it *)
(* has got after each of its rounds, and where it ends.                    *)
Path(priv, p, perm) ==
  LET walk[k \in 0 .. LEVELS] ==
        IF k = 0 THEN [end |-> "pointer", table |-> Root]
        ELSE IF walk[k - 1].end # "pointer" THEN walk[k - 1]
        ELSE WalkLevel(priv, p, perm, walk[k - 1].table, LEVELS - k)
  IN walk

Descend(priv, p, perm) == Path(priv, p, perm)[LEVELS]

(* The checks of a leaf.  MXR is applied to instruction fetches.           *)
LeafFault(priv, sum, mxr, leaf, iswrite, status) ==
  LET bits == ptes[leaf.at].bits
  IN \/ iswrite /\ "W" \notin bits
     \/ ~iswrite /\ status /\ "R" \notin bits
     \/ ~iswrite /\ ~status /\ "X" \notin bits /\ ~(mxr /\ "R" \in bits)
     \/ "U" \in bits /\ priv >= 1 /\ (~sum \/ (~status /\ ~iswrite))
     \/ "U" \notin bits /\ priv = 0
     \/ ptes[leaf.at].ppn % (FANOUT^(leaf.size)) # 0    \* misaligned superpage

(* Mutant: D is written rather than set.                                   *)
MarkedClean(pte, iswrite) ==
  [pte EXCEPT !.bits = (@ \ {"D"}) \cup {"A"} \cup (IF iswrite THEN {"D"} ELSE {})]

(* The PTE as it is stored back.                                           *)
Marked(pte, iswrite) ==
  [pte EXCEPT !.bits = @ \cup {"A"} \cup (IF iswrite THEN {"D"} ELSE {})]

(* How a translation ends: a fault or a frame, the page tables and what is *)
(* added to the TLB.                                                       *)
Faults(kind) == [fault |-> kind, ptes |-> ptes, fill |-> {}]
Yields(frame, tables, fill) ==
  [fault |-> "none", frame |-> frame, ptes |-> tables, fill |-> fill]

(* page_table_walk.  The fetches of PTEs are checked as if they were the   *)
(* access itself; storing the leaf back needs W.                           *)
Walk(priv, sum, mxr, p, iswrite, status) ==
  LET leaf == Descend(priv, p, Reads(status))
      pte  == Marked(ptes[leaf.at], iswrite)
      size == leaf.size
  IN IF satp # "sv" THEN Yields(p, ptes, {})
     ELSE IF leaf.end = "access" THEN Faults("access")
     ELSE IF leaf.end # "leaf" THEN Faults("page")
     ELSE IF LeafFault(priv, sum, mxr, leaf, iswrite, status) THEN Faults("page")
     ELSE IF ~Permitted(priv, leaf.at[1], "W") THEN Faults("access")
     ELSE Yields(pte.ppn + p - Base(p, size), [ptes EXCEPT ![leaf.at] = pte],
                 {[page |-> Base(p, size), ppn |-> pte.ppn, at |-> leaf.at, size |-> size,
                   permissions |-> pte.bits \cap RWX, user |-> "U" \in pte.bits]})

-----------------------------------------------------------------------------
(* The TLB.                                                                *)

Valid(e) == e.permissions # {}
Dec(n) == (n - 1) % 256    \* uint8_t
Largest(count) == Max({0} \cup {i \in Sizes : count[i] > 0})

(* Mutant: the largest size is computed before the entry is counted in.    *)
TlbAddLate(e) ==
  LET index == tlb_hash[e.page]
      old   == tlb_entries[index]
      out   == IF Valid(old) THEN [size_count EXCEPT ![old.size] = Dec(@)] ELSE size_count
  IN /\ size_count' = [out EXCEPT ![e.size] = @ + 1]
     /\ max_entry_size' = Largest(out)
     /\ tlb_entries' = [tlb_entries EXCEPT ![index] = e]

(* tlb_add: the slot is overwritten, the sizes are counted.                *)
TlbAdd(e) ==
  LET index == tlb_hash[e.page]
      old   == tlb_entries[index]
      out   == IF Valid(old) THEN [size_count EXCEPT ![old.size] = Dec(@)] ELSE size_count
  IN /\ size_count' = [out EXCEPT ![e.size] = @ + 1]
     /\ max_entry_size' = Largest(size_count')
     /\ tlb_entries' = [tlb_entries EXCEPT ![index] = e]

TlbClear ==
  /\ tlb_entries' = [s \in Slots |-> NoEntry]
  /\ size_count' = [i \in Sizes |-> 0] /\ max_entry_size' = 0

Slot(p, i) == tlb_entries[tlb_hash[Base(p, i)]]

(* Mutant: the U bit of the entry is not looked at.                        *)
HitsAnyUser(priv, sum, p, perm) ==
  {i \in 0 .. max_entry_size :
     /\ Slot(p, i).size = i /\ Valid(Slot(p, i)) /\ Slot(p, i).page = Base(p, i)
     /\ perm \in Slot(p, i).permissions}

(* Sizes at which the TLB holds a translation of p that may be used.       *)
Hits(priv, sum, p, perm) ==
  {i \in 0 .. max_entry_size :
     /\ Slot(p, i).size = i /\ Valid(Slot(p, i)) /\ Slot(p, i).page = Base(p, i)
     /\ perm \in Slot(p, i).permissions
     /\ priv = 0 => Slot(p, i).user
     /\ priv >= 1 /\ Slot(p, i).user => sum}

(* tlb_find with a hit of size i.  The PTE is marked again: it is fetched  *)
(* as the access itself would be, is 0 if PMP denies that, and is stored   *)
(* back in any case; mem_status ends up clear.                             *)
Found(priv, p, perm, status, i) ==
  LET e   == Slot(p, i)
      pte == IF Permitted(priv, e.at[1], Reads(status)) THEN ptes[e.at] ELSE ZeroPte
  IN Yields(e.ppn + p - Base(p, i), [ptes EXCEPT ![e.at] = Marked(pte, perm = "W")], {})

Usable(priv, p, i) == Permitted(priv, Slot(p, i).at[1], "W")

-----------------------------------------------------------------------------
(* Accesses.                                                               *)

Needs(kind) == CASE kind = "load" -> "R" [] kind = "store" -> "W" [] kind = "fetch" -> "X"

(* mem_status before the access; SC stores with it set, others do not.     *)
Status(kind) == CASE kind = "load" -> {TRUE} [] kind = "fetch" -> {FALSE} [] kind = "store" -> BOOLEAN

(* The translation in virt_mem_fetch and virt_mem_store: the TLB's answer, *)
(* or a walk, for which a hit that PMP denied has cleared mem_status.      *)
Translate(kind, priv, sum, mxr, status, p) ==
  LET hits == Hits(priv, sum, p, Needs(kind))
      top  == Max(hits)
      before == IF hits = {} THEN status ELSE FALSE
      walk == Walk(priv, sum, mxr, p, kind = "store", before)
  IN IF satp = "off" THEN Yields(p, ptes, {})
     ELSE IF hits # {} /\ Usable(priv, p, top) THEN Found(priv, p, Needs(kind), status, top)
     ELSE walk

(* new is old, but for bits A and D that have been set.                    *)
Remarked(old, new) ==
  new.ppn = old.ppn /\ old.bits \subseteq new.bits /\ new.bits \subseteq old.bits \cup {"A", "D"}

(* What a translation leaves behind.                                       *)
Commit(t) ==
  /\ ptes' = t.ptes
  /\ IF t.fill = {} THEN UNCHANGED tlb ELSE \E e \in t.fill : TlbAdd(e)
  /\ synced' = (synced /\ \A at \in PteAddr : Remarked(ptes[at], ptes'[at]))
  /\ UNCHANGED <<pmp, satp>>

(* A load, store or instruction fetch of S- or U-mode (or through MPRV).   *)
Access(kind, priv, sum, mxr, status, p) == Commit(Translate(kind, priv, sum, mxr, status, p))

(* The walks LR (a load) and SC make for the reserved address, in M-mode   *)
(* too, without asking the TLB.                                            *)
AmoWalk(sc, priv, sum, mxr, p) == Commit(Walk(priv, sum, mxr, p, sc, ~sc))

(* The guest stores to a page table.                                       *)
PteW(w) ==
  /\ ptes' = [ptes EXCEPT ![w.at] = w.pte]
  /\ synced' = (synced /\ PteInvalid(ptes[w.at]))
  /\ UNCHANGED <<pmp, satp, tlb>>

(* A CSR write to satp leaves the TLB alone.                               *)
SatpW(mode) ==
  /\ satp' = mode
  /\ synced' = (synced /\ mode = satp)
  /\ UNCHANGED <<ptes, pmp, tlb>>

(* Nor does a change of the PMP registers.                                 *)
PmpW(config) ==
  /\ pmp' = config
  /\ UNCHANGED <<ptes, satp, tlb, synced>>

(* Mutant: the fence does not reach the TLB.                               *)
SfenceNop == synced' = TRUE /\ UNCHANGED <<ptes, pmp, satp, tlb>>

(* SFENCE.VMA, unless TVM makes it trap.                                   *)
Sfence == TlbClear /\ synced' = TRUE /\ UNCHANGED <<ptes, pmp, satp>>

(* reset_state, with memory cleared by mem_init.                           *)
Init ==
  /\ ptes = [at \in PteAddr |-> ZeroPte]
  /\ pmp \in PmpConfigs /\ satp = "off" /\ synced = TRUE
  /\ tlb_entries = [s \in Slots |-> NoEntry]
  /\ size_count = [i \in Sizes |-> 0] /\ max_entry_size = 0

Next ==
  \/ \E kind \in {"load", "store", "fetch"}, priv \in {0, 1}, sum, mxr \in BOOLEAN, p \in Pages :
       \E status \in Status(kind) : Access(kind, priv, sum, mxr, status, p)
  \/ \E sc, sum, mxr \in BOOLEAN, priv \in Modes, p \in Pages : AmoWalk(sc, priv, sum, mxr, p)
  \/ \E w \in PteWrites : PteW(w)
  \/ \E mode \in {"off", "bare", "sv"} : SatpW(mode)
  \/ \E config \in PmpConfigs : PmpW(config)
  \/ Sfence

Spec == Init /\ [][Next]_vars

-----------------------------------------------------------------------------
(* Properties.                                                             *)

(* The types of the variables; no counter has wrapped below zero.          *)
TypeOK ==
  /\ ptes \in [PteAddr -> Pte] /\ pmp \in PmpConfigs /\ satp \in {"off", "bare", "sv"}
  /\ tlb_entries \in [Slots -> TLBEntry]
  /\ size_count \in [Sizes -> 0 .. TLB_SIZE] /\ max_entry_size \in Sizes
  /\ synced \in BOOLEAN

(* The counters of tlb_add are exact, however entries replace each other.  *)
SizesCounted ==
  \A i \in Sizes :
    size_count[i] = Cardinality({s \in Slots : Valid(tlb_entries[s]) /\ tlb_entries[s].size = i})

(* Every cached translation can be found again: it is in the slot that     *)
(* tlb_find looks into for each of its pages and not larger than the       *)
(* largest size it tries.                                                  *)
CachedIsFindable ==
  \A s \in Slots : LET e == tlb_entries[s] IN
    Valid(e) => /\ e.size <= max_entry_size
                /\ \A p \in Pages : Base(p, e.size) = e.page => Slot(p, e.size) = e

(* The bookkeeping of the TLB survives every order in which pages and      *)
(* superpages replace each other: counters exact, every entry findable.    *)
TlbIndexed == TypeOK /\ SizesCounted /\ CachedIsFindable

(* As long as changes of valid PTEs and of satp are fenced, the TLB holds  *)
(* what a walk would find, A/D updates notwithstanding (a walk in M-mode,  *)
(* which PMP lets pass).                                                   *)
TlbCoherent ==
  synced => \A s \in Slots : LET e == tlb_entries[s] IN
    Valid(e) =>
      LET leaf == Descend(3, e.page, "R")
      IN /\ leaf.end = "leaf" /\ leaf.at = e.at /\ leaf.size = e.size
         /\ ptes[e.at].ppn = e.ppn /\ ptes[e.at].bits \cap RWX = e.permissions
         /\ e.user <=> "U" \in ptes[e.at].bits

(* The tables a walk to p reads where PMP lets it pass, as in M-mode.      *)
WalkTables(p) ==
  LET path == Path(3, p, "R")
  IN {path[k].table : k \in {n \in 0 .. LEVELS - 1 : path[n].end = "pointer"}}

(* A hit that is used grants an access only if a walk would, and with the  *)
(* same result, whatever PMP has come to forbid.  There are two            *)
(* exceptions: a walk is denied by PMP if one of the tables above the leaf *)
(* is, of which tlb_find knows nothing; and a fetch of S-mode from a user  *)
(* page while SUM is set faults in the walk, but tlb_find takes SUM to     *)
(* allow it.                                                               *)
HitsAgree ==
  synced /\ satp = "sv" =>
    \A kind \in {"load", "store", "fetch"}, priv \in {0, 1}, sum, mxr \in BOOLEAN, p \in Pages :
      \A status \in Status(kind), i \in Hits(priv, sum, p, Needs(kind)) :
        Usable(priv, p, i) /\ ~(kind = "fetch" /\ priv = 1 /\ sum) =>
          LET walk == Walk(priv, sum, mxr, p, kind = "store", status)
          IN IF \A t \in WalkTables(p) : Permitted(priv, t, Reads(status))
             THEN walk.fault = "none" /\ walk.frame = Found(priv, p, Needs(kind), status, i).frame
             ELSE walk.fault = "access"

(* A condition on PMP: M-mode may read the page tables; no locked entry    *)
(* takes them away from it.                                                *)
MachineReads == \A config \in PmpConfigs, t \in Tables : "R" \in config[3][t]

(* The PTEs tlb_find can wipe: a TLB entry has the address, and PMP lets   *)
(* some mode store to it but not fetch it for every kind of access.        *)
Wipeable(at) ==
  /\ \E s \in Slots : Valid(tlb_entries[s]) /\ tlb_entries[s].at = at
  /\ \E mode \in {0, 1} : "W" \in pmp[mode][at[1]] /\ ~({"R", "X"} \subseteq pmp[mode][at[1]])

(* Translations change page tables by nothing but the A and D bits, which  *)
(* they only ever set (the guest's own stores apart), with one exception:  *)
(* where PMP lets a mode write a table and not both load and fetch it,     *)
(* tlb_find takes the PTE it cannot fetch for 0 and stores that back.      *)
OnlyMarks ==
  [][\/ \E w \in PteWrites : PteW(w)
     \/ \A at \in PteAddr :
          \/ Remarked(ptes[at], ptes'[at])
          \/ Wipeable(at) /\ \E dirty \in BOOLEAN : ptes'[at] = Marked(ZeroPte, dirty)]_vars

==============================================================================
