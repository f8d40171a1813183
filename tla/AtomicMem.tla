------------------------------ MODULE AtomicMem -------------------------------
(***************************************************************************)
(* What the A extension promises to guest code: LR, SC and AMO are single  *)
(* steps.  A link is a reservation; seen[h] is the word that hart h's last *)
(* LR loaded and the kinds of atomic instruction with which other harts    *)
(* have written to it since.  LrSc implements this module.                 *)
(***************************************************************************)
CONSTANTS Harts, Addrs, None

VARIABLES link, seen

Init ==
  /\ link = [h \in Harts |-> None]
  /\ seen = [h \in Harts |-> [word |-> None, by |-> {}]]

(* An atomic instruction of hart g writes to word a.                       *)
Written(g, a, kind) ==
  seen' = [h \in Harts |-> IF h # g /\ seen[h].word = a
                           THEN [word |-> a, by |-> seen[h].by \cup {kind}]
                           ELSE seen[h]]

(* LR takes the link to a word from whoever has it.                        *)
Lr(h, a) ==
  /\ link' = [g \in Harts |-> IF g = h THEN a
                              ELSE IF link[g] = a THEN None ELSE link[g]]
  /\ seen' = [seen EXCEPT ![h] = [word |-> a, by |-> {}]]

(* SC writes only to the word its hart's last LR loaded, if that word is   *)
(* still linked and no other SC has written to it.                         *)
Sc(h, a) ==
  /\ link[h] = a
  /\ seen[h].word = a /\ "sc" \notin seen[h].by
  /\ link' = [link EXCEPT ![h] = None]
  /\ Written(h, a, "sc")

ScFails(h) == link' = [link EXCEPT ![h] = None] /\ UNCHANGED seen

Amo(h, a) == Written(h, a, "amo") /\ UNCHANGED link

Next ==
  \E h \in Harts :
    \/ ScFails(h)
    \/ \E a \in Addrs : Lr(h, a) \/ Sc(h, a) \/ Amo(h, a)

Spec == Init /\ [][Next]_<<link, seen>>
==============================================================================
