-------------------------------- MODULE MCMmu --------------------------------
(***************************************************************************)
(* Instances of Mmu for TLC: two levels of two entries, so pages 0 to 3    *)
(* and superpages of two; a TLB of two slots in which a superpage competes *)
(* with pages of its own and of the other superpage.                       *)
(***************************************************************************)
EXTENDS Mmu

Hash == [p \in Pages |-> IF p \in {0, 3} THEN 0 ELSE 1]

(* PMP permits everything, denies S- and U-mode the root table, or lets    *)
(* them load and store the second table and not fetch it.                  *)
Allowing(table, perms) ==
  [mode \in Modes |-> [f \in Frames |-> IF mode < 3 /\ f = table THEN perms ELSE RWX]]
Configs == {Allowing(8, RWX), Allowing(8, {}), Allowing(9, {"R", "W"})}
ASSUME McPmpAssumption == MachineReads

W(table, i, bits, ppn) == [at |-> <<table, i>>, pte |-> [bits |-> bits, ppn |-> ppn]]

(* A pointer to the second table or a user superpage; two kinds of page; a *)
(* supervisor superpage, a misaligned one and an invalid entry.            *)
Writes ==
  {W(8, 0, {"V"}, 9), W(8, 0, {"V", "R", "W", "U"}, 4),
   W(8, 1, {"V", "R", "X"}, 4), W(8, 1, {"V", "R", "W"}, 5),
   W(9, 0, {"V", "R", "W", "X", "U"}, 5), W(9, 1, {"V", "R"}, 4), W(9, 1, {}, 0)}
==============================================================================
