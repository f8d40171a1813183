------------------------------- MODULE MCPlic --------------------------------
(***************************************************************************)
(* Instance of Plic for TLC: the UART and source 0, which does not exist   *)
(* but competes with it like any other once the guest gives it a priority. *)
(* The uninitialised registers start at one value each, from which the     *)
(* guest's write can make either source the higher one.                    *)
(***************************************************************************)
EXTENDS Plic

QuietInit ==
  /\ Init
  /\ int_pend_regs = {} /\ int_en_regs[1] = {}
  /\ int_prio_regs = [s \in Sources |-> IF s = 0 THEN 0 ELSE 1]
  /\ \A c \in Contexts : int_prio_thres[c] = 0

QuietSpec == QuietInit /\ [][Next]_vars /\ Fairness
==============================================================================
