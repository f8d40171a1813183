------------------------------- MODULE MCTrap --------------------------------
(* Instances of Trap for TLC: one interrupt of each level.                 *)
EXTENDS Trap

(* Values that reach every mode with both levels of interrupts on and off, *)
(* and with WFI and SRET allowed and illegal.                              *)
StatusOperands == {{"MIE", "SIE"}, {"SIE", "SPIE", "MPP0"}, {"MPP0", "MPP1", "MPIE", "TW", "TSR"}}
IntOperands == {{}, {7}, {9}}
==============================================================================
