------------------------------ MODULE MCAclint -------------------------------
(* Instances of Aclint for TLC: bit 9 (SEIP) of mip stands for the PLIC's  *)
(* bits and for all the bits of neither device.                            *)
EXTENDS Aclint
==============================================================================
