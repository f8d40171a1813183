-------------------------------- MODULE MCLrSc --------------------------------
(* Instance of LrSc for TLC.                                               *)
EXTENDS LrSc
==============================================================================
