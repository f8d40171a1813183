-------------------------------- MODULE MCPmp --------------------------------
(* Instance of Pmp for TLC.                                                *)
EXTENDS Pmp

(* OFF, TOR, NA4 and NAPOT entries, restricted and not, with and without   *)
(* the lock; addresses on both sides of the middle of an 8-byte word, and  *)
(* all ones, which NAPOT reads as everything.                              *)
CfgOperands == {{}, {"R", "A0"}, {"L", "R", "A0"}, {"X", "A1"},
                {"R", "W", "X", "A0", "A1"}}
AddrOperands == {3, 4, 2^XLEN - 1}
==============================================================================
