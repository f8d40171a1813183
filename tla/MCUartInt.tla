------------------------------ MODULE MCUartInt -------------------------------
(* Instance of UartInt for TLC.                                            *)
EXTENDS UartInt
==============================================================================
