------------------------------- MODULE MCUartRx -------------------------------
(* Instance of UartRx for TLC.                                             *)
EXTENDS UartRx
==============================================================================
