------------------------------ MODULE MCUartRx ------------------------------
(* Instances of UartRx for TLC: a ring buffer of three slots, two          *)
(* characters, and a semaphore that can reach its limit.                   *)
EXTENDS UartRx
CONSTANTS a, b
MCChar == {a, b}
=============================================================================
