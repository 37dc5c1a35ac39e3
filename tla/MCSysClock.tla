----------------------------- MODULE MCSysClock -----------------------------
(* SysClock for TLC; PLL0 may be found at the 208 MHz that 26 MHz times 8   *)
(* gives.                                                                  *)
EXTENDS SysClock
=============================================================================
