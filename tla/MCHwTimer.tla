----------------------------- MODULE MCHwTimer -----------------------------
(* HwTimer for TLC: times of one tick and of two ticks and a half, a tick   *)
(* of one or two clocks, times of up to two periods; four clocks do not fit *)
(* the registers, which hold three.                                         *)
EXTENDS HwTimer
=============================================================================
