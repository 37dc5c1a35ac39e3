------------------------------ MODULE MCTimer ------------------------------
(* Timer for TLC: a hard timer, two soft timers and the timer thread's     *)
(* own; ten values of the tick.                                            *)
EXTENDS Timer
CONSTANTS h, s1, s2, thread
MCTimer == {h, s1, s2, thread}
MCSoft  == {s1, s2}
=============================================================================
