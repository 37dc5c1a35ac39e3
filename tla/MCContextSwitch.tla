-------------------------- MODULE MCContextSwitch --------------------------
(* Instances of ContextSwitch for TLC: the idle thread, two threads of one *)
(* priority and one more urgent.                                           *)
EXTENDS ContextSwitch, TLC
CONSTANTS idle, a, b, urgent
MCThread == {idle, a, b, urgent}
MCPrio == idle :> 2 @@ a :> 1 @@ b :> 1 @@ urgent :> 0
\* A thread that stays among the most urgent has the CPU again and again,
\* whatever its peers do (rt_tick_increase, rt_thread_yield). Nothing in the
\* model tells the two peers apart: one stands for both.
PeersTakeTurns == TakesTurns(a)
=============================================================================
