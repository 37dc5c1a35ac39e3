------------------------------- MODULE MCIpc -------------------------------
(* Ipc for TLC: three threads of three priorities, a mutex of either kind  *)
(* and a semaphore ordered by priority.                                    *)
EXTENDS Ipc, TLC
CONSTANTS low, mid, high, pm, fm, s
MCThread == {low, mid, high}
MCBase   == low :> 3 @@ mid :> 2 @@ high :> 1
MCMutex  == {pm, fm}
MCSem    == {s}
MCFifo   == {fm}
=============================================================================
