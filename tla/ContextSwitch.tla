--------------------------- MODULE ContextSwitch ---------------------------
(***************************************************************************)
(* The scheduler (scheduler.c, thread.c, clock.c) on top of the port to    *)
(* this core (context_gcc.S, cpuport.c, interrupt.c).                      *)
(*                                                                         *)
(* On this core a thread never switches by itself. rt_schedule moves       *)
(* rt_current_thread at once, notes the two stack pointers in              *)
(* rt_interrupt_from_thread and rt_interrupt_to_thread and raises the      *)
(* software interrupt; low_prio_irq saves the context it interrupts, runs  *)
(* the pending service routines, which may call rt_schedule again, and     *)
(* only then exchanges the stack pointers. "current" and the thread whose  *)
(* instructions the CPU executes ("cpu") differ in between.                *)
(***************************************************************************)
EXTENDS Integers, Sequences

CONSTANTS
    Thread,    \* the threads
    Idle,      \* the idle thread
    Nobody,    \* the start-up code; also the address 0 and "no thread yet"
    Prio,      \* current_priority of every thread; smaller is more urgent
    Slice,     \* init_tick
    MaxLock    \* bound: nesting of rt_enter_critical

ASSUME ContextSwitchAssumption ==
    /\ Idle \in Thread /\ Nobody \notin Thread
    /\ Prio \in [Thread -> Nat]
    /\ \A t \in Thread \ {Idle} : Prio[t] < Prio[Idle]
    /\ Slice \in Nat \ {0} /\ MaxLock \in Nat

VARIABLES
    k,          \* the scheduler's and the port's variables, a record:
                \*   stat, yield: thread->stat without and with its YIELD bit
                \*   table, group: rt_thread_priority_table and its bit mask
                \*   current, lock: rt_current_thread, rt_scheduler_lock_nest
                \*   from, to, flag: rt_interrupt_from_thread ... of cpuport.c
                \*   sw: the software interrupt is pending
    remaining,  \* remaining_tick of every thread
    cpu,        \* whose instructions the CPU executes outside interrupts
    pc,         \* "sched": the thread is about to call rt_schedule
    irq,        \* "none", or inside low_prio_irq: tick still to come or not
    sp,         \* whose context thread->sp points to
    cur_sp      \* whose context rt_cur_thread_sp points to

vars == <<k, remaining, cpu, pc, irq, sp, cur_sp>>

Priority == {Prio[t] : t \in Thread}

Init ==
    /\ k = [stat |-> [t \in Thread |-> "init"], yield |-> [t \in Thread |-> FALSE],
            table |-> [p \in Priority |-> << >>], group |-> {},
            current |-> Nobody, lock |-> 0,
            from |-> Nobody, to |-> Nobody, flag |-> FALSE, sw |-> FALSE]
    /\ remaining = [t \in Thread |-> Slice]
    /\ cpu = Nobody /\ pc = [t \in Thread |-> "run"]
    /\ irq = "none"
    /\ sp = [t \in Thread |-> t] /\ cur_sp = Nobody

-----------------------------------------------------------------------------
(* The scheduler's operations, on the record x of its variables.           *)

Holds(l, t) == \E i \in 1 .. Len(l) : l[i] = t

\* rt_list_remove
Without(l, t) ==
    IF ~Holds(l, t) THEN l
    ELSE LET n == CHOOSE i \in 1 .. Len(l) : l[i] = t
         IN  [i \in 1 .. Len(l) - 1 |-> IF i < n THEN l[i] ELSE l[i + 1]]

\* rt_schedule_insert_thread
Insert(x, t) ==
    IF t = x.current THEN [x EXCEPT !.stat[t] = "running"]
    ELSE [x EXCEPT !.stat[t] = "ready",
                   !.table[Prio[t]] = Append(@, t),
                   !.group = @ \cup {Prio[t]}]

\* Mutant: the bit of a list that becomes empty is left set.
RemoveKeepsBit(x, t) == [x EXCEPT !.table[Prio[t]] = Without(@, t)]

\* rt_schedule_remove_thread
Remove(x, t) ==
    LET l == Without(x.table[Prio[t]], t) IN
    [x EXCEPT !.table[Prio[t]] = l,
              !.group = IF l = << >> THEN @ \ {Prio[t]} ELSE @]

\* Mutant: a switch that is pending is overwritten.
SwitchOverwrites(x, f, t, inIsr) ==
    [x EXCEPT !.from = f, !.to = t, !.flag = TRUE,
              !.sw = IF inIsr THEN @ ELSE TRUE]

\* rt_hw_context_switch, or rt_hw_context_switch_interrupt in an interrupt
Switch(x, f, t, inIsr) ==
    [x EXCEPT !.from = IF inIsr /\ x.flag THEN @ ELSE f,
              !.to = t, !.flag = TRUE,
              !.sw = IF inIsr THEN @ ELSE TRUE]

\* the first bit set in rt_thread_ready_priority_group
HighestReady(x) == CHOOSE p \in x.group : \A q \in x.group : p <= q

\* does rt_schedule leave the current thread where it is?
Keeps(x) ==
    /\ x.stat[x.current] = "running"
    /\ \/ Prio[x.current] < HighestReady(x)
       \/ Prio[x.current] = HighestReady(x) /\ ~x.yield[x.current]

\* rt_schedule from a thread, or from a service routine (inIsr)
Schedule(x, inIsr) ==
    LET c        == x.current
        t        == Head(x.table[HighestReady(x)])
        running  == x.stat[c] = "running"
        cleared  == IF running THEN [x EXCEPT !.yield[c] = FALSE] ELSE x
        moved    == [cleared EXCEPT !.current = t]
        queued   == IF running THEN Insert(moved, c) ELSE moved
        switched == [Remove(queued, t) EXCEPT !.stat[t] = "running"]
    IN
    IF x.lock # 0 \/ x.group = {} THEN x
    ELSE IF Keeps(x) THEN [Remove(cleared, c) EXCEPT !.stat[c] = "running"]
    ELSE Switch(switched, c, t, inIsr)

-----------------------------------------------------------------------------
(* Start-up, with interrupts off.                                          *)

\* rt_thread_startup before there is a current thread
Startup(t) ==
    /\ k.current = Nobody /\ k.stat[t] = "init"
    /\ k' = Insert(k, t)
    /\ UNCHANGED <<remaining, cpu, pc, irq, sp, cur_sp>>

\* rt_hw_context_switch_to
SwitchTo(x, t) == [x EXCEPT !.from = Nobody, !.to = t, !.flag = TRUE, !.sw = TRUE]

\* rt_system_scheduler_start
SchedulerStart ==
    LET t == Head(k.table[HighestReady(k)])
        x == [k EXCEPT !.current = t]
    IN
    /\ k.current = Nobody /\ k.stat[Idle] = "ready"
    /\ k' = SwitchTo([Remove(x, t) EXCEPT !.stat[t] = "running"], t)
    /\ UNCHANGED <<remaining, cpu, pc, irq, sp, cur_sp>>

-----------------------------------------------------------------------------
(* The thread that has the CPU. With interrupts on, a pending software     *)
(* interrupt comes before its next instruction. A thread that holds the    *)
(* scheduler lock does not block.                                          *)

Executes == cpu # Nobody /\ irq = "none" /\ ~k.sw

\* rt_thread_resume or rt_thread_startup of another thread, as every release
\* of a semaphore, event, queue ... does before its rt_schedule
Resume(t) ==
    /\ Executes /\ pc[cpu] = "run"
    /\ k.stat[t] \in {"init", "suspend"}
    /\ k' = Insert(k, t)
    /\ pc' = [pc EXCEPT ![cpu] = "sched"]
    /\ UNCHANGED <<remaining, cpu, irq, sp, cur_sp>>

\* rt_thread_suspend, by a thread that blocks or of a ready thread
Suspend(t) ==
    /\ Executes /\ pc[cpu] = "run" /\ t # Idle
    /\ (t = cpu /\ k.lock = 0) \/ k.stat[t] = "ready"
    /\ k' = [Remove(k, t) EXCEPT !.stat[t] = "suspend"]
    /\ pc' = [pc EXCEPT ![cpu] = IF t = cpu THEN "sched" ELSE @]
    /\ UNCHANGED <<remaining, cpu, irq, sp, cur_sp>>

\* the rt_schedule that follows with interrupts on
CallSchedule ==
    /\ Executes /\ pc[cpu] = "sched"
    /\ k' = Schedule(k, FALSE)
    /\ pc' = [pc EXCEPT ![cpu] = "run"]
    /\ UNCHANGED <<remaining, cpu, irq, sp, cur_sp>>

\* rt_thread_yield
Yield ==
    /\ Executes /\ pc[cpu] = "run"
    /\ remaining' = [remaining EXCEPT ![cpu] = Slice]
    /\ k' = Schedule([k EXCEPT !.yield[cpu] = TRUE], FALSE)
    /\ UNCHANGED <<cpu, pc, irq, sp, cur_sp>>

\* rt_thread_exit
Exit ==
    /\ Executes /\ pc[cpu] = "run" /\ cpu # Idle /\ k.lock = 0
    /\ k' = Schedule([Remove(k, cpu) EXCEPT !.stat[cpu] = "close"], FALSE)
    /\ UNCHANGED <<remaining, cpu, pc, irq, sp, cur_sp>>

\* rt_enter_critical
EnterCritical ==
    /\ Executes /\ pc[cpu] = "run" /\ k.lock < MaxLock
    /\ k' = [k EXCEPT !.lock = @ + 1]
    /\ UNCHANGED <<remaining, cpu, pc, irq, sp, cur_sp>>

\* Mutant: the last unlock does not reschedule.
ExitCriticalSilent ==
    /\ Executes /\ pc[cpu] = "run" /\ k.lock > 0
    /\ k' = [k EXCEPT !.lock = @ - 1]
    /\ UNCHANGED <<remaining, cpu, pc, irq, sp, cur_sp>>

\* rt_exit_critical
ExitCritical ==
    /\ Executes /\ pc[cpu] = "run" /\ k.lock > 0
    /\ k' = [k EXCEPT !.lock = @ - 1]
    /\ pc' = [pc EXCEPT ![cpu] = IF k.lock = 1 THEN "sched" ELSE @]
    /\ UNCHANGED <<remaining, cpu, irq, sp, cur_sp>>

-----------------------------------------------------------------------------
(* low_prio_irq. The core does not nest interrupts.                        *)

\* the registers go to the stack of whoever was interrupted
save_context == cur_sp' = cpu

\* the registers come from the stack rt_cur_thread_sp points to
restore_context == cpu' = cur_sp'

\* low_prio_irq, and rt_soft_isr if the software interrupt is pending
IrqEnter ==
    /\ k.current # Nobody /\ irq = "none"
    /\ save_context
    /\ k' = [k EXCEPT !.sw = FALSE]
    /\ irq' = "tick"
    /\ UNCHANGED <<remaining, cpu, pc, sp>>

\* Mutant: the thread whose slice is over is not marked as yielding.
TickNoYield ==
    LET c == k.current IN
    /\ irq = "tick"
    /\ irq' = "device"
    /\ IF remaining[c] = 1
       THEN /\ remaining' = [remaining EXCEPT ![c] = Slice]
            /\ k' = Schedule(k, TRUE)
       ELSE /\ remaining' = [remaining EXCEPT ![c] = @ - 1]
            /\ k' = k
    /\ UNCHANGED <<cpu, pc, sp, cur_sp>>

\* timer0_isr -> rt_tick_increase: the tick is charged to rt_current_thread
Tick ==
    LET c == k.current IN
    /\ irq = "tick"
    /\ irq' = "device"
    /\ IF remaining[c] = 1
       THEN /\ remaining' = [remaining EXCEPT ![c] = Slice]
            /\ k' = Schedule([k EXCEPT !.yield[c] = TRUE], TRUE)
       ELSE /\ remaining' = [remaining EXCEPT ![c] = @ - 1]
            /\ k' = k
    /\ UNCHANGED <<cpu, pc, sp, cur_sp>>

\* rt_thread_timeout, or a service routine that releases an IPC object
IsrResume(t) ==
    /\ irq # "none" /\ k.stat[t] = "suspend"
    /\ k' = Schedule(Insert(k, t), TRUE)
    /\ irq' = "device"
    /\ UNCHANGED <<remaining, cpu, pc, sp, cur_sp>>

\* rt_switch_to_thread if a switch is asked for
IrqExit ==
    /\ irq # "none"
    /\ irq' = "none"
    /\ sp' = IF k.flag /\ k.from # Nobody THEN [sp EXCEPT ![k.from] = cur_sp] ELSE sp
    /\ cur_sp' = IF k.flag THEN sp'[k.to] ELSE cur_sp
    /\ restore_context
    /\ k' = [k EXCEPT !.flag = FALSE]
    /\ UNCHANGED <<remaining, pc>>

Irq == IrqEnter \/ Tick \/ (\E t \in Thread : IsrResume(t)) \/ IrqExit

Next == \/ SchedulerStart \/ (\E t \in Thread : Startup(t) \/ Resume(t) \/ Suspend(t))
        \/ CallSchedule \/ Yield \/ Exit \/ EnterCritical \/ ExitCritical
        \/ Irq

Spec == Init /\ [][Next]_vars

(* Fairness: the system is started, interrupts are served to the end, the  *)
(* tick keeps coming, and a thread that has the CPU carries its calls on   *)
(* and gives the scheduler lock back.                                      *)
FairSpec == /\ Spec
            /\ WF_vars(SchedulerStart \/ Startup(Idle))
            /\ WF_vars(IrqEnter \/ IrqExit) /\ SF_vars(Tick)
            /\ SF_vars(CallSchedule)
            /\ \A n \in 1 .. MaxLock : SF_vars(ExitCritical /\ k.lock = n)

-----------------------------------------------------------------------------
(* Properties.                                                             *)

KernelType ==
    [stat : [Thread -> {"init", "ready", "running", "suspend", "close"}],
     yield : [Thread -> BOOLEAN],
     table : [Priority -> Seq(Thread)], group : SUBSET Priority,
     current : Thread \cup {Nobody}, lock : 0 .. MaxLock,
     from : Thread \cup {Nobody}, to : Thread \cup {Nobody},
     flag : BOOLEAN, sw : BOOLEAN]

\* Every variable keeps its type; remaining_tick never reaches 0.
TypeOK ==
    /\ k \in KernelType
    /\ remaining \in [Thread -> 1 .. Slice]
    /\ cpu \in Thread \cup {Nobody} /\ cur_sp \in Thread \cup {Nobody}
    /\ pc \in [Thread -> {"run", "sched"}]
    /\ irq \in {"none", "tick", "device"}
    /\ sp \in [Thread -> Thread \cup {Nobody}]

\* However many calls of rt_schedule, from threads and from interrupts, one
\* switch is put together from: the stack pointer of a thread that is not
\* executing points to its own saved context, and outside interrupts the CPU
\* executes rt_current_thread.
ContextsOwn ==
    /\ \A t \in Thread \ {cpu} : sp[t] = t
    /\ cpu # Nobody /\ irq = "none" /\ ~k.sw => cpu = k.current /\ ~k.flag

\* l is a list of different threads of priority p.
ProperList(l, p) ==
    \A i, j \in 1 .. Len(l) : Prio[l[i]] = p /\ (l[i] = l[j] => i = j)

ListsExact(x) ==
    /\ \A t \in Thread : x.stat[t] = "ready" <=> Holds(x.table[Prio[t]], t)
    /\ \A p \in Priority : /\ p \in x.group <=> x.table[p] # << >>
                           /\ ProperList(x.table[p], p)

\* The ready lists and their bit mask tell what is ready, neither more nor
\* less: _get_highest_priority_thread never takes the head of an empty list,
\* and no thread is queued twice or while it runs.
ReadyListsExact == ListsExact(k)

MostUrgent(x, c) ==
    /\ x.stat[c] = "running"
    /\ \A t \in Thread : x.stat[t] = "ready" => Prio[c] <= Prio[t]

\* Outside interrupts, and unless the scheduler is locked or rt_schedule is
\* about to be called, no ready thread is more urgent than the one that has
\* the CPU, and that one is neither blocked nor dead.
MostUrgentRuns ==
    Executes /\ k.lock = 0 /\ pc[cpu] = "run" => MostUrgent(k, cpu)

\* t can run, and no thread more urgent than t can.
Top(t) ==
    /\ k.stat[t] \in {"ready", "running"}
    /\ \A u \in Thread : k.stat[u] \in {"ready", "running"} => Prio[t] <= Prio[u]

\* Threads of the same priority take turns: one that stays among the most
\* urgent has the CPU again and again, whatever its peers do.
TakesTurns(t) == <>[]Top(t) => []<>(cpu = t)
=============================================================================
