------------------------------- MODULE Timer -------------------------------
(***************************************************************************)
(* The kernel timers of RT-Thread (timer.c): the list of hard timers,      *)
(* whose callbacks run in the tick interrupt, the list of soft timers,     *)
(* whose callbacks run in the timer thread, and the thread timer on which  *)
(* the timer thread sleeps until its next soft timer is due.               *)
(*                                                                         *)
(* Ticks are counted modulo M, as rt_tick_t is modulo 2^32: RT_TICK_MAX is *)
(* M - 1. What a timer's timeout_tick means is told by the history         *)
(* variable left, the ticks that remain, which does not wrap around.       *)
(*                                                                         *)
(* rt_timer_control may set init_tick and RT_TIMER_FLAG_PERIODIC at any    *)
(* time, so every read of one of them is a choice.                         *)
(***************************************************************************)
EXTENDS Integers, Sequences

CONSTANTS
    Timer,        \* the timers
    Soft,         \* those with RT_TIMER_FLAG_SOFT_TIMER
    ThreadTimer,  \* timer_thread.thread_timer
    None,         \* no timer
    M,            \* the number of values of rt_tick_t
    Inits,        \* the init_ticks that are asked for
    MaxLate,      \* bound: ticks by which the timer thread runs late
    MaxSlip       \* bound: ticks in between rt_tick_get and rt_thread_delay

TickMax == M - 1
Half == TickMax \div 2    \* RT_TICK_MAX / 2
User == Timer \ {ThreadTimer}
Periodic == BOOLEAN       \* RT_TIMER_FLAG_PERIODIC, whenever it is read

\* rt_timer_check: "the new tick shall less than the half duration of tick
\* max"; the order of the lists, and a timeout_tick the timer thread has read,
\* need the third bound as well
ASSUME TimerAssumption ==
    /\ ThreadTimer \in Timer /\ Soft \subseteq User /\ None \notin Timer
    /\ M \in Nat /\ MaxLate \in Nat /\ MaxSlip \in Nat
    /\ Inits # {} /\ Inits \subseteq 1 .. Half - 1 /\ MaxLate < Half
    /\ \A n \in Inits : n + 2 * MaxLate <= M - Half

VARIABLES
    tick,                                      \* rt_tick
    active, timeout_tick,                      \* the fields of each timer
    hard, soft,                                \* rt_timer_list, rt_soft_timer_list
    irq, hcb, htemp,     \* rt_timer_check runs, for which callback, and is
                         \* that timer still on its temporary list?
    pc, next_timeout,    \* the timer thread; it is suspended iff pc = "asleep"
    scb, stemp,          \* rt_soft_timer_check, likewise
    kick,                \* rt_timer_start of a soft timer is about to look at
                         \* the timer thread
    missed,              \* history: since the timer thread looked at the list
                         \* and before it slept a soft timer was started
    \* history: ticks that remain, ticks since the timer thread read the
    \* tick, is next_timeout a timer's, timers that kept their flag but are
    \* on no list
    left, slip, found, orphan

fields == <<active, timeout_tick>>
lists  == <<hard, soft, htemp, stemp>>
vars   == <<tick, fields, lists, irq, hcb, pc, next_timeout, scb, kick,
            left, slip, found, missed, orphan>>

\* rt_system_timer_init and rt_system_timer_thread_init; _rt_timer_init of
\* every timer
Init ==
    /\ tick \in {0, TickMax - 1}
    /\ active = [t \in Timer |-> FALSE] /\ timeout_tick = [t \in Timer |-> 0]
    /\ hard = << >> /\ soft = << >>
    /\ irq = FALSE /\ hcb = None /\ htemp = FALSE
    /\ pc = "next" /\ next_timeout = 0 /\ scb = None /\ stemp = FALSE
    /\ kick = FALSE /\ missed = FALSE
    /\ left = [t \in Timer |-> 0] /\ slip = 0 /\ found = FALSE /\ orphan = {}

-----------------------------------------------------------------------------
(* Tick arithmetic and the lists.                                          *)

\* a - b and a + b as rt_tick_t
Minus(a, b) == IF a >= b THEN a - b ELSE a - b + M
Plus(a, b) == IF a + b < M THEN a + b ELSE a + b - M

On(l, t) == \E i \in 1 .. Len(l) : l[i] = t

\* _rt_timer_remove
Without(l, t) ==
    IF ~On(l, t) THEN l
    ELSE LET n == CHOOSE i \in 1 .. Len(l) : l[i] = t
         IN  [i \in 1 .. Len(l) - 1 |-> IF i < n THEN l[i] ELSE l[i + 1]]

\* Mutant: the timeouts are compared as plain numbers.
PlaceUnsigned(l, t, timeout) ==
    LET later == {i \in 1 .. Len(l) : timeout_tick[l[i]] > timeout}
        n     == IF later = {} THEN Len(l) + 1
                 ELSE CHOOSE i \in later : \A j \in later : i <= j
    IN  [i \in 1 .. Len(l) + 1 |->
            IF i < n THEN l[i] ELSE IF i = n THEN t ELSE l[i - 1]]

\* the place in the list: before the first timer that times out later
Place(l, t, timeout) ==
    LET later == {i \in 1 .. Len(l) :
                    /\ Minus(timeout_tick[l[i]], timeout) # 0
                    /\ Minus(timeout_tick[l[i]], timeout) < Half}
        n     == IF later = {} THEN Len(l) + 1
                 ELSE CHOOSE i \in later : \A j \in later : i <= j
    IN  [i \in 1 .. Len(l) + 1 |->
            IF i < n THEN l[i] ELSE IF i = n THEN t ELSE l[i - 1]]

\* is the timer due?
Due(t) == Minus(tick, timeout_tick[t]) < Half

\* _rt_timer_remove: from its list, or from the temporary list of a check
Remove(t) ==
    /\ hard' = Without(hard, t) /\ soft' = Without(soft, t)
    /\ htemp' = (htemp /\ hcb # t) /\ stemp' = (stemp /\ scb # t)

\* a timer that is on no list: its timeout_tick is not read any more
Forget(t) ==
    /\ timeout_tick' = [timeout_tick EXCEPT ![t] = 0]
    /\ left' = [left EXCEPT ![t] = 0]

\* rt_timer_start with n ticks up to rt_hw_interrupt_enable
Insert(t, n) ==
    LET timeout == Plus(tick, n) IN
    /\ timeout_tick' = [timeout_tick EXCEPT ![t] = timeout]
    /\ hard' = IF t \in Soft THEN hard ELSE Place(Without(hard, t), t, timeout)
    /\ soft' = IF t \in Soft THEN Place(Without(soft, t), t, timeout) ELSE soft
    /\ htemp' = (htemp /\ hcb # t) /\ stemp' = (stemp /\ scb # t)
    /\ active' = [active EXCEPT ![t] = TRUE]
    /\ left' = [left EXCEPT ![t] = n]
    /\ orphan' = orphan \ {t}

\* the timer thread goes on to its check: what it saw before is history
Awake == pc' = "check" /\ found' = FALSE /\ missed' = FALSE /\ slip' = 0

-----------------------------------------------------------------------------
(* The calls of threads, of interrupts and of callbacks. rt_timer_check    *)
(* runs with interrupts off: in its course only its callbacks call.        *)

CanCall == irq => hcb # None

\* rt_timer_start, by an interrupt, a callback or a thread of any priority,
\* wherever the timer thread is. One start of a soft timer is over before the
\* next one.
Start(t) ==
    /\ CanCall
    /\ t \in Soft => ~kick
    /\ \E n \in Inits : Insert(t, n)
    /\ kick' = (kick \/ t \in Soft)
    /\ missed' = (missed \/ (t \in Soft /\ pc \in {"decide", "delay"}))
    /\ UNCHANGED <<tick, irq, hcb, pc, next_timeout, found, scb, slip>>

\* Mutant: the timer thread is not resumed.
KickMissing ==
    /\ CanCall /\ kick
    /\ kick' = FALSE
    /\ UNCHANGED <<tick, fields, lists, left, orphan, irq, hcb, pc,
                   next_timeout, found, missed, scb, slip>>

\* the rest of rt_timer_start for a soft timer, with interrupts on:
\* rt_thread_resume stops the thread timer
Kick ==
    /\ CanCall /\ kick
    /\ kick' = FALSE
    /\ IF pc = "asleep" /\ scb = None
       THEN /\ Awake
            /\ Remove(ThreadTimer) /\ Forget(ThreadTimer)
            /\ active' = [active EXCEPT ![ThreadTimer] = FALSE]
       ELSE UNCHANGED <<pc, found, missed, slip, lists, timeout_tick, left,
                        active>>
    /\ UNCHANGED <<tick, irq, hcb, next_timeout, scb, orphan>>

\* Mutant: the flag is cleared, the timer stays on its list.
StopKeepsQueued(t, checked) ==
    /\ CanCall
    /\ checked => active[t]
    /\ active' = [active EXCEPT ![t] = FALSE]
    /\ orphan' = orphan \ {t}
    /\ UNCHANGED <<tick, timeout_tick, lists, left, irq, hcb, pc, next_timeout,
                   found, missed, scb, kick, slip>>

\* rt_timer_stop, which leaves a timer that is not active alone (checked),
\* and rt_timer_detach and rt_timer_delete, which do not ask
Stop(t, checked) ==
    /\ CanCall
    /\ checked => active[t]
    /\ Remove(t) /\ Forget(t)
    /\ active' = [active EXCEPT ![t] = FALSE]
    /\ orphan' = orphan \ {t}
    /\ UNCHANGED <<tick, irq, hcb, pc, next_timeout, found, missed, scb, kick,
                   slip>>

Calls == \E t \in User : Start(t) \/ \E c \in BOOLEAN : Stop(t, c)

-----------------------------------------------------------------------------
(* The tick interrupt: rt_tick_increase and rt_timer_check.                *)

Tick ==
    /\ ~irq /\ irq' = TRUE
    /\ \A t \in Soft : active[t] => left[t] > 0 - MaxLate
    /\ pc = "delay" => slip < MaxSlip
    /\ tick' = Plus(tick, 1)
    /\ left' = [t \in Timer |->
                  IF On(hard, t) \/ On(soft, t) THEN left[t] - 1 ELSE left[t]]
    /\ slip' = IF pc = "delay" THEN slip + 1 ELSE slip
    /\ UNCHANGED <<fields, lists, hcb, pc, next_timeout, found, missed, scb,
                   kick, orphan>>

\* rt_timer_check: the first timer is due, its callback is called
HardFire ==
    LET t == hard[1] IN
    /\ irq /\ hcb = None /\ hard # << >> /\ Due(t) /\ t # ThreadTimer
    /\ hard' = Without(hard, t) /\ Forget(t)
    /\ \E p \in Periodic : active' = [active EXCEPT ![t] = p]
    /\ hcb' = t /\ htemp' = TRUE
    /\ UNCHANGED <<tick, soft, stemp, irq, pc, next_timeout, found, missed,
                   scb, kick, slip, orphan>>

\* the same for the timer thread's own timer: the callback is
\* rt_thread_timeout, which makes the thread ready
ThreadTimeout ==
    LET t == hard[1] IN
    /\ irq /\ hcb = None /\ hard # << >> /\ Due(t) /\ t = ThreadTimer
    /\ hard' = Without(hard, t) /\ Forget(t)
    /\ active' = [active EXCEPT ![t] = FALSE]
    /\ Awake
    /\ UNCHANGED <<tick, soft, htemp, stemp, irq, hcb, next_timeout, scb, kick,
                   orphan>>

\* after the callback of t, in either check: a periodic timer that was
\* neither stopped nor started in the meantime starts again
Restart(t, temp) ==
    \/ temp /\ active[t] /\ \E n \in Inits : Insert(t, n)
    \/ /\ htemp' = (htemp /\ hcb # t) /\ stemp' = (stemp /\ scb # t)
       /\ orphan' = IF temp /\ active[t] THEN orphan \cup {t} ELSE orphan
       /\ UNCHANGED <<hard, soft, active, timeout_tick, left>>

HardReturn ==
    /\ hcb # None
    /\ Restart(hcb, htemp)
    /\ hcb' = None
    /\ UNCHANGED <<tick, irq, pc, next_timeout, found, missed, scb, kick,
                   slip>>

\* Mutant: the check ends after any timer.
CheckDoneEarly ==
    /\ irq /\ hcb = None
    /\ irq' = FALSE
    /\ UNCHANGED <<tick, fields, lists, hcb, pc, next_timeout, found, missed,
                   scb, kick, left, slip, orphan>>

\* no timer is due any more
CheckDone ==
    /\ irq /\ hcb = None
    /\ hard # << >> => ~Due(hard[1])
    /\ irq' = FALSE
    /\ UNCHANGED <<tick, fields, lists, hcb, pc, next_timeout, found, missed,
                   scb, kick, left, slip, orphan>>

Isr == HardFire \/ ThreadTimeout \/ HardReturn \/ CheckDone

-----------------------------------------------------------------------------
(* The timer thread, which runs with interrupts on.                        *)

\* rt_timer_list_next_timeout
NextTimeout ==
    /\ ~irq /\ pc = "next"
    /\ next_timeout' = IF soft = << >> THEN TickMax ELSE timeout_tick[soft[1]]
    /\ found' = (soft # << >>)
    /\ pc' = "decide"
    /\ UNCHANGED <<tick, fields, lists, irq, hcb, scb, kick, left, slip,
                   missed, orphan>>

\* "no software timer exist, suspend self"
Suspend ==
    /\ ~irq /\ pc = "decide" /\ next_timeout = TickMax
    /\ pc' = "asleep" /\ next_timeout' = 0
    /\ UNCHANGED <<tick, found, missed, fields, lists, irq, hcb, scb, kick,
                   left, slip, orphan>>

\* Mutant: a timeout that has passed is taken for one far ahead.
ReadTickNoCheck ==
    /\ ~irq /\ pc = "decide" /\ next_timeout # TickMax
    /\ pc' = "delay" /\ next_timeout' = Minus(next_timeout, tick)
    /\ UNCHANGED <<tick, found, missed, slip, fields, lists, irq, hcb, scb,
                   kick, left, orphan>>

\* the ticks that remain, unless the timer is already due
ReadTick ==
    /\ ~irq /\ pc = "decide" /\ next_timeout # TickMax
    /\ LET delta == Minus(next_timeout, tick) IN
       IF delta < Half
       THEN pc' = "delay" /\ next_timeout' = delta /\ UNCHANGED <<found, missed, slip>>
       ELSE Awake /\ next_timeout' = 0
    /\ UNCHANGED <<tick, fields, lists, irq, hcb, scb, kick, left, orphan>>

\* rt_thread_delay: suspend and start the thread timer, interrupts off
Delay ==
    /\ ~irq /\ pc = "delay"
    /\ pc' = "asleep" /\ next_timeout' = 0
    /\ Insert(ThreadTimer, next_timeout)
    /\ UNCHANGED <<tick, found, missed, irq, hcb, scb, kick, slip>>

\* rt_soft_timer_check: the first timer is due, its callback is called with
\* interrupts on
SoftFire ==
    /\ ~irq /\ pc = "check" /\ soft # << >> /\ Due(soft[1])
    /\ LET t == soft[1] IN
       /\ soft' = Without(soft, t) /\ Forget(t)
       /\ \E p \in Periodic : active' = [active EXCEPT ![t] = p]
       /\ scb' = t
    /\ stemp' = TRUE
    /\ pc' = "cb"
    /\ UNCHANGED <<tick, hard, htemp, irq, hcb, next_timeout, found, missed,
                   kick, slip, orphan>>

SoftReturn ==
    /\ ~irq /\ pc = "cb"
    /\ Restart(scb, stemp)
    /\ scb' = None /\ pc' = "check"
    /\ UNCHANGED <<tick, irq, hcb, next_timeout, found, missed, kick, slip>>

SoftDone ==
    /\ ~irq /\ pc = "check"
    /\ soft # << >> => ~Due(soft[1])
    /\ pc' = "next"
    /\ UNCHANGED <<tick, fields, lists, irq, hcb, next_timeout, found, missed,
                   scb, kick, left, slip, orphan>>

Thread == \/ NextTimeout \/ Suspend \/ ReadTick \/ Delay
          \/ SoftFire \/ SoftReturn \/ SoftDone

Next == Calls \/ Kick \/ Tick \/ Isr \/ Thread

Spec == Init /\ [][Next]_vars

(* Fairness: ticks come, interrupts and callbacks end, the timer thread is *)
(* scheduled and so is the thread that started a timer.                    *)
FairSpec ==
    Spec /\ WF_vars(Tick) /\ WF_vars(Isr) /\ WF_vars(Thread) /\ WF_vars(Kick)

-----------------------------------------------------------------------------
(* Properties.                                                             *)

Queued(t) == On(hard, t) \/ On(soft, t)

\* Every variable keeps its type, rt_tick_t's range included.
TypeOK ==
    /\ tick \in 0 .. TickMax
    /\ active \in [Timer -> BOOLEAN] /\ timeout_tick \in [Timer -> 0 .. TickMax]
    /\ \A i \in 1 .. Len(hard) : hard[i] \in Timer \ Soft
    /\ \A i \in 1 .. Len(soft) : soft[i] \in Soft
    /\ irq \in BOOLEAN /\ htemp \in BOOLEAN /\ stemp \in BOOLEAN /\ kick \in BOOLEAN
    /\ hcb \in (User \ Soft) \cup {None} /\ scb \in Soft \cup {None}
    /\ pc \in {"next", "decide", "delay", "asleep", "check", "cb"}
    /\ next_timeout \in 0 .. TickMax /\ found \in BOOLEAN
    /\ missed \in BOOLEAN
    /\ left \in [Timer -> Int] /\ slip \in 0 .. MaxSlip /\ orphan \subseteq User

\* RT_TIMER_FLAG_ACTIVATED tells that a timer is on its list or is a
\* periodic one in its callback, whoever starts, stops or detaches it in the
\* meantime, but for a timer made one-shot in its own callback.
FlagsExact ==
    \A t \in Timer :
        LET called == (t = hcb /\ htemp) \/ (t = scb /\ stemp) IN
        /\ Queued(t) \/ t \in orphan => active[t] /\ ~called
        /\ active[t] => Queued(t) \/ t \in orphan \/ called

Sorted(l) == \A i, j \in 1 .. Len(l) :
                 i < j => l[i] # l[j] /\ left[l[i]] <= left[l[j]]

\* Across the wrap-around of the tick both lists are sorted by the ticks
\* that really remain, and a timeout_tick still means that many ticks; every
\* other variable keeps its type, too.
ListsSorted ==
    /\ TypeOK
    /\ Sorted(hard) /\ Sorted(soft)
    /\ \A t \in Timer : Queued(t) =>
          timeout_tick[t] = (IF left[t] >= 0 THEN Plus(tick, left[t])
                             ELSE Minus(tick, 0 - left[t]))

\* The callback of a hard timer is called in the interrupt of the very tick
\* it was started for, no sooner and no later: the interrupt does not end
\* with a hard timer due (rt_thread_delay(0) starts one afterwards, which
\* fires with the next tick). That of a soft timer is not called before it.
FiresOnTime ==
    [][/\ hcb = None /\ hcb' # None => left[hcb'] = 0
       /\ irq /\ ~irq' => \A t \in Timer \ Soft : On(hard, t) => left[t] > 0
       /\ scb = None /\ scb' # None => left[scb'] <= 0]_vars

\* The timer thread does not sleep past a soft timer that was started before
\* it looked at the list or after it went to sleep, by whomever: it sleeps
\* without a limit only when it saw none or saw one that times out at
\* RT_TICK_MAX, and else at most as long as the first one needs, the ticks in
\* between reading the tick and sleeping apart. Nothing is said of a timer
\* started in between (missed): the thread is not yet suspended, nobody
\* resumes it, and it sleeps past that timer. Its own timer runs only while it
\* sleeps, which rt_thread_timeout asserts.
NoOversleep ==
    /\ active[ThreadTimer] => pc = "asleep"
    /\ pc = "asleep" /\ ~kick /\ ~missed =>
        IF active[ThreadTimer]
        THEN \A i \in 1 .. Len(soft) : left[ThreadTimer] <= left[soft[i]] + slip
        ELSE soft = << >> \/ found

\* the timer thread took the first timer's timeout for "no timer", or sleeps
\* past a timer that was started just before it went to sleep
Sentinel == pc = "asleep" /\ ~active[ThreadTimer] /\ found
Oversleeps == pc = "asleep" /\ missed

\* A soft timer that is due is called, stopped or started again, unless the
\* timer thread sleeps past it for one of the two reasons.
SoftFires ==
    \A t \in Soft : (Queued(t) /\ left[t] <= 0)
                        ~> (~Queued(t) \/ left[t] > 0 \/ Sentinel \/ Oversleeps)
=============================================================================
