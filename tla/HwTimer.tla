------------------------------ MODULE HwTimer ------------------------------
(***************************************************************************)
(* A hardware timer: the device (hwtimer.c), its driver (drv_hwtimer.c)    *)
(* and the counter TMRx, which compares with TMRxPR, starts again from     *)
(* zero and raises an interrupt. A time too long for the counter is a      *)
(* number of periods (cycles), counted by the interrupt.                   *)
(*                                                                         *)
(* The thread that uses the device takes one step for every store, with    *)
(* interrupts in between. The interrupt, with the callback rx_indicate, is *)
(* one step, also when the callback stops or writes the timer: a period is *)
(* longer than the interrupt, which may come late (interrupts may be off   *)
(* for a while) but before the next overflow. Bit 0 is the only bit of     *)
(* TMRxCON that changes while the device is open, so that a |= or &= of it *)
(* is one store.                                                           *)
(*                                                                         *)
(* timeout_calc works on floats: it returns any number of periods of any   *)
(* length, of which the device keeps a part of a tick that the counter     *)
(* does not count. The frequencies divide the system clock. The timer has  *)
(* its vector to itself, as TIM1 and TIM3 have.                            *)
(***************************************************************************)
EXTENDS Integers

CONSTANTS
    W,            \* the number of values of the 32-bit TMRxPR and TMRxCNT
    Parts,        \* period_sec is counted in Parts parts of a tick of freq
    Times,        \* the periods timeout_calc may find, in parts of a tick
    Cycles,       \* the numbers of periods
    Divs,         \* get_sysclk_nhz() / freq, for the freqs that are asked for
    MaxOverflow   \* bound: overflows since the timer was written

\* timeout_calc never finds a period below a tick: it starts from one period,
\* of at least a tick, and goes back to it when a shorter one is worse.
ASSUME HwTimerAssumption ==
    /\ W \in Nat \ {0} /\ Parts \in Nat \ {0}
    /\ Divs \subseteq Nat \ {0} /\ Divs # {}
    /\ Times \subseteq Nat /\ Parts \in Times /\ \A p \in Times : p >= Parts
    /\ Cycles \subseteq Nat /\ MaxOverflow \in Nat

VARIABLES
    open,        \* the device is open; it is RT_DEVICE_FLAG_STANDALONE
    tim,         \* TMRxCON bits 7 and 0, TMRxCNT, TMRxPR, TMRxCON bit 9
    timer,       \* rt_hwtimer_t; div is the clock divided by freq, period is
                 \* period_sec in parts of a clock
    pc,          \* the store the thread makes next
    w, opm,      \* rt_hwtimer_write: timeout and i of timeout_calc, opm
    got, gotAge, \* rt_hwtimer_read: cnt, and the age at which it was read
    \* history
    age,         \* clocks since the timer was started; a stop by the
                 \* thread clears it
    calls,       \* timeouts since overflow was cleared
    armed,       \* a write succeeded, and neither a stop nor the end of a
                 \* single time came after it
    asked,       \* what that write asked for: the period in parts of a tick,
                 \* the number of periods, clocks of a tick
    mixed        \* an overflow from before the write counts towards its time,
                 \* or a callback wrote in the midst of it

vars == <<open, tim, timer, pc, w, opm, got, gotAge, age, calls, armed, asked, mixed>>

device == <<open, tim, timer>>
locals == <<w, opm, got, gotAge>>
history == <<age, calls, armed, asked, mixed>>

Unset == [time |-> Parts, cycles |-> 0]

Init ==
    /\ open = FALSE
    /\ tim = [tie |-> FALSE, en |-> FALSE, cnt |-> 0, pr |-> 0, pend |-> FALSE]
    /\ \E k \in Divs :
        /\ timer = [mode |-> "oneshot", div |-> k, overflow |-> 0, cycles |-> 0,
                    reload |-> 0, period |-> 0]
        /\ asked = [time |-> Parts, cycles |-> 0, div |-> k]
    /\ pc = "idle" /\ w = Unset /\ opm = "period"
    /\ got = 0 /\ gotAge = 0
    /\ age = 0 /\ calls = 0 /\ armed = FALSE /\ mixed = FALSE

-----------------------------------------------------------------------------
(* The driver and timeout_calc.                                            *)

\* timer_stop
Stopped(x) == [x EXCEPT !.en = FALSE, !.cnt = 0]

\* the counter that timeout_calc returns: the whole ticks of timeout
Ticks(p) == p \div Parts

\* timer_start: TMRxPR, computed in 32 bits
Compare(p, k) == (Ticks(p) * k - 1) % W

\* what timeout_calc may find; a time below one tick has no cycles at all
Asked(p, c) == p \in Times /\ c \in Cycles /\ (c = 0 => p = Parts)

\* opm
Opmode(c) == IF c <= 1 /\ timer.mode = "oneshot" THEN "oneshot" ELSE "period"

-----------------------------------------------------------------------------
(* The device, as the thread calls it.                                     *)

\* Mutant: the interrupt is not enabled.
OpenSilent ==
    /\ pc = "idle" /\ ~open /\ open' = TRUE
    /\ tim' = [tim EXCEPT !.tie = FALSE, !.en = FALSE]
    /\ \E k \in Divs :
        timer' = [timer EXCEPT !.mode = "oneshot", !.div = k, !.cycles = 0,
                               !.overflow = 0]
    /\ calls' = 0 /\ armed' = FALSE /\ age' = 0
    /\ UNCHANGED <<pc, locals, asked, mixed>>

\* rt_device_open: rt_hwtimer_init, timer_init(1), rt_hwtimer_open
Open ==
    /\ pc = "idle" /\ ~open /\ open' = TRUE
    /\ tim' = [tim EXCEPT !.tie = TRUE, !.en = FALSE]
    /\ \E k \in Divs :
        timer' = [timer EXCEPT !.mode = "oneshot", !.div = k, !.cycles = 0,
                               !.overflow = 0]
    /\ calls' = 0 /\ armed' = FALSE /\ age' = 0
    /\ UNCHANGED <<pc, locals, asked, mixed>>

\* rt_device_close: rt_hwtimer_close, timer_init(0)
Close ==
    /\ pc = "idle" /\ open /\ open' = FALSE
    /\ tim' = [tim EXCEPT !.tie = FALSE, !.en = FALSE]
    /\ armed' = FALSE /\ age' = 0
    /\ UNCHANGED <<timer, pc, locals, calls, asked, mixed>>

\* HWTIMER_CTRL_FREQ_SET and HWTIMER_CTRL_MODE_SET, also while it runs
Configure ==
    /\ pc = "idle"
    /\ \/ \E m \in {"oneshot", "period"} : timer' = [timer EXCEPT !.mode = m]
       \/ \E k \in Divs : timer' = [timer EXCEPT !.div = k]
    /\ UNCHANGED <<open, tim, pc, locals, history>>

\* HWTIMER_CTRL_STOP, which needs no open device: timer_stop, its first store
Stop ==
    /\ pc = "idle" /\ pc' = "stop"
    /\ tim' = [tim EXCEPT !.en = FALSE] /\ armed' = FALSE /\ age' = 0
    /\ UNCHANGED <<open, timer, locals, calls, asked, mixed>>

StopZero ==
    /\ pc = "stop" /\ pc' = "idle" /\ tim' = [tim EXCEPT !.cnt = 0]
    /\ UNCHANGED <<open, timer, locals, history>>

\* rt_hwtimer_write: the running time is given up first, by timer_stop
WriteStop ==
    /\ pc = "idle" /\ open /\ pc' = "zero"
    /\ tim' = [tim EXCEPT !.en = FALSE]
    /\ armed' = FALSE /\ age' = 0 /\ mixed' = FALSE
    /\ UNCHANGED <<open, timer, locals, calls, asked>>

WriteZero ==
    /\ pc = "zero" /\ pc' = "clear" /\ tim' = [tim EXCEPT !.cnt = 0]
    /\ UNCHANGED <<open, timer, locals, history>>

\* Mutant: the overflows of the time before are kept.
WriteClearMissing ==
    /\ pc = "clear" /\ pc' = "cycles" /\ timer' = timer /\ calls' = 0
    /\ UNCHANGED <<open, tim, locals, age, armed, asked, mixed>>

WriteClear ==
    /\ pc = "clear" /\ pc' = "cycles"
    /\ timer' = [timer EXCEPT !.overflow = 0] /\ calls' = 0
    /\ UNCHANGED <<open, tim, locals, age, armed, asked, mixed>>

\* timeout_calc finds c periods of p parts of a tick, and stores them
WriteCycles(p, c) ==
    /\ pc = "cycles" /\ Asked(p, c) /\ pc' = "reload"
    /\ w' = [time |-> p, cycles |-> c] /\ timer' = [timer EXCEPT !.cycles = c]
    /\ UNCHANGED <<open, tim, opm, got, gotAge, history>>

WriteReload ==
    /\ pc = "reload" /\ pc' = "period"
    /\ timer' = [timer EXCEPT !.reload = w.cycles]
    /\ UNCHANGED <<open, tim, locals, history>>

WritePeriod ==
    /\ pc = "period" /\ pc' = "opm"
    /\ timer' = [timer EXCEPT !.period = w.time * timer.div]
    /\ UNCHANGED <<open, tim, locals, history>>

\* the test of cycles and mode
WriteOpm ==
    /\ pc = "opm" /\ pc' = "count" /\ opm' = Opmode(timer.cycles)
    /\ UNCHANGED <<device, w, got, gotAge, history>>

\* the locals have no value outside the call
Returns == w' = Unset /\ opm' = "period"

\* timer_start
WriteCount ==
    /\ pc = "count" /\ pc' = "load" /\ tim' = [tim EXCEPT !.cnt = 0]
    /\ UNCHANGED <<open, timer, locals, history>>

\* the driver has no single mode and returns an error, with the registers
\* written
WriteLoad ==
    /\ pc = "load" /\ tim' = [tim EXCEPT !.pr = Compare(w.time, timer.div)]
    /\ IF opm = "oneshot" THEN pc' = "idle" /\ Returns
                          ELSE pc' = "enable" /\ UNCHANGED <<w, opm>>
    /\ UNCHANGED <<open, timer, got, gotAge, history>>

\* the counter starts
WriteEnable ==
    /\ pc = "enable" /\ pc' = "idle"
    /\ tim' = [tim EXCEPT !.en = TRUE]
    /\ age' = 0 /\ armed' = TRUE /\ mixed' = (mixed \/ tim.pend)
    /\ asked' = [time |-> w.time, cycles |-> w.cycles, div |-> timer.div]
    /\ Returns /\ UNCHANGED <<open, timer, got, gotAge, calls>>

\* rt_hwtimer_read: interrupts off, timer_counter_get ...
ReadCount ==
    /\ pc = "idle" /\ open /\ pc' = "read"
    /\ got' = (tim.cnt \div timer.div) * timer.div /\ gotAge' = age
    /\ UNCHANGED <<device, w, opm, history>>

\* ... then overflow; interrupts on
ReadOverflow ==
    /\ pc = "read" /\ pc' = "idle" /\ got' = 0 /\ gotAge' = 0
    /\ UNCHANGED <<device, w, opm, history>>

-----------------------------------------------------------------------------
(* The counter and the interrupt.                                          *)

\* a clock; a counter beyond TMRxPR counts on through its 32 bits
Clock ==
    /\ tim.en /\ age' = age + 1
    /\ IF tim.cnt = tim.pr
       THEN /\ ~tim.pend /\ timer.overflow < MaxOverflow
            /\ tim' = [tim EXCEPT !.cnt = 0, !.pend = TRUE]
       ELSE tim' = [tim EXCEPT !.cnt = (@ + 1) % W]
    /\ UNCHANGED <<open, timer, pc, locals, calls, armed, asked, mixed>>

\* Mutant: the time is over one period too early.
LeftEarly == IF timer.cycles <= 1 THEN 0 ELSE timer.cycles - 2

\* the cycles that are left after an overflow
Left == IF timer.cycles = 0 THEN 0 ELSE timer.cycles - 1

\* Mutant: a read leaves interrupts on.
TakenInRead == tim.pend /\ tim.tie

\* the interrupt is taken
Taken == tim.pend /\ tim.tie /\ pc # "read"

\* rt_hwtimer_write between overflow = 0 and the start of the counter
Starting == pc \in {"cycles", "reload", "period", "opm", "count", "load", "enable"}

\* timer1_isr, _rt_device_hwtimer_isr: an overflow within the time
IsrCount ==
    /\ Taken /\ Left > 0
    /\ tim' = [tim EXCEPT !.pend = FALSE]
    /\ timer' = [timer EXCEPT !.overflow = @ + 1, !.cycles = Left]
    /\ mixed' = (mixed \/ Starting)
    /\ UNCHANGED <<open, pc, locals, age, calls, armed, asked>>

\* TMRx when the time is over, before the callback
Over == IF timer.mode = "oneshot" THEN [Stopped(tim) EXCEPT !.pend = FALSE]
                                  ELSE [tim EXCEPT !.pend = FALSE]

\* the time is over; the callback leaves the timer alone, or stops it
IsrTimeout ==
    /\ Taken /\ Left = 0 /\ calls' = calls + 1
    /\ timer' = [timer EXCEPT !.overflow = @ + 1, !.cycles = timer.reload]
    /\ \/ tim' = Over /\ armed' = (armed /\ timer.mode # "oneshot")
       \/ tim' = Stopped(Over) /\ armed' = FALSE
    /\ mixed' = (mixed \/ Starting)
    /\ UNCHANGED <<open, pc, locals, age, asked>>

\* the callback's rt_hwtimer_write
Rewritten(p, c) ==
    [timer EXCEPT !.overflow = 0, !.cycles = c, !.reload = c,
                  !.period = p * timer.div]

\* Mutant: the timer is stopped after the callback.
IsrRearmStops(p, c) ==
    /\ Taken /\ Left = 0 /\ open /\ Asked(p, c)
    /\ timer' = Rewritten(p, c)
    /\ tim' = [tim EXCEPT !.pend = FALSE, !.cnt = 0, !.pr = Compare(p, timer.div),
                !.en = Opmode(c) # "oneshot" /\ timer.mode # "oneshot"]
    /\ armed' = (Opmode(c) # "oneshot")
    /\ asked' = [time |-> p, cycles |-> c, div |-> timer.div]
    /\ age' = 0 /\ calls' = 0 /\ mixed' = (pc # "idle")
    /\ UNCHANGED <<open, pc, locals>>

\* the time is over; the callback writes the next one, also while the thread
\* is within a call of its own
IsrRearm(p, c) ==
    /\ Taken /\ Left = 0 /\ open /\ Asked(p, c)
    /\ timer' = Rewritten(p, c)
    /\ tim' = [tim EXCEPT !.pend = FALSE, !.cnt = 0, !.pr = Compare(p, timer.div),
                !.en = Opmode(c) # "oneshot"]
    /\ armed' = (Opmode(c) # "oneshot")
    /\ asked' = [time |-> p, cycles |-> c, div |-> timer.div]
    /\ age' = 0 /\ calls' = 0 /\ mixed' = (pc # "idle")
    /\ UNCHANGED <<open, pc, locals>>

\* rt_hwtimer_write and rt_hwtimer_control, once they have begun
Write ==
    \/ WriteZero \/ WriteClear \/ WriteReload \/ WritePeriod \/ WriteOpm
    \/ WriteCount \/ WriteLoad \/ WriteEnable

Next ==
    \/ Open \/ Close \/ Configure \/ Stop \/ StopZero
    \/ WriteStop \/ Write \/ ReadCount \/ ReadOverflow
    \/ \E p \in Times, c \in Cycles : WriteCycles(p, c) \/ IsrRearm(p, c)
    \/ Clock \/ IsrCount \/ IsrTimeout

Spec == Init /\ [][Next]_vars

Rearm == \E p \in Times, c \in Cycles : IsrRearm(p, c)

\* the counter counts, a call in progress goes on, and interrupts are on
\* again and again
FairSpec ==
    /\ Spec
    /\ WF_vars(Clock) /\ SF_vars(IsrCount) /\ SF_vars(IsrTimeout \/ Rearm)
    /\ WF_vars(StopZero) /\ WF_vars(Write) /\ WF_vars(ReadOverflow)
    /\ WF_vars(\E p \in Times, c \in Cycles : WriteCycles(p, c))

-----------------------------------------------------------------------------
(* Properties.                                                             *)

TimType == [tie : BOOLEAN, en : BOOLEAN, cnt : Nat, pr : Nat, pend : BOOLEAN]

TimerType == [mode : {"oneshot", "period"}, div : Divs, overflow : Nat,
              cycles : Nat, reload : Nat, period : Nat]

\* Registers within their 32 bits; what the call in progress has found.
TypeOK ==
    /\ open \in BOOLEAN /\ armed \in BOOLEAN /\ mixed \in BOOLEAN
    /\ tim \in TimType /\ tim.cnt < W /\ tim.pr < W
    /\ timer \in TimerType
    /\ pc \in {"idle", "read", "stop", "zero", "clear"}
           \cup {"cycles", "reload", "period", "opm", "count", "load", "enable"}
    /\ w \in [time : Times, cycles : Nat]
    /\ asked \in [time : Times, cycles : Nat, div : Divs]
    /\ opm \in {"oneshot", "period"}
    /\ got \in Nat /\ gotAge \in Nat /\ age \in Nat /\ calls \in Nat

\* The overflows the interrupt has counted, the one that is pending and the
\* counter add up to the clocks since the timer was started, and the counter
\* does not pass TMRxPR and miss its overflow, whatever was stopped, written
\* again or reconfigured before, by the thread or by a callback. Not so if the
\* time is mixed: timer_stop leaves an overflow pending, which counts towards
\* the new time from hwtimer.c:189 on, and a callback may write in the midst of
\* a thread's write.
CountsTime ==
    tim.en /\ ~mixed =>
        /\ (timer.overflow + (IF tim.pend THEN 1 ELSE 0)) * (tim.pr + 1) + tim.cnt
              = age
        /\ tim.cnt <= tim.pr

\* rx_indicate is called once for every reload overflows, neither sooner nor
\* later, also if the mode is changed while the time runs; if the time is
\* not mixed.
CallsExact ==
    armed /\ ~mixed =>
        timer.overflow =
            IF timer.reload = 0 THEN calls
            ELSE calls * timer.reload + (timer.reload - timer.cycles)

\* After a successful write the timer runs until it is stopped or closed, or
\* a single time is over; and only then. What runs is what the last write
\* asked for, the thread's or a callback's, unless the two were mixed.
WrittenRuns ==
    /\ armed <=> tim.en
    /\ armed /\ ~mixed =>
        /\ timer.reload = asked.cycles /\ timer.period = asked.time * asked.div
        /\ tim.pr = Compare(asked.time, asked.div)

\* TMRxPR holds the period: the product of timer_start did not wrap around.
Fits == Ticks(asked.time) * asked.div <= W

\* The two parts of a read, the counter and the overflows, are of one moment.
\* In parts of a clock, the time it returns is behind by less than a period
\* (an overflow was pending) and a tick; as period_sec is not rounded to
\* whole ticks and TMRxPR is, it may be ahead by less than a tick for every
\* overflow.
ReadWithinPeriod ==
    pc = "read" /\ tim.en /\ ~mixed /\ Fits =>
        LET v == timer.overflow * timer.period + got * Parts
        IN  /\ v <= gotAge * Parts + timer.overflow * ((Parts - 1) * asked.div)
            /\ gotAge * Parts - v < timer.period + timer.div * Parts

\* A time that was written is over some time, unless the timer is stopped,
\* closed or written again before.
TimesOut ==
    \/ []<>(~armed \/ calls > 0)
    \/ []<><<Rearm>>_vars
=============================================================================
