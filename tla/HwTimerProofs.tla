--------------------------- MODULE HwTimerProofs ---------------------------
(***************************************************************************)
(* HwTimer for periods and times of any length: unless a time is mixed,    *)
(* what the interrupt has counted is the time that has passed, the         *)
(* callback is called exactly when it is due, what was written runs, and a *)
(* read is of one moment.                                                  *)
(***************************************************************************)
EXTENDS HwTimer, TLAPS

\* What the stores of rt_hwtimer_write have left behind them, if nothing was
\* mixed into the time.
Stored ==
    /\ pc \notin {"idle", "read"} => ~tim.en
    /\ Starting => timer.overflow = 0 /\ calls = 0
    /\ Starting /\ pc # "cycles" => timer.cycles = w.cycles
    /\ Starting /\ pc \notin {"cycles", "reload"} => timer.reload = w.cycles
    /\ pc \in {"opm", "count", "load", "enable"} => timer.period = w.time * timer.div
    /\ pc \in {"load", "enable"} => tim.cnt = 0
    /\ pc = "enable" => tim.pr = Compare(w.time, timer.div)

\* the callbacks and the overflows within the present time make up overflow
Exact ==
    /\ timer.cycles = 0 <=> timer.reload = 0
    /\ timer.overflow = IF timer.reload = 0 THEN calls
                        ELSE calls * timer.reload + (timer.reload - timer.cycles)

ExactCalls == armed /\ ~mixed => Exact

IInv ==
    /\ TypeOK /\ (~mixed => Stored)
    /\ CountsTime /\ ExactCalls /\ WrittenRuns /\ ReadWithinPeriod

-----------------------------------------------------------------------------
(* Arithmetic.                                                             *)

\* One more period.
LEMMA OneMore == ASSUME NEW a \in Nat, NEW p \in Nat PROVE (a + 1) * p = a * p + p
OBVIOUS

\* The product of two numbers, of which the second becomes larger.
LEMMA Larger ==
    ASSUME NEW a \in Nat, NEW p \in Nat, NEW q \in Nat, p <= q
    PROVE  a * p \in Nat /\ a * q \in Nat /\ a * p <= a * q
OBVIOUS

\* A product of three numbers.
LEMMA Thrice ==
    ASSUME NEW a \in Nat, NEW b \in Nat, NEW c \in Nat
    PROVE  a * b \in Nat /\ b * c \in Nat /\ a * (b * c) = (a * b) * c
OBVIOUS

\* A product with a sum.
LEMMA Spread ==
    ASSUME NEW a \in Nat, NEW b \in Nat, NEW c \in Nat
    PROVE  /\ a * b \in Nat /\ a * c \in Nat /\ a * (b + c) = a * b + a * c
           /\ (b + c) * a = b * a + c * a /\ b * a = a * b
OBVIOUS

\* A count in whole ticks is behind by less than a tick.
LEMMA WholeTicks ==
    ASSUME NEW c \in Nat, NEW d \in Nat \ {0}
    PROVE  /\ (c \div d) \in Nat /\ (c \div d) * d \in Nat /\ (c \div d) * d <= c
           /\ c < (c \div d) * d + d
OBVIOUS

\* The registers hold W values.
LEMMA InRegister == ASSUME NEW x \in Int PROVE x % W \in Nat /\ x % W < W
BY HwTimerAssumption

\* TMRxPR holds a period that fits.
LEMMA CompareFits ==
    ASSUME NEW p \in Times, NEW k \in Divs
    PROVE  /\ p \in Nat /\ k \in Nat \ {0} /\ Ticks(p) \in Nat \ {0}
           /\ Ticks(p) * k \in Nat
           /\ Compare(p, k) \in Nat /\ Compare(p, k) < W
           /\ Ticks(p) * k <= W => Compare(p, k) + 1 = Ticks(p) * k
<1>1. /\ W \in Nat \ {0} /\ Parts \in Nat \ {0} /\ p \in Nat /\ p >= Parts
      /\ k \in Nat \ {0}
  BY HwTimerAssumption
<1>2. Ticks(p) \in Nat \ {0}
  BY <1>1 DEF Ticks
<1> DEFINE n == Ticks(p) * k
<1>3. n \in Nat /\ n >= 1
  BY <1>1, <1>2
<1>4. Compare(p, k) = (n - 1) % W
  BY DEF Compare
<1> HIDE DEF n
<1>5. Compare(p, k) \in Nat /\ Compare(p, k) < W
  BY <1>3, <1>4, InRegister
<1>6. n <= W => (n - 1) % W = n - 1
  BY <1>1, <1>3
<1> QED BY <1>1, <1>2, <1>3, <1>4, <1>5, <1>6 DEF n

-----------------------------------------------------------------------------
(* The records, field by field.                                            *)

TimIs(x, tie, en, cnt, pr, pend) ==
    /\ x \in TimType /\ (x.tie <=> tie) /\ (x.en <=> en)
    /\ x.cnt = cnt /\ x.pr = pr /\ (x.pend <=> pend)

TimerIs(x, mode, div, overflow, cycles, reload, period) ==
    /\ x \in TimerType /\ x.mode = mode /\ x.div = div
    /\ x.overflow = overflow /\ x.cycles = cycles
    /\ x.reload = reload /\ x.period = period

\* The fields one by one.
LEMMA Fields ==
    ASSUME TypeOK
    PROVE  /\ tim \in TimType /\ timer \in TimerType
           /\ tim.tie \in BOOLEAN /\ tim.en \in BOOLEAN /\ tim.pend \in BOOLEAN
           /\ tim.cnt \in Nat /\ tim.pr \in Nat
           /\ timer.mode \in {"oneshot", "period"}
           /\ timer.div \in Divs /\ timer.div \in Nat \ {0}
           /\ timer.overflow \in Nat /\ timer.cycles \in Nat
           /\ timer.reload \in Nat /\ timer.period \in Nat
           /\ w.time \in Times /\ w.time \in Nat /\ w.cycles \in Nat
           /\ asked.time \in Times /\ asked.cycles \in Nat /\ asked.div \in Divs
           /\ W \in Nat \ {0} /\ Parts \in Nat \ {0}
BY HwTimerAssumption DEF TypeOK, TimType, TimerType

\* the writes of TMRxCON, TMRxCNT and TMRxPR
LEMMA RegistersWritten ==
    ASSUME NEW x \in TimType, NEW b \in BOOLEAN, NEW c \in BOOLEAN, NEW n \in Nat
    PROVE  /\ TimIs([x EXCEPT !.tie = b, !.en = c], b, c, x.cnt, x.pr, x.pend)
           /\ TimIs([x EXCEPT !.en = c], x.tie, c, x.cnt, x.pr, x.pend)
           /\ TimIs([x EXCEPT !.pend = c], x.tie, x.en, x.cnt, x.pr, c)
           /\ TimIs([x EXCEPT !.cnt = n], x.tie, x.en, n, x.pr, x.pend)
           /\ TimIs([x EXCEPT !.pr = n], x.tie, x.en, x.cnt, n, x.pend)
           /\ TimIs([x EXCEPT !.cnt = 0, !.pend = TRUE], x.tie, x.en, 0, x.pr, TRUE)
           /\ TimIs([x EXCEPT !.pend = FALSE, !.cnt = 0, !.pr = n, !.en = c],
                    x.tie, c, 0, n, FALSE)
           /\ TimIs(Stopped(x), x.tie, FALSE, 0, x.pr, x.pend)
BY DEF TimType, TimIs, Stopped

\* the fields the device writes
LEMMA FieldsWritten ==
    ASSUME NEW x \in TimerType, NEW c \in Nat, NEW o \in Nat, NEW p \in Nat,
           NEW k \in Divs
    PROVE  /\ TimerIs([x EXCEPT !.overflow = o, !.cycles = c],
                      x.mode, x.div, o, c, x.reload, x.period)
           /\ TimerIs([x EXCEPT !.overflow = o],
                      x.mode, x.div, o, x.cycles, x.reload, x.period)
           /\ TimerIs([x EXCEPT !.cycles = c],
                      x.mode, x.div, x.overflow, c, x.reload, x.period)
           /\ TimerIs([x EXCEPT !.reload = c],
                      x.mode, x.div, x.overflow, x.cycles, c, x.period)
           /\ TimerIs([x EXCEPT !.period = p],
                      x.mode, x.div, x.overflow, x.cycles, x.reload, p)
           /\ TimerIs([x EXCEPT !.mode = "oneshot", !.div = k, !.cycles = 0,
                                !.overflow = 0],
                      "oneshot", k, 0, 0, x.reload, x.period)
           /\ TimerIs([x EXCEPT !.overflow = 0, !.cycles = c, !.reload = c,
                                !.period = p],
                      x.mode, x.div, 0, c, c, p)
BY DEF TimerType, TimerIs

\* the fields the control commands write
LEMMA ControlWritten ==
    ASSUME NEW x \in TimerType, NEW k \in Divs, NEW m \in {"oneshot", "period"}
    PROVE  /\ TimerIs([x EXCEPT !.mode = m],
                      m, x.div, x.overflow, x.cycles, x.reload, x.period)
           /\ TimerIs([x EXCEPT !.div = k],
                      x.mode, k, x.overflow, x.cycles, x.reload, x.period)
BY DEF TimerType, TimerIs

-----------------------------------------------------------------------------
(* The invariant.                                                          *)

\* The device as it is registered.
LEMMA InitIInv == Init => IInv
<1> SUFFICES ASSUME Init PROVE IInv
  OBVIOUS
<1>1. PICK k \in Divs :
        /\ timer = [mode |-> "oneshot", div |-> k, overflow |-> 0, cycles |-> 0,
                    reload |-> 0, period |-> 0]
        /\ asked = [time |-> Parts, cycles |-> 0, div |-> k]
  BY DEF Init
<1>2. W \in Nat \ {0} /\ Parts \in Times
  BY HwTimerAssumption
<1>3. tim \in TimType /\ tim.cnt = 0 /\ tim.pr = 0 /\ ~tim.en
  BY DEF Init, TimType
<1>4. timer \in TimerType /\ asked \in [time : Times, cycles : Nat, div : Divs]
  BY <1>1, <1>2 DEF TimerType
<1>5. TypeOK
  <2>1. /\ open \in BOOLEAN /\ armed \in BOOLEAN /\ mixed \in BOOLEAN
        /\ opm \in {"oneshot", "period"} /\ w \in [time : Times, cycles : Nat]
    BY <1>2 DEF Init, Unset
  <2>2. got \in Nat /\ gotAge \in Nat /\ age \in Nat /\ calls \in Nat /\ pc = "idle"
    BY DEF Init
  <2> QED BY <1>2, <1>3, <1>4, <2>1, <2>2 DEF TypeOK
<1> QED
  BY <1>3, <1>5 DEF Init, IInv, Stored, Starting, CountsTime, ExactCalls, WrittenRuns,
                    ReadWithinPeriod

\* A step that leaves the counter stopped.
LEMMA AtRest ==
    ASSUME TypeOK', ~tim'.en, ~armed', ~mixed' => Stored'
    PROVE  IInv'
BY DEF IInv, CountsTime, ExactCalls, WrittenRuns, ReadWithinPeriod

\* A step of the thread within a call: what runs was mixed into it.
LEMMA InCall ==
    ASSUME IInv, TypeOK', tim'.en = tim.en, UNCHANGED <<armed, mixed>>,
           pc \notin {"idle", "read"}, pc' # "read", ~mixed' => Stored'
    PROVE  IInv'
<1>1. /\ WrittenRuns /\ (~mixed => ~tim.en)
      /\ tim.en \in BOOLEAN /\ armed \in BOOLEAN /\ mixed \in BOOLEAN
  BY Fields DEF IInv, Stored, TypeOK
<1>2. /\ (armed' <=> tim'.en) /\ (~mixed' => ~tim'.en /\ ~armed')
  BY <1>1 DEF WrittenRuns
<1> QED
  BY <1>2 DEF IInv, CountsTime, ExactCalls, WrittenRuns, ReadWithinPeriod

\* Open and Close.
LEMMA OpenCloseKeep == ASSUME IInv, Open \/ Close PROVE IInv'
<1>1. TypeOK
  BY DEF IInv
<1>2. CASE Open
  <2>1. PICK k \in Divs :
          timer' = [timer EXCEPT !.mode = "oneshot", !.div = k, !.cycles = 0,
                                 !.overflow = 0]
    BY <1>2 DEF Open
  <2>2. TimerIs(timer', "oneshot", k, 0, 0, timer.reload, timer.period)
    BY <2>1, <1>1, Fields, FieldsWritten
  <2>3. TimIs(tim', TRUE, FALSE, tim.cnt, tim.pr, tim.pend)
    BY <1>1, <1>2, Fields, RegistersWritten DEF Open
  <2>4. /\ pc' = "idle" /\ open' = TRUE /\ calls' = 0 /\ armed' = FALSE /\ age' = 0
        /\ UNCHANGED <<locals, asked, mixed>>
    BY <1>2 DEF Open
  <2>5. TypeOK'
    BY <1>1, <2>2, <2>3, <2>4 DEF TypeOK, TimIs, TimerIs, locals
  <2> QED BY <2>3, <2>4, <2>5, AtRest DEF TimIs, Stored, Starting
<1>3. CASE Close
  <2>1. TimIs(tim', FALSE, FALSE, tim.cnt, tim.pr, tim.pend)
    BY <1>1, <1>3, Fields, RegistersWritten DEF Close
  <2>2. /\ pc' = "idle" /\ open' = FALSE /\ armed' = FALSE /\ age' = 0
        /\ UNCHANGED <<timer, locals, calls, asked, mixed>>
    BY <1>3 DEF Close
  <2>3. TypeOK'
    BY <1>1, <2>1, <2>2 DEF TypeOK, TimIs, locals
  <2> QED BY <2>1, <2>2, <2>3, AtRest DEF TimIs, Stored, Starting
<1> QED BY <1>2, <1>3

\* Stop and WriteStop give up the time that runs.
LEMMA StopsKeep == ASSUME IInv, Stop \/ WriteStop PROVE IInv'
<1>1. TypeOK
  BY DEF IInv
<1>2. TimIs(tim', tim.tie, FALSE, tim.cnt, tim.pr, tim.pend)
  BY <1>1, Fields, RegistersWritten DEF Stop, WriteStop
<1>3. /\ pc' \in {"stop", "zero"} /\ armed' = FALSE /\ age' = 0
      /\ mixed' \in {FALSE, mixed} /\ UNCHANGED <<open, timer, locals, calls, asked>>
  BY DEF Stop, WriteStop
<1>4. TypeOK'
  BY <1>1, <1>2, <1>3 DEF TypeOK, TimIs, locals
<1>5. ~tim'.en /\ ~armed' /\ Stored'
  BY <1>2, <1>3 DEF TimIs, Stored, Starting
<1> QED BY <1>4, <1>5, AtRest

\* Configure changes neither what is counted nor what runs.
LEMMA ConfigureKeeps == ASSUME IInv, Configure PROVE IInv'
<1>1. TypeOK /\ CountsTime /\ ExactCalls /\ WrittenRuns
  BY DEF IInv
<1>2. /\ timer' \in TimerType /\ timer'.overflow = timer.overflow
      /\ timer'.cycles = timer.cycles /\ timer'.reload = timer.reload
      /\ timer'.period = timer.period
  <2>1. CASE \E m \in {"oneshot", "period"} : timer' = [timer EXCEPT !.mode = m]
    <3>1. PICK m \in {"oneshot", "period"} : timer' = [timer EXCEPT !.mode = m]
      BY <2>1
    <3>2. TimerIs([timer EXCEPT !.mode = m], m, timer.div, timer.overflow,
                  timer.cycles, timer.reload, timer.period)
      BY <1>1, Fields, ControlWritten
    <3> QED BY <3>1, <3>2 DEF TimerIs
  <2>2. CASE \E k \in Divs : timer' = [timer EXCEPT !.div = k]
    <3>1. PICK k \in Divs : timer' = [timer EXCEPT !.div = k]
      BY <2>2
    <3>2. TimerIs([timer EXCEPT !.div = k], timer.mode, k, timer.overflow, timer.cycles,
                  timer.reload, timer.period)
      BY <1>1, Fields, ControlWritten
    <3> QED BY <3>1, <3>2 DEF TimerIs
  <2> QED BY <2>1, <2>2 DEF Configure
<1>3. /\ pc = "idle" /\ pc' = pc /\ UNCHANGED <<open, tim, w, opm, got, gotAge>>
      /\ UNCHANGED <<age, calls, armed, asked, mixed>>
  BY DEF Configure, locals, history
<1>4. TypeOK'
  BY <1>1, <1>2, <1>3 DEF TypeOK
<1>5. Stored' /\ ReadWithinPeriod'
  BY <1>3 DEF Stored, Starting, ReadWithinPeriod
<1>6. CountsTime' /\ ExactCalls'
  BY <1>1, <1>2, <1>3 DEF CountsTime, ExactCalls, Exact
<1>7. WrittenRuns'
  BY <1>1, <1>2, <1>3 DEF WrittenRuns, Compare, Ticks
<1> QED BY <1>4, <1>5, <1>6, <1>7 DEF IInv

\* The stores to TMRxCNT and TMRxPR.
LEMMA CounterStoresKeep ==
    ASSUME IInv, StopZero \/ WriteZero \/ WriteCount \/ WriteLoad PROVE IInv'
<1>1. TypeOK /\ (~mixed => Stored)
  BY DEF IInv
<1>2. /\ UNCHANGED <<open, timer, got, gotAge, age, calls, armed, asked, mixed>>
      /\ w' \in [time : Times, cycles : Nat] /\ opm' \in {"oneshot", "period"}
      /\ pc' # "idle" => w' = w
      /\ pc' \in {"idle", "clear", "load", "enable"}
  <2>1. Unset \in [time : Times, cycles : Nat]
    BY HwTimerAssumption DEF Unset
  <2>2. w \in [time : Times, cycles : Nat] /\ opm \in {"oneshot", "period"}
    BY <1>1 DEF TypeOK
  <2> QED
    BY <2>1, <2>2 DEF StopZero, WriteZero, WriteCount, WriteLoad, Returns, locals, history
<1>3. pc \in {"stop", "zero", "count", "load"}
  BY DEF StopZero, WriteZero, WriteCount, WriteLoad
<1>4. CASE StopZero \/ WriteZero \/ WriteCount
  <2>1. TimIs(tim', tim.tie, tim.en, 0, tim.pr, tim.pend)
    <3>1. tim' = [tim EXCEPT !.cnt = 0]
      BY <1>4 DEF StopZero, WriteZero, WriteCount
    <3>2. ASSUME NEW n \in Nat
          PROVE  TimIs([tim EXCEPT !.cnt = n], tim.tie, tim.en, n, tim.pr, tim.pend)
      BY <1>1, Fields, RegistersWritten
    <3> QED BY <3>1, <3>2
  <2>2. /\ tim' \in TimType /\ tim'.en = tim.en /\ tim'.cnt = 0 /\ tim'.pr = tim.pr
        /\ tim'.pend = tim.pend
    BY <1>1, <2>1, Fields DEF TimIs, TimType
  <2>3. TypeOK'
    BY <1>1, <1>2, <2>2, HwTimerAssumption DEF TypeOK
  <2>4. /\ pc' \in {"idle", "clear", "load"} /\ (pc' = "load" => pc = "count")
    BY <1>4 DEF StopZero, WriteZero, WriteCount
  <2>5. ~mixed' => Stored'
    BY <1>1, <1>2, <1>3, <2>2, <2>4 DEF Stored, Starting
  <2> QED BY <1>2, <1>3, <2>2, <2>3, <2>4, <2>5, InCall
<1>5. CASE WriteLoad
  <2>1. Compare(w.time, timer.div) \in Nat /\ Compare(w.time, timer.div) < W
    BY <1>1, Fields, CompareFits
  <2>2. TimIs(tim', tim.tie, tim.en, tim.cnt, Compare(w.time, timer.div), tim.pend)
    BY <1>1, <1>5, <2>1, Fields, RegistersWritten DEF WriteLoad
  <2>3. /\ tim' \in TimType /\ tim'.en = tim.en /\ tim'.cnt = tim.cnt
        /\ tim'.pr = Compare(w.time, timer.div)
    BY <1>1, <2>2, Fields DEF TimIs, TimType
  <2>4. TypeOK'
    BY <1>1, <1>2, <2>1, <2>3 DEF TypeOK
  <2>5. pc = "load" /\ pc' \in {"idle", "enable"}
    BY <1>5 DEF WriteLoad
  <2>6. ~mixed' => Stored'
    <3>1. Compare(w.time, timer.div)' = Compare(w'.time, timer'.div)
      BY DEF Compare, Ticks
    <3>2. pc' = "enable" => tim'.pr = Compare(w'.time, timer'.div)
      BY <1>2, <2>3
    <3> QED BY <1>1, <1>2, <2>3, <2>5, <3>1, <3>2 DEF Stored, Starting
  <2> QED BY <1>2, <1>3, <2>3, <2>4, <2>5, <2>6, InCall
<1> QED BY <1>4, <1>5

\* The stores to the device's fields.
LEMMA FieldStoresKeep ==
    ASSUME IInv, WriteClear \/ WriteReload \/ WritePeriod \/ WriteOpm PROVE IInv'
<1>1. TypeOK /\ (~mixed => Stored)
  BY DEF IInv
<1>2. /\ UNCHANGED <<open, tim, w, got, gotAge, age, armed, asked, mixed>>
      /\ calls' \in {0, calls} /\ opm' \in {"oneshot", "period"}
  BY <1>1 DEF WriteClear, WriteReload, WritePeriod, WriteOpm, Opmode, locals, history,
              device, TypeOK
<1>3. w.time * timer.div \in Nat
  BY <1>1, Fields
<1>4. CASE WriteClear
  <2>1. TimerIs(timer', timer.mode, timer.div, 0, timer.cycles, timer.reload, timer.period)
    BY <1>1, <1>4, Fields, FieldsWritten DEF WriteClear
  <2>2. pc = "clear" /\ pc' = "cycles" /\ calls' = 0
    BY <1>4 DEF WriteClear
  <2>3. TypeOK'
    BY <1>1, <1>2, <2>1, <2>2 DEF TypeOK, TimerIs
  <2>4. ~mixed' => Stored'
    BY <1>1, <1>2, <2>1, <2>2 DEF Stored, Starting, TimerIs
  <2> QED BY <1>2, <2>2, <2>3, <2>4, InCall
<1>5. CASE WriteReload
  <2>1. TimerIs(timer', timer.mode, timer.div, timer.overflow, timer.cycles, w.cycles,
                timer.period)
    BY <1>1, <1>5, Fields, FieldsWritten DEF WriteReload
  <2>2. pc = "reload" /\ pc' = "period" /\ calls' = calls
    BY <1>5 DEF WriteReload, history
  <2>3. TypeOK'
    BY <1>1, <1>2, <2>1, <2>2 DEF TypeOK, TimerIs
  <2>4. ~mixed' => Stored'
    BY <1>1, <1>2, <2>1, <2>2 DEF Stored, Starting, TimerIs
  <2> QED BY <1>2, <2>2, <2>3, <2>4, InCall
<1>6. CASE WritePeriod
  <2>1. TimerIs(timer', timer.mode, timer.div, timer.overflow, timer.cycles,
                timer.reload, w.time * timer.div)
    BY <1>1, <1>3, <1>6, Fields, FieldsWritten DEF WritePeriod
  <2>2. pc = "period" /\ pc' = "opm" /\ calls' = calls
    BY <1>6 DEF WritePeriod, history
  <2>3. TypeOK'
    BY <1>1, <1>2, <2>1, <2>2 DEF TypeOK, TimerIs
  <2>4. timer'.period = w'.time * timer'.div
    BY <1>2, <2>1 DEF TimerIs
  <2>5. ~mixed' => Stored'
    BY <1>1, <1>2, <2>1, <2>2, <2>4 DEF Stored, Starting, TimerIs
  <2> QED BY <1>2, <2>2, <2>3, <2>5, InCall
<1>7. CASE WriteOpm
  <2>1. pc = "opm" /\ pc' = "count" /\ calls' = calls /\ timer' = timer
    BY <1>7 DEF WriteOpm, history, device
  <2>2. TypeOK'
    BY <1>1, <1>2, <2>1 DEF TypeOK
  <2>3. ~mixed' => Stored'
    BY <1>1, <1>2, <2>1 DEF Stored, Starting
  <2> QED BY <1>2, <2>1, <2>2, <2>3, InCall
<1> QED BY <1>4, <1>5, <1>6, <1>7

\* timeout_calc finds a time and stores its periods.
LEMMA CyclesKeep ==
    ASSUME IInv, NEW p \in Times, NEW c \in Cycles, WriteCycles(p, c) PROVE IInv'
<1>1. TypeOK /\ (~mixed => Stored) /\ c \in Nat
  BY HwTimerAssumption DEF IInv
<1>2. /\ UNCHANGED <<open, tim, opm, got, gotAge, age, calls, armed, asked, mixed>>
      /\ pc = "cycles" /\ pc' = "reload" /\ w' = [time |-> p, cycles |-> c]
  BY DEF WriteCycles, history
<1>3. TimerIs(timer', timer.mode, timer.div, timer.overflow, c, timer.reload, timer.period)
  BY <1>1, Fields, FieldsWritten DEF WriteCycles
<1>4. TypeOK'
  BY <1>1, <1>2, <1>3 DEF TypeOK, TimerIs
<1>5. ~mixed' => Stored'
  BY <1>1, <1>2, <1>3 DEF Stored, Starting, TimerIs
<1> QED BY <1>2, <1>4, <1>5, InCall

\* WriteEnable starts the counter that was loaded.
LEMMA EnableKeeps == ASSUME IInv, WriteEnable PROVE IInv'
<1>1. TypeOK /\ (~mixed => Stored)
  BY DEF IInv
<1>2. TimIs(tim', tim.tie, TRUE, tim.cnt, tim.pr, tim.pend)
  BY <1>1, Fields, RegistersWritten DEF WriteEnable
<1>3. /\ pc = "enable" /\ pc' = "idle" /\ age' = 0 /\ armed' = TRUE
      /\ mixed' = (mixed \/ tim.pend)
      /\ asked' = [time |-> w.time, cycles |-> w.cycles, div |-> timer.div]
      /\ w' = Unset /\ opm' = "period"
      /\ UNCHANGED <<open, timer, got, gotAge, calls>>
  BY DEF WriteEnable, Returns
<1>4. /\ tim' \in TimType /\ tim'.en /\ tim'.cnt = tim.cnt /\ tim'.pr = tim.pr
      /\ (tim'.pend <=> tim.pend)
  BY <1>2 DEF TimIs
<1>5. mixed' \in BOOLEAN /\ (~mixed' => ~mixed /\ ~tim.pend)
  BY <1>3, Zenon
<1>6. TypeOK'
  <2>1. Unset \in [time : Times, cycles : Nat]
    BY HwTimerAssumption DEF Unset
  <2>2. asked' \in [time : Times, cycles : Nat, div : Divs]
    BY <1>1, <1>3, Fields
  <2> QED BY <1>1, <1>3, <1>4, <1>5, <2>1, <2>2 DEF TypeOK
<1>7. Stored'
  BY <1>3 DEF Stored, Starting
<1>8. ASSUME ~mixed'
      PROVE  /\ timer.overflow = 0 /\ calls = 0 /\ timer.cycles = w.cycles
             /\ timer.reload = w.cycles /\ timer.period = w.time * timer.div
             /\ tim.cnt = 0 /\ tim.pr = Compare(w.time, timer.div) /\ ~tim.pend
  BY <1>1, <1>3, <1>5, <1>8 DEF Stored, Starting
<1>9. CountsTime'
  <2>1. ~mixed' => /\ (0 + 0) * (tim.pr + 1) + 0 = 0 /\ 0 <= tim.pr
                   /\ tim'.cnt = 0 /\ ~tim'.pend /\ timer'.overflow = 0
    BY <1>1, <1>3, <1>4, <1>8, Fields
  <2> QED BY <1>3, <1>4, <2>1 DEF CountsTime
<1>10. ExactCalls'
  <2> SUFFICES ASSUME ~mixed' PROVE Exact'
    BY DEF ExactCalls
  <2>1. /\ timer.overflow = 0 /\ calls = 0 /\ timer.cycles = timer.reload
        /\ timer.reload \in Nat
    BY <1>1, <1>8, Fields
  <2>2. 0 * timer.reload = 0 /\ timer.reload - timer.reload = 0
    BY <2>1
  <2> QED BY <1>3, <2>1, <2>2 DEF Exact
<1>11. WrittenRuns'
  <2>1. ~mixed' => tim'.pr = Compare(asked'.time, asked'.div)
    BY <1>3, <1>4, <1>8
  <2>2. ~mixed' => /\ timer'.reload = asked'.cycles
                   /\ timer'.period = asked'.time * asked'.div
    BY <1>3, <1>8
  <2>3. Compare(asked.time, asked.div)' = Compare(asked'.time, asked'.div)
    BY DEF Compare, Ticks
  <2> QED BY <1>3, <1>4, <2>1, <2>2, <2>3 DEF WrittenRuns
<1> QED BY <1>3, <1>6, <1>7, <1>9, <1>10, <1>11 DEF IInv, ReadWithinPeriod

\* A read of the counter: what it will return is of this moment.
LEMMA ReadKeeps == ASSUME IInv, ReadCount PROVE IInv'
<1>1. /\ TypeOK /\ (~mixed => Stored) /\ CountsTime /\ ExactCalls /\ WrittenRuns
  BY DEF IInv
<1>2. /\ UNCHANGED <<open, tim, timer, w, opm, age, calls, armed, asked, mixed>>
      /\ pc = "idle" /\ pc' = "read" /\ gotAge' = age
      /\ got' = (tim.cnt \div timer.div) * timer.div
  BY DEF ReadCount, device, history
<1>3. /\ got' \in Nat /\ got' <= tim.cnt /\ tim.cnt < got' + timer.div
  BY <1>1, <1>2, Fields, WholeTicks
<1>4. TypeOK'
  BY <1>1, <1>2, <1>3 DEF TypeOK
<1>5. Stored' /\ CountsTime' /\ ExactCalls' /\ WrittenRuns'
  BY <1>1, <1>2 DEF Stored, Starting, CountsTime, ExactCalls, Exact, WrittenRuns,
                    Compare, Ticks
<1>6. ReadWithinPeriod'
  <2> SUFFICES ASSUME tim.en, ~mixed, Fits
               PROVE  LET v == timer.overflow * timer.period + got' * Parts
                      IN  /\ v <= age * Parts
                               + timer.overflow * ((Parts - 1) * asked.div)
                          /\ age * Parts - v < timer.period + timer.div * Parts
    BY <1>2 DEF ReadWithinPeriod, Fits, Ticks
  <2> DEFINE o == timer.overflow   q == Ticks(asked.time)   D == asked.div
             r == asked.time % Parts
             P == q * D            e == IF tim.pend THEN 1 ELSE 0
  <2>1. /\ o \in Nat /\ D \in Nat \ {0} /\ Parts \in Nat \ {0} /\ q \in Nat \ {0}
        /\ P \in Nat /\ tim.cnt \in Nat /\ timer.div \in Nat \ {0} /\ e \in {0, 1}
        /\ asked.time \in Nat
    BY <1>1, Fields, CompareFits
  <2>2. /\ tim.pr + 1 = P /\ timer.period = asked.time * D
    <3>1. armed
      BY <1>1 DEF WrittenRuns
    <3>2. Compare(asked.time, asked.div) + 1 = P
      BY <1>1, Fields, CompareFits DEF Fits
    <3> QED BY <1>1, <3>1, <3>2 DEF WrittenRuns
  <2>3. (o + e) * P + tim.cnt = age
    BY <1>1, <2>2 DEF CountsTime
  <2>4. /\ r \in Nat /\ r <= Parts - 1 /\ asked.time = q * Parts + r
    BY <2>1 DEF Ticks
  <2> HIDE DEF o, q, D, r, P, e
  <2>5. /\ P * Parts \in Nat /\ r * D \in Nat /\ (Parts - 1) * D \in Nat
        /\ timer.period = P * Parts + r * D /\ r * D <= (Parts - 1) * D
    <3>1. q * Parts \in Nat /\ timer.period = (q * Parts) * D + r * D
      BY <2>1, <2>2, <2>4, Spread
    <3>2. (q * Parts) * D = P * Parts
      <4>1. q * (Parts * D) = (q * Parts) * D /\ q * (D * Parts) = (q * D) * Parts
        BY <2>1, Thrice
      <4>2. Parts * D = D * Parts
        BY <2>1, Spread
      <4> QED BY <4>1, <4>2 DEF P
    <3>3. D * r <= D * (Parts - 1) /\ Parts - 1 \in Nat
      BY <2>1, <2>4, Larger
    <3> QED BY <2>1, <2>4, <3>1, <3>2, <3>3, Spread
  <2>6. /\ o * (P * Parts) \in Nat /\ o * (r * D) \in Nat
        /\ o * timer.period = o * (P * Parts) + o * (r * D)
        /\ o * (r * D) <= o * ((Parts - 1) * D)
    BY <2>1, <2>5, Spread, Larger
  <2>7. age * Parts = o * (P * Parts) + e * (P * Parts) + tim.cnt * Parts
    <3>1. (o + e) * P \in Nat /\ (o + e) * P = o * P + e * P /\ o * P \in Nat
          /\ e * P \in Nat
      BY <2>1, Spread
    <3>2. age * Parts = ((o + e) * P) * Parts + tim.cnt * Parts
      BY <2>1, <2>3, <3>1, Spread
    <3>3. ((o + e) * P) * Parts = (o * P) * Parts + (e * P) * Parts
      BY <2>1, <3>1, Spread
    <3>4. (o * P) * Parts = o * (P * Parts) /\ (e * P) * Parts = e * (P * Parts)
      BY <2>1, Thrice
    <3> QED BY <3>2, <3>3, <3>4
  <2>8. /\ got' * Parts \in Nat /\ tim.cnt * Parts \in Nat /\ timer.div * Parts \in Nat
        /\ got' * Parts <= tim.cnt * Parts
        /\ tim.cnt * Parts < got' * Parts + timer.div * Parts
    <3> DEFINE d == tim.cnt - got'   f == timer.div - d
    <3>1. d \in Nat /\ tim.cnt = got' + d /\ f \in Nat \ {0} /\ timer.div = d + f
      BY <1>3, <2>1
    <3> HIDE DEF d, f
    <3>2. /\ got' \in Nat /\ d \in Nat /\ Parts \in Nat
          /\ tim.cnt * Parts = (got' + d) * Parts
      BY <1>3, <2>1, <3>1
    <3>5. (got' + d) * Parts = got' * Parts + d * Parts
      BY <3>2, Spread
    <3>6. d * Parts \in Nat /\ got' * Parts \in Nat
      BY <3>2, Spread
    <3>3. timer.div * Parts = d * Parts + f * Parts
      BY <2>1, <3>1, Spread
    <3>4. f * Parts \in Nat /\ f * Parts > 0
      BY <2>1, <3>1
    <3> DEFINE A == got' * Parts   B == d * Parts   C == f * Parts
               S == tim.cnt * Parts   L == timer.div * Parts
    <3>7. /\ A \in Nat /\ B \in Nat /\ C \in Nat /\ C > 0 /\ S = A + B /\ L = B + C
      BY <3>2, <3>3, <3>4, <3>5, <3>6
    <3>8. S \in Nat /\ L \in Nat /\ A <= S /\ S < A + L
      <4> HIDE DEF A, B, C, S, L
      <4> QED BY <3>7
    <3> QED BY <3>7, <3>8
  <2>9. e * (P * Parts) \in Nat /\ e * (P * Parts) <= P * Parts
    BY <2>1, <2>5
  <2>10. o * ((Parts - 1) * D) \in Nat
    BY <2>1, <2>5, Larger
  <2> DEFINE v == o * timer.period + got' * Parts
             a == o * (P * Parts)   b == o * (r * D)    g == got' * Parts
             h == o * ((Parts - 1) * D)   i == e * (P * Parts)   j == tim.cnt * Parts
             l == timer.div * Parts       m == P * Parts         n == r * D
  <2>11. /\ a \in Nat /\ b \in Nat /\ g \in Nat /\ h \in Nat /\ i \in Nat /\ j \in Nat
         /\ l \in Nat /\ m \in Nat /\ n \in Nat
         /\ v = a + b + g /\ age * Parts = a + i + j /\ timer.period = m + n
         /\ b <= h /\ g <= j /\ j < g + l /\ i <= m
    BY <2>5, <2>6, <2>7, <2>8, <2>9, <2>10
  <2>12. v <= age * Parts + h /\ age * Parts - v < timer.period + l
    <3> HIDE DEF v, a, b, g, h, i, j, l, m, n
    <3> QED BY <2>11
  <2> QED BY <2>12 DEF o, D
<1> QED BY <1>4, <1>5, <1>6 DEF IInv

\* The end of a read.
LEMMA ReadEndKeeps == ASSUME IInv, ReadOverflow PROVE IInv'
<1>1. /\ TypeOK /\ CountsTime /\ ExactCalls /\ WrittenRuns
  BY DEF IInv
<1>2. /\ UNCHANGED <<open, tim, timer, w, opm, age, calls, armed, asked, mixed>>
      /\ pc' = "idle" /\ got' = 0 /\ gotAge' = 0
  BY DEF ReadOverflow, device, history
<1>3. TypeOK'
  BY <1>1, <1>2 DEF TypeOK
<1> QED
  BY <1>1, <1>2, <1>3 DEF IInv, Stored, Starting, CountsTime, ExactCalls, Exact,
                          WrittenRuns, ReadWithinPeriod, Compare, Ticks

\* Clock moves the counter and the time on together; a counter that comes
\* to its end has counted one period.
LEMMA ClockKeeps == ASSUME IInv, Clock PROVE IInv'
<1>1. /\ TypeOK /\ (~mixed => Stored) /\ CountsTime /\ ExactCalls /\ WrittenRuns
      /\ ReadWithinPeriod
  BY DEF IInv
<1>2. /\ tim.en /\ age' = age + 1
      /\ UNCHANGED <<open, timer, pc, w, opm, got, gotAge, calls, armed, asked, mixed>>
  BY DEF Clock, locals
<1>3. ~mixed => pc \in {"idle", "read"} /\ ~Starting
  BY <1>1, <1>2 DEF Stored, Starting
<1>4. /\ tim' \in TimType /\ tim'.en /\ tim'.pr = tim.pr
      /\ \/ /\ tim.cnt = tim.pr /\ ~tim.pend /\ tim'.cnt = 0 /\ tim'.pend
         \/ /\ tim.cnt # tim.pr /\ tim'.cnt = (tim.cnt + 1) % W
            /\ (tim'.pend <=> tim.pend)
  <2>1. CASE tim.cnt = tim.pr
    <3>1. /\ ~tim.pend /\ TimIs(tim', tim.tie, tim.en, 0, tim.pr, TRUE)
      BY <1>1, <2>1, Fields, RegistersWritten DEF Clock
    <3> QED BY <1>2, <2>1, <3>1 DEF TimIs
  <2>2. CASE tim.cnt # tim.pr
    <3>1. (tim.cnt + 1) % W \in Nat
      BY <1>1, Fields, InRegister
    <3>2. ASSUME NEW n \in Nat
          PROVE  TimIs([tim EXCEPT !.cnt = n], tim.tie, tim.en, n, tim.pr, tim.pend)
      BY <1>1, Fields, RegistersWritten
    <3>3. tim' = [tim EXCEPT !.cnt = (tim.cnt + 1) % W]
      BY <2>2 DEF Clock
    <3> QED BY <1>2, <2>2, <3>1, <3>2, <3>3 DEF TimIs
  <2> QED BY <2>1, <2>2
<1>5. TypeOK'
  <2>1. tim'.cnt < W
    BY <1>1, <1>4, Fields, InRegister
  <2> QED BY <1>1, <1>2, <1>4, <2>1 DEF TypeOK
<1>6. ~mixed' => Stored'
  BY <1>2, <1>3 DEF Stored, Starting
<1>7. ExactCalls'
  BY <1>1, <1>2 DEF ExactCalls, Exact
<1>8. WrittenRuns'
  BY <1>1, <1>2, <1>4 DEF WrittenRuns, Compare, Ticks
<1>9. ReadWithinPeriod'
  BY <1>1, <1>2 DEF ReadWithinPeriod, Fits, Ticks
<1>10. CountsTime'
  <2> SUFFICES ASSUME ~mixed
               PROVE  /\ (timer.overflow + (IF tim'.pend THEN 1 ELSE 0)) * (tim.pr + 1)
                            + tim'.cnt = age + 1
                      /\ tim'.cnt <= tim'.pr
    BY <1>2, <1>4 DEF CountsTime
  <2>1. /\ timer.overflow \in Nat /\ tim.pr \in Nat /\ tim.cnt \in Nat
        /\ W \in Nat /\ tim.cnt < W /\ tim.pr < W /\ age \in Nat
    BY <1>1, Fields DEF TypeOK
  <2>2. (timer.overflow + (IF tim.pend THEN 1 ELSE 0)) * (tim.pr + 1) + tim.cnt = age
    BY <1>1, <1>2 DEF CountsTime
  <2>3. CASE tim.cnt = tim.pr
    <3>1. /\ ~tim.pend /\ tim'.pend /\ tim'.cnt = 0
      BY <1>4, <2>3
    <3>2. (timer.overflow + 1) * (tim.pr + 1)
              = timer.overflow * (tim.pr + 1) + (tim.pr + 1)
      BY <2>1, OneMore
    <3>3. timer.overflow * (tim.pr + 1) + tim.cnt = age
      BY <2>1, <2>2, <3>1
    <3>4. timer.overflow * (tim.pr + 1) \in Nat
      BY <2>1
    <3>5. (timer.overflow + 1) * (tim.pr + 1) + 0 = age + 1
      BY <2>1, <2>3, <3>2, <3>3, <3>4
    <3> QED BY <1>4, <2>1, <3>1, <3>5
  <2>4. CASE tim.cnt # tim.pr
    <3>1. tim.cnt < tim.pr
      <4>1. tim.cnt <= tim.pr
        BY <1>1, <1>2 DEF CountsTime
      <4> QED BY <2>1, <2>4, <4>1
    <3>2. tim'.cnt = tim.cnt + 1 /\ tim'.cnt <= tim'.pr
      BY <1>4, <2>1, <2>4, <3>1
    <3> DEFINE v == (timer.overflow + (IF tim.pend THEN 1 ELSE 0)) * (tim.pr + 1)
    <3>3. v \in Nat /\ v + tim.cnt = age
      BY <2>1, <2>2
    <3>4. v + tim'.cnt = age + 1
      <4> HIDE DEF v
      <4> QED BY <2>1, <3>2, <3>3
    <3>5. tim'.pend <=> tim.pend
      BY <1>4, <2>4
    <3> QED BY <3>2, <3>4, <3>5
  <2> QED BY <2>3, <2>4
<1> QED BY <1>5, <1>6, <1>7, <1>8, <1>9, <1>10 DEF IInv

\* An interrupt moves the overflow from the pending bit to the count.
LEMMA Transfer ==
    ASSUME IInv, tim.pend, tim.en, ~mixed
    PROVE  (timer.overflow + 1) * (tim.pr + 1) + tim.cnt = age
BY Fields DEF IInv, CountsTime

\* IsrCount counts an overflow within the time.
LEMMA CountKeeps == ASSUME IInv, IsrCount PROVE IInv'
<1>1. TypeOK /\ (~mixed => Stored) /\ CountsTime /\ ExactCalls /\ WrittenRuns
  BY DEF IInv
<1>2. /\ tim.pend /\ pc # "read" /\ Left > 0 /\ mixed' = (mixed \/ Starting)
      /\ UNCHANGED <<open, pc, w, opm, got, gotAge, age, calls, armed, asked>>
  BY DEF IsrCount, Taken, locals
<1>3. Left \in Nat /\ timer.cycles > 1 /\ Left = timer.cycles - 1
      /\ timer.overflow + 1 \in Nat
  BY <1>1, <1>2, Fields DEF Left
<1>4. /\ tim' \in TimType /\ (tim'.en <=> tim.en) /\ tim'.cnt = tim.cnt
      /\ tim'.pr = tim.pr /\ ~tim'.pend
  <2>1. TimIs(tim', tim.tie, tim.en, tim.cnt, tim.pr, FALSE)
    BY <1>1, Fields, RegistersWritten DEF IsrCount
  <2> QED BY <2>1 DEF TimIs
<1>5. /\ timer' \in TimerType /\ timer'.div = timer.div
      /\ timer'.overflow = timer.overflow + 1 /\ timer'.cycles = timer.cycles - 1
      /\ timer'.reload = timer.reload /\ timer'.period = timer.period
  <2>1. TimerIs(timer', timer.mode, timer.div, timer.overflow + 1, Left, timer.reload,
                timer.period)
    BY <1>1, <1>3, Fields, FieldsWritten DEF IsrCount
  <2> QED BY <1>3, <2>1 DEF TimerIs
<1>6. mixed' \in BOOLEAN /\ (~mixed' => ~mixed /\ ~Starting)
  <2>1. mixed \in BOOLEAN /\ Starting \in BOOLEAN
    BY <1>1 DEF TypeOK, Starting
  <2> QED BY <1>2, <2>1, Zenon
<1>7. TypeOK'
  BY <1>1, <1>2, <1>4, <1>5, <1>6 DEF TypeOK
<1>8. ~mixed' => Stored'
  BY <1>1, <1>2, <1>4, <1>6 DEF Stored, Starting
<1>9. CountsTime'
  <2> SUFFICES ASSUME tim'.en, ~mixed'
               PROVE  /\ (timer'.overflow + (IF tim'.pend THEN 1 ELSE 0)) * (tim'.pr + 1)
                            + tim'.cnt = age'
                      /\ tim'.cnt <= tim'.pr
    BY DEF CountsTime
  <2>1. (timer.overflow + 1) * (tim.pr + 1) + tim.cnt = age
    BY <1>2, <1>4, <1>6, Transfer
  <2>2. timer'.overflow + (IF tim'.pend THEN 1 ELSE 0) = timer.overflow + 1
    BY <1>3, <1>4, <1>5
  <2>3. tim'.cnt <= tim'.pr
    BY <1>1, <1>4, <1>6 DEF CountsTime
  <2> QED BY <2>1, <2>2, <2>3, <1>2, <1>4
<1>10. ExactCalls'
  <2> SUFFICES ASSUME armed, ~mixed' PROVE Exact'
    BY <1>2 DEF ExactCalls
  <2>1. Exact
    BY <1>1, <1>6 DEF ExactCalls
  <2>2. /\ timer.cycles \in Nat /\ timer.reload \in Nat /\ calls \in Nat
        /\ timer.reload # 0
    BY <1>1, <1>3, <2>1, Fields DEF Exact, TypeOK
  <2> DEFINE v == calls * timer.reload
  <2>3. v \in Nat /\ timer.overflow = v + (timer.reload - timer.cycles)
    BY <2>1, <2>2 DEF Exact
  <2>4. v' = v
    BY <1>2, <1>5
  <2> HIDE DEF v
  <2>5. timer'.overflow = v' + (timer'.reload - timer'.cycles)
    BY <1>5, <2>2, <2>3, <2>4
  <2>6. timer'.reload # 0 /\ timer'.cycles # 0
    BY <1>3, <1>5, <2>2
  <2> QED BY <2>5, <2>6 DEF Exact, v
<1>11. WrittenRuns'
  BY <1>1, <1>2, <1>4, <1>5, <1>6 DEF WrittenRuns, Compare, Ticks
<1> QED
  BY <1>2, <1>7, <1>8, <1>9, <1>10, <1>11 DEF IInv, ReadWithinPeriod

\* TMRx at the end of a time, before the callback.
LEMMA OverIs ==
    ASSUME TypeOK
    PROVE  /\ Over \in TimType /\ ~Over.pend /\ Over.pr = tim.pr
           /\ (Over.en <=> tim.en /\ timer.mode # "oneshot")
           /\ Over.cnt \in {0, tim.cnt} /\ (Over.en => Over.cnt = tim.cnt)
<1>1. tim \in TimType
  BY Fields
<1>2. CASE timer.mode = "oneshot"
  <2>1. /\ Stopped(tim) \in TimType /\ ~Stopped(tim).en /\ Stopped(tim).cnt = 0
        /\ Stopped(tim).pr = tim.pr
    BY <1>1, RegistersWritten DEF TimIs
  <2>2. Over = [Stopped(tim) EXCEPT !.pend = FALSE]
    BY <1>2 DEF Over
  <2>3. TimIs(Over, Stopped(tim).tie, Stopped(tim).en, Stopped(tim).cnt,
              Stopped(tim).pr, FALSE)
    BY <2>1, <2>2, RegistersWritten
  <2> QED BY <1>2, <2>1, <2>3 DEF TimIs
<1>3. CASE timer.mode # "oneshot"
  <2>1. TimIs(Over, tim.tie, tim.en, tim.cnt, tim.pr, FALSE)
    BY <1>1, <1>3, RegistersWritten DEF Over
  <2> QED BY <1>3, <2>1 DEF TimIs
<1> QED BY <1>2, <1>3

\* IsrTimeout ends a time: one more callback for the last of its overflows.
LEMMA TimeoutKeeps == ASSUME IInv, IsrTimeout PROVE IInv'
<1>1. TypeOK /\ (~mixed => Stored) /\ CountsTime /\ ExactCalls /\ WrittenRuns
  BY DEF IInv
<1>2. /\ tim.pend /\ pc # "read" /\ Left = 0 /\ calls' = calls + 1
      /\ mixed' = (mixed \/ Starting)
      /\ UNCHANGED <<open, pc, w, opm, got, gotAge, age, asked>>
  BY DEF IsrTimeout, Taken, locals
<1>3. /\ timer' \in TimerType /\ timer'.mode = timer.mode /\ timer'.div = timer.div
      /\ timer'.overflow = timer.overflow + 1 /\ timer'.cycles = timer.reload
      /\ timer'.reload = timer.reload /\ timer'.period = timer.period
  <2>1. timer.overflow + 1 \in Nat
    BY <1>1, Fields
  <2>2. TimerIs(timer', timer.mode, timer.div, timer.overflow + 1, timer.reload,
                timer.reload, timer.period)
    BY <1>1, <2>1, Fields, FieldsWritten DEF IsrTimeout
  <2> QED BY <2>2 DEF TimerIs
<1>4. /\ tim' \in TimType /\ ~tim'.pend /\ tim'.pr = tim.pr
      /\ tim'.cnt \in {0, tim.cnt} /\ (tim'.en => tim.en /\ tim'.cnt = tim.cnt)
      /\ armed' \in BOOLEAN /\ (armed' <=> tim'.en) /\ (armed' => armed)
  <2>1. CASE tim' = Over /\ armed' = (armed /\ timer.mode # "oneshot")
    <3>1. armed' \in BOOLEAN /\ (armed' <=> armed /\ timer.mode # "oneshot")
      BY <2>1, Zenon
    <3> QED BY <1>1, <2>1, <3>1, OverIs DEF WrittenRuns
  <2>2. CASE tim' = Stopped(Over) /\ armed' = FALSE
    <3>1. TimIs(tim', Over.tie, FALSE, 0, Over.pr, Over.pend)
      BY <1>1, <2>2, OverIs, RegistersWritten
    <3> QED BY <1>1, <2>2, <3>1, OverIs DEF TimIs
  <2> QED BY <2>1, <2>2 DEF IsrTimeout
<1>5. mixed' \in BOOLEAN /\ (~mixed' => ~mixed /\ ~Starting)
  <2>1. mixed \in BOOLEAN /\ Starting \in BOOLEAN
    BY <1>1 DEF TypeOK, Starting
  <2> QED BY <1>2, <2>1, Zenon
<1>6. TypeOK'
  <2>1. tim'.cnt < W /\ calls' \in Nat
    BY <1>1, <1>2, <1>4, Fields DEF TypeOK
  <2> QED BY <1>1, <1>2, <1>3, <1>4, <1>5, <2>1 DEF TypeOK
<1>7. ~mixed' => Stored'
  BY <1>1, <1>2, <1>4, <1>5 DEF Stored, Starting
<1>8. CountsTime'
  <2> SUFFICES ASSUME tim'.en, ~mixed'
               PROVE  /\ (timer'.overflow + (IF tim'.pend THEN 1 ELSE 0)) * (tim'.pr + 1)
                            + tim'.cnt = age'
                      /\ tim'.cnt <= tim'.pr
    BY DEF CountsTime
  <2>1. (timer.overflow + 1) * (tim.pr + 1) + tim.cnt = age
    BY <1>2, <1>4, <1>5, Transfer
  <2>2. timer'.overflow + (IF tim'.pend THEN 1 ELSE 0) = timer.overflow + 1
    BY <1>1, <1>3, <1>4, Fields
  <2>3. tim'.cnt <= tim'.pr
    BY <1>1, <1>4, <1>5 DEF CountsTime
  <2> QED BY <2>1, <2>2, <2>3, <1>2, <1>4
<1>9. ExactCalls'
  <2> SUFFICES ASSUME armed, ~mixed' PROVE Exact'
    BY <1>4 DEF ExactCalls
  <2>1. Exact
    BY <1>1, <1>5 DEF ExactCalls
  <2>2. /\ timer.cycles \in Nat /\ timer.reload \in Nat /\ calls \in Nat
        /\ timer.overflow \in Nat /\ timer.cycles \in {0, 1}
    BY <1>1, <1>2, Fields DEF TypeOK, Left
  <2>3. CASE timer.reload = 0
    BY <1>2, <1>3, <2>1, <2>2, <2>3 DEF Exact
  <2>4. CASE timer.reload # 0
    <3>1. timer.cycles = 1
      BY <2>1, <2>2, <2>4 DEF Exact
    <3> DEFINE v == calls * timer.reload
    <3>2. v \in Nat /\ timer.overflow = v + (timer.reload - 1)
      BY <2>1, <2>2, <2>4, <3>1 DEF Exact
    <3>3. (calls + 1) * timer.reload = v + timer.reload
      BY <2>2, OneMore
    <3> HIDE DEF v
    <3>4. timer.overflow + 1 = (calls + 1) * timer.reload + (timer.reload - timer.reload)
      BY <2>2, <3>2, <3>3
    <3> QED BY <1>2, <1>3, <2>4, <3>4 DEF Exact
  <2> QED BY <2>3, <2>4
<1>10. WrittenRuns'
  BY <1>1, <1>2, <1>3, <1>4, <1>5 DEF WrittenRuns, Compare, Ticks
<1> QED
  BY <1>2, <1>6, <1>7, <1>8, <1>9, <1>10 DEF IInv, ReadWithinPeriod

\* IsrRearm: what the callback writes is started afresh.
LEMMA RearmKeeps ==
    ASSUME IInv, NEW p \in Times, NEW c \in Cycles, IsrRearm(p, c) PROVE IInv'
<1>1. TypeOK /\ c \in Nat
  BY HwTimerAssumption DEF IInv
<1>2. /\ pc # "read" /\ age' = 0 /\ calls' = 0 /\ mixed' = (pc # "idle")
      /\ armed' = (Opmode(c) # "oneshot")
      /\ asked' = [time |-> p, cycles |-> c, div |-> timer.div]
      /\ timer' = [timer EXCEPT !.overflow = 0, !.cycles = c, !.reload = c,
                                !.period = p * timer.div]
      /\ tim' = [tim EXCEPT !.pend = FALSE, !.cnt = 0, !.pr = Compare(p, timer.div),
                 !.en = Opmode(c) # "oneshot"]
      /\ UNCHANGED <<open, pc, w, opm, got, gotAge>>
  BY DEF IsrRearm, Taken, Rewritten, locals
<1>3. /\ p * timer.div \in Nat /\ Compare(p, timer.div) \in Nat
      /\ Compare(p, timer.div) < W /\ timer.div \in Divs
  <2>1. p \in Nat /\ timer.div \in Nat
    BY <1>1, Fields, CompareFits
  <2> QED BY <2>1, <1>1, Fields, CompareFits
<1>4. /\ timer' \in TimerType /\ timer'.overflow = 0 /\ timer'.cycles = c
      /\ timer'.reload = c /\ timer'.period = p * timer.div
  <2>1. TimerIs(timer', timer.mode, timer.div, 0, c, c, p * timer.div)
    BY <1>1, <1>2, <1>3, Fields, FieldsWritten
  <2> QED BY <2>1 DEF TimerIs
<1>5. /\ tim' \in TimType /\ ~tim'.pend /\ tim'.cnt = 0
      /\ tim'.pr = Compare(p, timer.div) /\ armed' \in BOOLEAN /\ (armed' <=> tim'.en)
  <2>1. ASSUME NEW b \in BOOLEAN, b = (Opmode(c) # "oneshot")
        PROVE  /\ tim' \in TimType /\ ~tim'.pend /\ tim'.cnt = 0
               /\ tim'.pr = Compare(p, timer.div)
               /\ armed' \in BOOLEAN /\ (armed' <=> tim'.en)
    <3>1. /\ tim' = [tim EXCEPT !.pend = FALSE, !.cnt = 0, !.pr = Compare(p, timer.div),
                                !.en = b]
          /\ armed' = b
      BY <1>2, <2>1, Zenon
    <3>2. TimIs(tim', tim.tie, b, 0, Compare(p, timer.div), FALSE)
      BY <1>1, <1>3, <3>1, Fields, RegistersWritten
    <3> QED BY <3>1, <3>2 DEF TimIs
  <2> QED BY <2>1
<1>6. mixed' \in BOOLEAN /\ (~mixed' => pc = "idle")
  BY <1>2, Zenon
<1>7. TypeOK'
  <2>1. tim'.cnt < W /\ tim'.pr < W
    BY <1>1, <1>3, <1>5, Fields
  <2>2. asked' \in [time : Times, cycles : Nat, div : Divs]
    BY <1>1, <1>2, <1>3
  <2> QED BY <1>1, <1>2, <1>4, <1>5, <1>6, <2>1, <2>2 DEF TypeOK
<1>8. ~mixed' => Stored'
  BY <1>2, <1>6 DEF Stored, Starting
<1>9. CountsTime'
  BY <1>2, <1>3, <1>4, <1>5 DEF CountsTime
<1>10. ExactCalls'
  <2>1. 0 * c = 0 /\ c - c = 0
    BY <1>1
  <2> QED BY <1>2, <1>4, <2>1 DEF ExactCalls, Exact
<1>11. WrittenRuns'
  <2>1. asked'.time = p /\ asked'.cycles = c /\ asked'.div = timer.div
    BY <1>2
  <2>2. Compare(asked.time, asked.div)' = Compare(p, timer.div)
    BY <2>1 DEF Compare, Ticks
  <2> QED BY <1>4, <1>5, <2>1, <2>2 DEF WrittenRuns
<1> QED
  BY <1>2, <1>7, <1>8, <1>9, <1>10, <1>11 DEF IInv, ReadWithinPeriod

\* A step in which nothing changes.
LEMMA StutterKeeps == ASSUME IInv, UNCHANGED vars PROVE IInv'
BY DEF IInv, vars, TypeOK, Stored, Starting, CountsTime, ExactCalls, Exact,
       WrittenRuns, ReadWithinPeriod, Fits, Compare, Ticks

\* Every step keeps the invariant.
LEMMA NextIInv == IInv /\ [Next]_vars => IInv'
BY OpenCloseKeep, StopsKeep, ConfigureKeeps, CounterStoresKeep, FieldStoresKeep,
   CyclesKeep, EnableKeeps, ReadKeeps, ReadEndKeeps, ClockKeeps, CountKeeps,
   TimeoutKeeps, RearmKeeps, StutterKeeps DEF Next, Write

\* Unless a time is mixed, the overflows the interrupt has counted, the
\* pending one and the counter are together the clocks since the timer was
\* started, for any period (also one that wraps around the 32 bits of
\* TMRxPR), any frequency and any order of stops, reads and interrupts.
THEOREM OverflowsCountTime == Spec => []CountsTime
<1>1. IInv => CountsTime
  BY DEF IInv
<1> QED BY <1>1, InitIInv, NextIInv, PTL DEF Spec

\* Unless a time is mixed, rx_indicate is called exactly once per reload
\* overflows.
THEOREM CallbacksExact == Spec => []CallsExact
<1>1. IInv => CallsExact
  BY DEF IInv, ExactCalls, Exact, CallsExact
<1> QED BY <1>1, InitIInv, NextIInv, PTL DEF Spec

\* The timer is enabled exactly from a write that succeeded to the stop or
\* the end of the time; unless it is mixed, it runs the time that the last
\* write asked for, be it the thread's or a callback's.
THEOREM WrittenTimeRuns == Spec => []WrittenRuns
<1>1. IInv => WrittenRuns
  BY DEF IInv
<1> QED BY <1>1, InitIInv, NextIInv, PTL DEF Spec

\* Unless a time is mixed or its TMRxPR wrapped around, rt_hwtimer_read
\* returns a time of one moment: behind by less than a tick and the pending
\* overflow, ahead by less than a tick for every overflow.
THEOREM ReadIsOfOneMoment == Spec => []ReadWithinPeriod
<1>1. IInv => ReadWithinPeriod
  BY DEF IInv
<1> QED BY <1>1, InitIInv, NextIInv, PTL DEF Spec
=============================================================================
