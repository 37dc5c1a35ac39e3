---------------------------- MODULE TimerProofs ----------------------------
(***************************************************************************)
(* Timer, for any timers and any number of tick values: flags and lists    *)
(* agree, both lists stay sorted across the wrap-around of the tick,       *)
(* callbacks are called on time, and the timer thread does not sleep past  *)
(* a soft timer.                                                           *)
(***************************************************************************)
EXTENDS Timer, WellFoundedInduction, TLAPS

\* Every element comes after those with a smaller p, and only once.
SortedBy(l, p) ==
    \A i, j \in 1 .. Len(l) : i < j => l[i] # l[j] /\ p[l[i]] <= p[l[j]]

\* the tick k ticks from now, or before now if k is negative
At(now, k) == IF k >= 0 THEN Plus(now, k) ELSE Minus(now, 0 - k)

\* Every variable but the lists has its type.
FieldTypes ==
    /\ tick \in 0 .. TickMax
    /\ active \in [Timer -> BOOLEAN] /\ timeout_tick \in [Timer -> 0 .. TickMax]
    /\ irq \in BOOLEAN /\ htemp \in BOOLEAN /\ stemp \in BOOLEAN /\ kick \in BOOLEAN
    /\ hcb \in (User \ Soft) \cup {None} /\ scb \in Soft \cup {None}
    /\ pc \in {"next", "decide", "delay", "asleep", "check", "cb"}
    /\ next_timeout \in 0 .. TickMax /\ found \in BOOLEAN /\ missed \in BOOLEAN
    /\ left \in [Timer -> Int] /\ slip \in 0 .. MaxSlip /\ orphan \subseteq User

\* A hard timer is due in the interrupt at the latest. The timer thread's own
\* may be started with no ticks at all and is then found one tick late.
HardInTime ==
    \A t \in Timer : On(hard, t) =>
        /\ left[t] < Half
        /\ left[t] >= (IF irq THEN 0 ELSE 1) - (IF t = ThreadTimer THEN 1 ELSE 0)

SoftInTime ==
    \A t \in Timer : On(soft, t) =>
        left[t] >= 0 - MaxLate /\ \E n \in Inits : left[t] <= n

\* The lists are sorted by the ticks that remain, and these fit the tick.
Lists ==
    /\ hard \in Seq(Timer \ Soft) /\ soft \in Seq(Soft)
    /\ SortedBy(hard, left) /\ SortedBy(soft, left)
    /\ \A t \in Timer : Queued(t) => timeout_tick[t] = At(tick, left[t])
    /\ HardInTime /\ SoftInTime

\* t's callback runs and has neither stopped nor started t.
Called(t) == (t = hcb /\ htemp) \/ (t = scb /\ stemp)

\* FlagsExact; a timer is in no two of the three situations.
Flags ==
    \A t \in Timer :
        /\ Queued(t) \/ t \in orphan => active[t] /\ ~Called(t)
        /\ active[t] => Queued(t) \/ t \in orphan \/ Called(t)
        /\ ~(Queued(t) /\ t \in orphan)

\* where the callbacks are called from, and what the thread's steps know
Phases ==
    /\ hcb # None => irq
    /\ scb # None <=> pc = "cb"
    /\ pc = "delay" => next_timeout < Half
    /\ active[ThreadTimer] => pc = "asleep"

IInv == FieldTypes /\ Lists /\ Flags /\ Phases

\* next_timeout is d ticks away, which is not later than any soft timer and so
\* little in the past that it is not taken for the future.
Foresees(d) ==
    /\ next_timeout = At(tick, d)
    /\ \A t \in Timer : On(soft, t) =>
           d <= left[t] /\ \E n \in Inits : left[t] - d <= n + MaxLate

Decides ==
    pc = "decide" => IF found THEN soft # << >> =>
                                       \E d \in Half - M .. Half - 1 : Foresees(d)
                     ELSE soft = << >>

Delays ==
    pc = "delay" => \A t \in Timer : On(soft, t) => next_timeout <= left[t] + slip

Wakes == (~missed => Decides /\ Delays) /\ NoOversleep

-----------------------------------------------------------------------------
(* Tick arithmetic.                                                        *)

\* Half of the range is not more than half.
LEMMA HalfFacts ==
    /\ M \in Nat /\ Half \in Nat /\ TickMax = M - 1 /\ TickMax \in Nat
    /\ Half >= 2 /\ Half + Half < M /\ MaxLate \in Nat /\ MaxLate < Half
    /\ Inits \subseteq 1 .. Half - 1 /\ \A n \in Inits : n + 2 * MaxLate <= M - Half
<1>1. M \in Nat /\ MaxLate \in Nat /\ Half = (M - 1) \div 2 /\ MaxLate < Half
  BY TimerAssumption DEF Half, TickMax
<1>2. Half \in Int
  BY <1>1
<1>3. Half + Half <= M - 1
  BY <1>1
<1>4. PICK n \in Inits : n \in 1 .. Half - 1
  BY TimerAssumption
<1> QED BY <1>1, <1>2, <1>3, <1>4, TimerAssumption DEF TickMax

\* A tick less than a whole turn away is a value of rt_tick_t.
LEMMA AtIsTick ==
    ASSUME NEW now \in 0 .. TickMax, NEW k \in Int, 0 - M < k, k < M
    PROVE  At(now, k) \in 0 .. TickMax
BY HalfFacts DEF At, Plus, Minus

\* The distance of two ticks, as rt_tick_t.
LEMMA AtDiffers ==
    ASSUME NEW now \in 0 .. TickMax, NEW a \in Int, NEW b \in Int,
           0 - M < a, a < M, 0 - M < b, b < M, a - b < M, b - a < M
    PROVE  Minus(At(now, a), At(now, b)) = IF a >= b THEN a - b ELSE a - b + M
BY HalfFacts DEF At, Plus, Minus

\* The same tick, one tick later.
LEMMA AtLater ==
    ASSUME NEW now \in 0 .. TickMax, NEW k \in Int, 1 - M < k, k < M
    PROVE  /\ Plus(now, 1) \in 0 .. TickMax
           /\ At(Plus(now, 1), k - 1) = At(now, k)
BY HalfFacts DEF At, Plus, Minus

\* The comparison of rt_timer_check: a timer is due when no ticks remain.
LEMMA DueMeansNoneLeft ==
    ASSUME NEW now \in 0 .. TickMax, NEW k \in Int, 0 - Half < k, k < Half
    PROVE  Minus(now, At(now, k)) < Half <=> k <= 0
BY HalfFacts DEF At, Plus, Minus

\* The comparison of rt_timer_start: of two timers the one with more ticks
\* left is later.
LEMMA LaterMeansMoreLeft ==
    ASSUME NEW now \in 0 .. TickMax, NEW a \in Int, NEW b \in Int,
           0 - Half < a, a < Half, 0 <= b, b < Half, b - a <= M - Half
    PROVE  (/\ Minus(At(now, a), At(now, b)) # 0
            /\ Minus(At(now, a), At(now, b)) < Half) <=> a > b
<1>1. 0 - M < a /\ a < M /\ 0 - M < b /\ b < M /\ a - b < M /\ b - a < M
  BY HalfFacts
<1>2. Minus(At(now, a), At(now, b)) = IF a >= b THEN a - b ELSE a - b + M
  BY <1>1, AtDiffers
<1> QED BY <1>2, HalfFacts

-----------------------------------------------------------------------------
(* Lists.                                                                  *)

\* The elements of a list, by place.
LEMMA Places ==
    ASSUME NEW S, NEW l \in Seq(S)
    PROVE  /\ Len(l) \in Nat /\ \A i \in 1 .. Len(l) : l[i] \in S /\ On(l, l[i])
           /\ \A x : On(l, x) => x \in S
           /\ l = << >> => \A x : ~On(l, x)
           /\ l # << >> => 1 \in 1 .. Len(l) /\ On(l, l[1])
<1>1. Len(l) \in Nat /\ \A i \in 1 .. Len(l) : l[i] \in S /\ On(l, l[i])
  BY DEF On
<1>2. l = << >> <=> Len(l) = 0
  OBVIOUS
<1>3. l # << >> => 1 \in 1 .. Len(l)
  BY <1>1, <1>2
<1> QED BY <1>1, <1>2, <1>3 DEF On

\* The first of a sorted list is the least.
LEMMA FirstIsLeast ==
    ASSUME NEW S, NEW l \in Seq(S), NEW p, SortedBy(l, p),
           \A x \in S : On(l, x) => p[x] \in Int
    PROVE  \A x : On(l, x) => p[l[1]] <= p[x]
<1> SUFFICES ASSUME NEW x, On(l, x) PROVE p[l[1]] <= p[x]
  OBVIOUS
<1>1. PICK i \in 1 .. Len(l) : l[i] = x
  BY DEF On
<1>2. Len(l) \in Nat /\ 1 \in 1 .. Len(l) /\ p[x] \in Int
  BY Places
<1> QED BY <1>1, <1>2 DEF SortedBy

\* A list stays sorted if p does not change for its elements.
LEMMA SortedSame ==
    ASSUME NEW S, NEW l \in Seq(S), NEW p, NEW q, SortedBy(l, p),
           \A x \in S : On(l, x) => q[x] = p[x]
    PROVE  SortedBy(l, q)
BY Places DEF SortedBy

\* A non-empty set of numbers has a smallest one.
LEMMA Smallest ==
    ASSUME NEW S, S \subseteq Nat, S # {}
    PROVE  \E p \in S : \A q \in S : p <= q
<1>1. IsWellFoundedOn(OpToRel(<, Nat), Nat)
  BY NatLessThanWellFounded
<1>2. PICK p \in S : \A q \in S : ~(<<q, p>> \in OpToRel(<, Nat))
  BY <1>1, WFMin, Zenon
<1>3. \A q \in S : ~(q < p)
  BY <1>2 DEF OpToRel
<1> QED BY <1>3

\* A function on 1 .. k is a list of k elements.
LEMMA ListOf ==
    ASSUME NEW S, NEW k \in Nat, NEW f \in [1 .. k -> S]
    PROVE  f \in Seq(S) /\ Len(f) = k
OBVIOUS

\* _rt_timer_remove takes one timer out, and only shifts the others.
LEMMA ListWithout ==
    ASSUME NEW S, NEW l \in Seq(S), NEW t, NEW p, SortedBy(l, p)
    PROVE  /\ Without(l, t) \in Seq(S) /\ SortedBy(Without(l, t), p)
           /\ \A u : On(Without(l, t), u) <=> On(l, u) /\ u # t
<1>1. CASE ~On(l, t)
  BY <1>1 DEF Without, On
<1>2. CASE On(l, t)
  <2> DEFINE n == CHOOSE i \in 1 .. Len(l) : l[i] = t
             m == [i \in 1 .. Len(l) - 1 |-> IF i < n THEN l[i] ELSE l[i + 1]]
  <2>1. n \in 1 .. Len(l) /\ l[n] = t
    BY <1>2 DEF On
  <2>2. Without(l, t) = m
    BY <1>2 DEF Without
  <2> HIDE DEF n
  <2>3. Len(l) \in Nat /\ \A i \in 1 .. Len(l) : l[i] \in S
    OBVIOUS
  <2>4. Len(l) - 1 \in Nat
    BY <2>1, <2>3
  <2>5. m \in Seq(S) /\ Len(m) = Len(l) - 1
    <3>1. \A i \in 1 .. Len(l) - 1 : m[i] \in S
      BY <2>1, <2>3
    <3>2. m \in [1 .. Len(l) - 1 -> S]
      BY <3>1
    <3> QED BY <3>2, <2>4, ListOf
  <2>6. ASSUME NEW i \in 1 .. Len(l) - 1
        PROVE  /\ i < n => i \in 1 .. Len(l) /\ m[i] = l[i]
               /\ i >= n => i + 1 \in 1 .. Len(l) /\ m[i] = l[i + 1]
    BY <2>1, <2>3
  <2> HIDE DEF m
  <2>7. SortedBy(m, p)
    <3> SUFFICES ASSUME NEW i \in 1 .. Len(l) - 1, NEW j \in 1 .. Len(l) - 1, i < j
                 PROVE  m[i] # m[j] /\ p[m[i]] <= p[m[j]]
      BY <2>5 DEF SortedBy
    <3> DEFINE a == IF i < n THEN i ELSE i + 1
               b == IF j < n THEN j ELSE j + 1
    <3>1. a \in 1 .. Len(l) /\ b \in 1 .. Len(l) /\ a < b /\ m[i] = l[a] /\ m[j] = l[b]
      BY <2>1, <2>3, <2>6
    <3> QED BY <3>1 DEF SortedBy
  <2>8. ASSUME NEW u, On(m, u) PROVE On(l, u) /\ u # t
    <3>1. PICK i \in 1 .. Len(l) - 1 : m[i] = u
      BY <2>8, <2>5 DEF On
    <3>2. PICK j \in 1 .. Len(l) : j # n /\ l[j] = u
      <4>1. CASE i < n
        BY <4>1, <3>1, <2>6
      <4>2. CASE ~(i < n)
        <5>1. i + 1 \in 1 .. Len(l) /\ i + 1 # n /\ l[i + 1] = u
          BY <4>2, <3>1, <2>1, <2>6
        <5> QED BY <5>1
      <4> QED BY <4>1, <4>2
    <3>3. j < n \/ n < j
      BY <3>2, <2>1, <2>3
    <3> QED BY <3>2, <3>3, <2>1 DEF On, SortedBy
  <2>9. ASSUME NEW u, On(l, u), u # t PROVE On(m, u)
    <3>1. PICK i \in 1 .. Len(l) : l[i] = u
      BY <2>9 DEF On
    <3>2. CASE i < n
      <4>1. i \in 1 .. Len(l) - 1 /\ m[i] = u
        BY <3>2, <3>1, <2>1, <2>3, <2>6
      <4> QED BY <4>1, <2>5 DEF On
    <3>3. CASE i > n
      <4>1. i - 1 \in 1 .. Len(l) - 1 /\ i - 1 >= n /\ (i - 1) + 1 = i
        BY <3>3, <2>1, <2>3
      <4>2. m[i - 1] = u
        BY <4>1, <3>1, <2>6
      <4> QED BY <4>1, <4>2, <2>5 DEF On
    <3> QED BY <3>1, <3>2, <3>3, <2>1, <2>3, <2>9
  <2> QED BY <2>2, <2>5, <2>7, <2>8, <2>9
<1> QED BY <1>1, <1>2

\* rt_timer_start puts a timer behind all that time out at the same tick or
\* sooner, if its comparisons tell the timers that do.
LEMMA ListPlace ==
    ASSUME NEW S, NEW l \in Seq(S), NEW t \in S, ~On(l, t),
           NEW p, SortedBy(l, p), \A u \in S : p[u] \in Int, NEW timeout,
           \A u \in S : On(l, u) =>
               ((/\ Minus(timeout_tick[u], timeout) # 0
                 /\ Minus(timeout_tick[u], timeout) < Half) <=> p[u] > p[t])
    PROVE  /\ Place(l, t, timeout) \in Seq(S)
           /\ SortedBy(Place(l, t, timeout), p)
           /\ \A u : On(Place(l, t, timeout), u) <=> On(l, u) \/ u = t
<1> DEFINE later == {i \in 1 .. Len(l) :
                       /\ Minus(timeout_tick[l[i]], timeout) # 0
                       /\ Minus(timeout_tick[l[i]], timeout) < Half}
           n == IF later = {} THEN Len(l) + 1
                ELSE CHOOSE i \in later : \A j \in later : i <= j
           m == [i \in 1 .. Len(l) + 1 |-> IF i < n THEN l[i] ELSE IF i = n THEN t ELSE l[i - 1]]
<1>1. Len(l) \in Nat /\ \A i \in 1 .. Len(l) : l[i] \in S /\ l[i] # t /\ On(l, l[i])
  BY DEF On
<1>2. /\ n \in 1 .. Len(l) + 1
      /\ \A i \in 1 .. Len(l) : i \in later => n <= i
      /\ n # Len(l) + 1 => n \in later
  <2>1. CASE later = {}
    BY <2>1, <1>1
  <2>2. CASE later # {}
    <3>1. later \subseteq Nat
      BY <1>1
    <3>2. \E i \in later : \A j \in later : i <= j
      BY <2>2, <3>1, Smallest
    <3>3. n \in later /\ \A j \in later : n <= j
      BY <3>2, <2>2
    <3> HIDE DEF n, later
    <3>4. n \in 1 .. Len(l)
      BY <3>3 DEF later
    <3> QED BY <1>1, <3>3, <3>4
  <2> QED BY <2>1, <2>2
<1>3. \A i \in 1 .. Len(l) : i \in later <=> p[l[i]] > p[t]
  <2> HIDE DEF n
  <2> QED BY <1>1
<1>4. Place(l, t, timeout) = m
  BY DEF Place
<1> HIDE DEF n, later
<1>5. m \in Seq(S) /\ Len(m) = Len(l) + 1
  <2>1. ASSUME NEW i \in 1 .. Len(l) + 1 PROVE m[i] \in S
    <3>1. i < n => i \in 1 .. Len(l)
      BY <1>1, <1>2
    <3>2. ~(i < n) /\ i # n => i - 1 \in 1 .. Len(l)
      BY <1>1, <1>2
    <3> QED BY <1>1, <3>1, <3>2
  <2>2. \A i \in 1 .. Len(l) + 1 : m[i] \in S
    BY <2>1
  <2>3. m \in [1 .. Len(l) + 1 -> S]
    BY <2>2, Zenon
  <2>4. Len(l) + 1 \in Nat
    BY <1>1
  <2> QED BY <2>3, <2>4, ListOf
<1>6. \A i \in 1 .. Len(l) + 1 : m[i] = IF i < n THEN l[i] ELSE IF i = n THEN t ELSE l[i - 1]
  OBVIOUS
<1> HIDE DEF m
<1>7. \A i \in 1 .. Len(l) + 1 :
        /\ i < n => i \in 1 .. Len(l) /\ m[i] = l[i]
        /\ i = n => m[i] = t
        /\ i > n => i - 1 \in 1 .. Len(l) /\ m[i] = l[i - 1]
  BY <1>1, <1>2, <1>6
<1>8. /\ \A i \in 1 .. Len(l) : i < n => p[l[i]] <= p[t]
      /\ \A i \in 1 .. Len(l) : i >= n => p[t] <= p[l[i]]
  <2>1. p[t] \in Int /\ \A i \in 1 .. Len(l) : p[l[i]] \in Int
    BY <1>1
  <2>2. ASSUME NEW i \in 1 .. Len(l), i < n PROVE p[l[i]] <= p[t]
    <3>1. i \notin later
      BY <2>2, <1>1, <1>2
    <3> QED BY <3>1, <2>1, <1>3
  <2>3. ASSUME NEW i \in 1 .. Len(l), i >= n PROVE p[t] <= p[l[i]]
    <3>1. n \in 1 .. Len(l) /\ n \in later
      BY <2>3, <1>1, <1>2
    <3>2. p[l[n]] <= p[l[i]]
      BY <3>1, <2>1, <2>3, <1>1 DEF SortedBy
    <3> QED BY <3>1, <3>2, <2>1, <1>3
  <2> QED BY <2>2, <2>3
<1>9. SortedBy(m, p)
  <2> SUFFICES ASSUME NEW i \in 1 .. Len(l) + 1, NEW j \in 1 .. Len(l) + 1, i < j
               PROVE  m[i] # m[j] /\ p[m[i]] <= p[m[j]]
    BY <1>5 DEF SortedBy
  <2>1. CASE i < n /\ j < n
    BY <2>1, <1>7 DEF SortedBy
  <2>2. CASE i < n /\ j = n
    BY <2>2, <1>1, <1>7, <1>8
  <2>3. CASE i < n /\ j > n
    <3>1. m[i] = l[i] /\ m[j] = l[j - 1] /\ i \in 1 .. Len(l) /\ j - 1 \in 1 .. Len(l)
          /\ i < j - 1
      BY <2>3, <1>2, <1>7
    <3> QED BY <3>1 DEF SortedBy
  <2>4. CASE i = n /\ j > n
    <3>1. m[i] = t /\ m[j] = l[j - 1] /\ j - 1 \in 1 .. Len(l) /\ j - 1 >= n
      BY <2>4, <1>2, <1>7
    <3> QED BY <3>1, <1>1, <1>8
  <2>5. CASE i > n /\ j > n
    <3>1. m[i] = l[i - 1] /\ m[j] = l[j - 1] /\ i - 1 \in 1 .. Len(l) /\ j - 1 \in 1 .. Len(l)
          /\ i - 1 < j - 1
      BY <2>5, <1>2, <1>7
    <3> QED BY <3>1 DEF SortedBy
  <2> QED BY <2>1, <2>2, <2>3, <2>4, <2>5, <1>2
<1>10. ASSUME NEW u, On(m, u) PROVE On(l, u) \/ u = t
  <2>1. PICK i \in 1 .. Len(l) + 1 : m[i] = u
    BY <1>10, <1>5 DEF On
  <2>2. i < n \/ i = n \/ i > n
    BY <1>2
  <2> QED BY <2>1, <2>2, <1>7 DEF On
<1>11. On(m, t)
  BY <1>2, <1>5, <1>7 DEF On
<1>12. ASSUME NEW u, On(l, u) PROVE On(m, u)
  <2>1. PICK i \in 1 .. Len(l) : l[i] = u
    BY <1>12 DEF On
  <2>2. CASE i < n
    <3>1. i \in 1 .. Len(l) + 1 /\ m[i] = u
      BY <2>1, <2>2, <1>1, <1>7
    <3> QED BY <3>1, <1>5 DEF On
  <2>3. CASE ~(i < n)
    <3>1. i + 1 \in 1 .. Len(l) + 1 /\ i + 1 > n /\ (i + 1) - 1 = i
      BY <2>3, <1>1, <1>2
    <3>2. m[i + 1] = u
      BY <3>1, <2>1, <1>7
    <3> QED BY <3>1, <3>2, <1>5 DEF On
  <2> QED BY <2>2, <2>3
<1> QED BY <1>4, <1>5, <1>9, <1>10, <1>11, <1>12

\* A timer that is not on the list is not taken out of it.
LEMMA WithoutSame ==
    ASSUME NEW l, NEW t, ~On(l, t) PROVE Without(l, t) = l
BY DEF Without

-----------------------------------------------------------------------------
(* What the invariant says of a timer on a list.                           *)

\* A queued timer is less than half a turn away.
LEMMA QueuedFacts ==
    ASSUME IInv, NEW t \in Timer
    PROVE  /\ On(hard, t) => t \notin Soft
           /\ On(soft, t) => t \in Soft
           /\ Queued(t) => /\ 0 - Half < left[t] /\ left[t] < Half
                           /\ timeout_tick[t] = At(tick, left[t])
                           /\ Due(t) <=> left[t] <= 0
           /\ left[t] \in Int /\ tick \in 0 .. TickMax
<1>1. left[t] \in Int /\ tick \in 0 .. TickMax
  BY DEF IInv, FieldTypes
<1>2. (On(hard, t) => t \notin Soft) /\ (On(soft, t) => t \in Soft)
  BY Places DEF IInv, Lists
<1>3. Queued(t) => timeout_tick[t] = At(tick, left[t])
  BY DEF IInv, Lists
<1>4. On(hard, t) => 0 - Half < left[t] /\ left[t] < Half
  BY <1>1, HalfFacts DEF IInv, Lists, HardInTime
<1>5. ASSUME On(soft, t) PROVE 0 - Half < left[t] /\ left[t] < Half
  <2>1. PICK n \in Inits : left[t] <= n
    BY <1>5 DEF IInv, Lists, SoftInTime
  <2>2. n \in Int /\ n < Half /\ left[t] >= 0 - MaxLate
    BY <1>5, HalfFacts DEF IInv, Lists, SoftInTime
  <2> QED BY <2>1, <2>2, <1>1, HalfFacts
<1>6. Queued(t) => 0 - Half < left[t] /\ left[t] < Half
  BY <1>4, <1>5 DEF Queued
<1>7. Queued(t) => (Due(t) <=> left[t] <= 0)
  BY <1>1, <1>3, <1>6, DueMeansNoneLeft DEF Due
<1> QED BY <1>1, <1>2, <1>3, <1>6, <1>7

\* The first timer of a list is a timer, and has no more ticks left than any
\* other.
LEMMA FirstFacts ==
    ASSUME IInv
    PROVE  /\ hard # << >> => /\ hard[1] \in Timer \ Soft /\ On(hard, hard[1])
                              /\ \A t : On(hard, t) => left[hard[1]] <= left[t]
           /\ soft # << >> => /\ soft[1] \in Soft /\ soft[1] \in User /\ On(soft, soft[1])
                              /\ \A t : On(soft, t) => left[soft[1]] <= left[t]
           /\ soft = << >> => \A t : ~On(soft, t)
           /\ hard = << >> => \A t : ~On(hard, t)
<1>1. /\ hard \in Seq(Timer \ Soft) /\ soft \in Seq(Soft)
      /\ SortedBy(hard, left) /\ SortedBy(soft, left)
      /\ \A t \in Timer : left[t] \in Int
      /\ Soft \subseteq Timer /\ Soft \subseteq User
  BY TimerAssumption DEF IInv, Lists, FieldTypes, User
<1>2. \A t : On(hard, t) => left[hard[1]] <= left[t]
  BY <1>1, FirstIsLeast
<1>3. \A t : On(soft, t) => left[soft[1]] <= left[t]
  <2>1. \A t \in Soft : left[t] \in Int
    BY <1>1
  <2> QED BY <1>1, <2>1, FirstIsLeast
<1>4. hard # << >> => hard[1] \in Timer \ Soft /\ On(hard, hard[1])
  BY <1>1, Places
<1>5. soft # << >> => soft[1] \in Soft /\ On(soft, soft[1])
  BY <1>1, Places
<1>6. (soft = << >> => \A t : ~On(soft, t)) /\ (hard = << >> => \A t : ~On(hard, t))
  BY <1>1, Places
<1> QED BY <1>1, <1>2, <1>3, <1>4, <1>5, <1>6

-----------------------------------------------------------------------------
(* What the calls do to the lists and to the flags.                        *)

\* _rt_timer_remove of any timer keeps the lists.
LEMMA RemoveKeepsLists ==
    ASSUME IInv, NEW t \in Timer, hard' = Without(hard, t), soft' = Without(soft, t),
           Forget(t), tick' = tick, irq' = irq
    PROVE  /\ Lists'
           /\ \A u : /\ On(hard, u)' <=> On(hard, u) /\ u # t
                     /\ On(soft, u)' <=> On(soft, u) /\ u # t
           /\ \A u \in Timer : u # t => left'[u] = left[u]
           /\ left' \in [Timer -> Int] /\ timeout_tick' \in [Timer -> 0 .. TickMax]
<1>1. /\ hard \in Seq(Timer \ Soft) /\ soft \in Seq(Soft)
      /\ SortedBy(hard, left) /\ SortedBy(soft, left)
      /\ left \in [Timer -> Int] /\ timeout_tick \in [Timer -> 0 .. TickMax]
      /\ tick \in 0 .. TickMax /\ Soft \subseteq Timer
  BY TimerAssumption DEF IInv, Lists, FieldTypes, User
<1>2. /\ \A u \in Timer : u # t => left'[u] = left[u] /\ timeout_tick'[u] = timeout_tick[u]
      /\ left' \in [Timer -> Int] /\ timeout_tick' \in [Timer -> 0 .. TickMax]
  BY <1>1, HalfFacts DEF Forget
<1>3. /\ hard' \in Seq(Timer \ Soft) /\ SortedBy(hard', left)
      /\ \A u : On(hard', u) <=> On(hard, u) /\ u # t
  BY <1>1, ListWithout
<1>4. /\ soft' \in Seq(Soft) /\ SortedBy(soft', left)
      /\ \A u : On(soft', u) <=> On(soft, u) /\ u # t
  BY <1>1, ListWithout
<1>5. SortedBy(hard', left')
  <2>1. \A u \in Timer \ Soft : On(hard', u) => left'[u] = left[u]
    BY <1>2, <1>3
  <2> QED BY <1>3, <2>1, SortedSame
<1>6. SortedBy(soft', left')
  <2>1. \A u \in Soft : On(soft', u) => left'[u] = left[u]
    BY <1>1, <1>2, <1>4
  <2> QED BY <1>4, <2>1, SortedSame
<1>7. ASSUME NEW u \in Timer, Queued(u)' PROVE timeout_tick'[u] = At(tick', left'[u])
  <2>1. u # t /\ Queued(u)
    BY <1>3, <1>4, <1>7 DEF Queued
  <2> QED BY <2>1, <1>2 DEF IInv, Lists
<1>8. HardInTime'
  <2> SUFFICES ASSUME NEW u \in Timer, On(hard', u)
      PROVE  /\ left'[u] < Half
             /\ left'[u] >= (IF irq' THEN 0 ELSE 1) - (IF u = ThreadTimer THEN 1 ELSE 0)
    BY DEF HardInTime
  <2>1. On(hard, u) /\ left'[u] = left[u]
    BY <1>2, <1>3
  <2> QED BY <2>1 DEF IInv, Lists, HardInTime
<1>9. SoftInTime'
  BY <1>2, <1>4 DEF IInv, Lists, SoftInTime
<1> QED BY <1>2, <1>3, <1>4, <1>5, <1>6, <1>7, <1>8, <1>9 DEF Lists

\* rt_timer_start keeps the lists, whatever the tick.
LEMMA InsertKeepsLists ==
    ASSUME IInv, NEW t \in Timer, NEW n \in 0 .. Half - 1, Insert(t, n),
           IF t \in Soft THEN n \in Inits
           ELSE n >= (IF irq THEN 0 ELSE 1) - (IF t = ThreadTimer THEN 1 ELSE 0),
           tick' = tick, irq' = irq
    PROVE  /\ Lists'
           /\ \A u : /\ On(hard, u)' <=> On(hard, u) \/ (u = t /\ t \notin Soft)
                     /\ On(soft, u)' <=> On(soft, u) \/ (u = t /\ t \in Soft)
           /\ \A u \in Timer : left'[u] = IF u = t THEN n ELSE left[u]
           /\ left' \in [Timer -> Int] /\ timeout_tick' \in [Timer -> 0 .. TickMax]
<1> DEFINE timeout == Plus(tick, n)
           L == IF t \in Soft THEN soft ELSE hard
           S == IF t \in Soft THEN Soft ELSE Timer \ Soft
<1>1. /\ hard \in Seq(Timer \ Soft) /\ soft \in Seq(Soft)
      /\ SortedBy(hard, left) /\ SortedBy(soft, left)
      /\ left \in [Timer -> Int] /\ timeout_tick \in [Timer -> 0 .. TickMax]
      /\ tick \in 0 .. TickMax /\ Soft \subseteq Timer
  BY TimerAssumption DEF IInv, Lists, FieldTypes, User
<1>2. n \in Int /\ 0 <= n /\ n < Half /\ n < M /\ 0 - M < n
  BY HalfFacts
<1>3. timeout = At(tick, n) /\ timeout \in 0 .. TickMax
  BY <1>1, <1>2, AtIsTick DEF At
<1>4. /\ left' \in [Timer -> Int] /\ timeout_tick' \in [Timer -> 0 .. TickMax]
      /\ \A u \in Timer : /\ left'[u] = IF u = t THEN n ELSE left[u]
                          /\ timeout_tick'[u] = IF u = t THEN timeout ELSE timeout_tick[u]
  BY <1>1, <1>2, <1>3 DEF Insert
<1> HIDE DEF timeout
<1>5. /\ L \in Seq(S) /\ SortedBy(L, left) /\ t \in S /\ S \subseteq Timer
      /\ \A u : On(L, u) => Queued(u)
  BY <1>1 DEF Queued
<1> HIDE DEF L, S
<1>6. /\ Without(L, t) \in Seq(S) /\ SortedBy(Without(L, t), left)
      /\ \A u : On(Without(L, t), u) <=> On(L, u) /\ u # t
  BY <1>5, ListWithout
<1>7. SortedBy(Without(L, t), left')
  <2>1. \A u \in S : On(Without(L, t), u) => left'[u] = left[u]
    BY <1>4, <1>5, <1>6
  <2> QED BY <1>6, <2>1, SortedSame
<1>8. ASSUME NEW u \in S, On(Without(L, t), u)
      PROVE  (/\ Minus(timeout_tick[u], timeout) # 0
              /\ Minus(timeout_tick[u], timeout) < Half) <=> left'[u] > left'[t]
  <2>1. u \in Timer /\ Queued(u) /\ On(L, u) /\ left'[u] = left[u] /\ left'[t] = n
    BY <1>4, <1>5, <1>6, <1>8
  <2>2. /\ left[u] \in Int /\ 0 - Half < left[u] /\ left[u] < Half
        /\ timeout_tick[u] = At(tick, left[u])
    BY <2>1, QueuedFacts
  <2>3. n - left[u] <= M - Half
    <3>1. CASE t \in Soft
      <4>1. left[u] >= 0 - MaxLate
        BY <2>1, <3>1 DEF L, IInv, Lists, SoftInTime
      <4>2. n + 2 * MaxLate <= M - Half
        BY <3>1, HalfFacts
      <4> QED BY <4>1, <4>2, <1>2, <2>2, HalfFacts
    <3>2. CASE t \notin Soft
      <4>1. left[u] >= 0 - 1
        BY <2>1, <2>2, <3>2 DEF L, IInv, Lists, HardInTime
      <4> QED BY <4>1, <1>2, <2>2, HalfFacts
    <3> QED BY <3>1, <3>2
  <2> QED BY <2>1, <2>2, <2>3, <1>1, <1>2, <1>3, LaterMeansMoreLeft
<1> DEFINE P == Place(Without(L, t), t, timeout)
<1>9. P \in Seq(S) /\ SortedBy(P, left') /\ \A u : On(P, u) <=> On(L, u) \/ u = t
  <2>1. \A u \in S : left'[u] \in Int
    BY <1>4, <1>5
  <2>2. ~On(Without(L, t), t)
    BY <1>6
  <2>3. /\ P \in Seq(S) /\ SortedBy(P, left')
        /\ \A u : On(P, u) <=> On(Without(L, t), u) \/ u = t
    BY <1>5, <1>6, <1>7, <1>8, <2>1, <2>2, ListPlace
  <2> QED BY <2>3, <1>6
<1>10. /\ hard' = IF t \in Soft THEN hard ELSE P
       /\ soft' = IF t \in Soft THEN P ELSE soft
  BY DEF Insert, L, timeout
<1> HIDE DEF P
<1>11. /\ \A u : On(hard, u)' <=> On(hard, u) \/ (u = t /\ t \notin Soft)
       /\ \A u : On(soft, u)' <=> On(soft, u) \/ (u = t /\ t \in Soft)
  <2>1. CASE t \in Soft
    <3>1. hard' = hard /\ soft' = P /\ L = soft
      BY <2>1, <1>10 DEF L
    <3>2. ASSUME NEW u PROVE (On(hard, u)' <=> On(hard, u)) /\ (On(soft, u)' <=> On(P, u))
      BY <3>1
    <3> QED BY <2>1, <3>1, <3>2, <1>9
  <2>2. CASE t \notin Soft
    <3>1. hard' = P /\ soft' = soft /\ L = hard
      BY <2>2, <1>10 DEF L
    <3>2. ASSUME NEW u PROVE (On(hard, u)' <=> On(P, u)) /\ (On(soft, u)' <=> On(soft, u))
      BY <3>1
    <3> QED BY <2>2, <3>1, <3>2, <1>9
  <2> QED BY <2>1, <2>2
<1>12. hard' \in Seq(Timer \ Soft) /\ SortedBy(hard', left')
  <2>1. CASE t \notin Soft
    BY <2>1, <1>9, <1>10 DEF S
  <2>2. CASE t \in Soft
    <3> DEFINE H == Timer \ Soft
    <3>1. \A u \in H : On(hard, u) => left'[u] = left[u]
      BY <2>2, <1>4
    <3>2. hard \in Seq(H) /\ SortedBy(hard, left)
      BY <1>1
    <3> HIDE DEF H
    <3>3. SortedBy(hard, left')
      BY <3>1, <3>2, SortedSame
    <3> QED BY <3>3, <2>2, <1>1, <1>10
  <2> QED BY <2>1, <2>2
<1>13. soft' \in Seq(Soft) /\ SortedBy(soft', left')
  <2>1. CASE t \in Soft
    BY <2>1, <1>9, <1>10 DEF S
  <2>2. CASE t \notin Soft
    <3>1. \A u \in Soft : On(soft, u) => left'[u] = left[u]
      BY <2>2, <1>1, <1>4
    <3> QED BY <3>1, <2>2, <1>1, <1>10, SortedSame
  <2> QED BY <2>1, <2>2
<1>14. ASSUME NEW u \in Timer, Queued(u)' PROVE timeout_tick'[u] = At(tick', left'[u])
  <2>1. CASE u = t
    BY <2>1, <1>3, <1>4
  <2>2. CASE u # t
    <3>1. Queued(u)
      BY <2>2, <1>11, <1>14 DEF Queued
    <3> QED BY <3>1, <2>2, <1>4 DEF IInv, Lists
  <2> QED BY <2>1, <2>2
<1>15. HardInTime'
  <2> SUFFICES ASSUME NEW u \in Timer, On(hard, u)'
      PROVE  /\ left'[u] < Half
             /\ left'[u] >= (IF irq' THEN 0 ELSE 1) - (IF u = ThreadTimer THEN 1 ELSE 0)
    BY DEF HardInTime
  <2>1. CASE u = t
    BY <2>1, <1>1, <1>2, <1>4, <1>11, QueuedFacts
  <2>2. CASE u # t
    <3>1. On(hard, u) /\ left'[u] = left[u]
      BY <2>2, <1>4, <1>11
    <3> QED BY <3>1 DEF IInv, Lists, HardInTime
  <2> QED BY <2>1, <2>2
<1>16. SoftInTime'
  <2> SUFFICES ASSUME NEW u \in Timer, On(soft, u)'
      PROVE  left'[u] >= 0 - MaxLate /\ \E k \in Inits : left'[u] <= k
    BY DEF SoftInTime
  <2>1. CASE u = t
    <3>1. t \in Soft
      BY <2>1, <1>11, QueuedFacts
    <3>2. n \in Inits /\ left'[u] = n
      BY <2>1, <3>1, <1>4
    <3> QED BY <3>2, <1>2, HalfFacts
  <2>2. CASE u # t
    <3>1. On(soft, u) /\ left'[u] = left[u]
      BY <2>2, <1>4, <1>11
    <3> QED BY <3>1 DEF IInv, Lists, SoftInTime
  <2> QED BY <2>1, <2>2
<1> QED BY <1>4, <1>11, <1>12, <1>13, <1>14, <1>15, <1>16 DEF Lists

\* rt_timer_start keeps the flags, also when it ends a callback.
LEMMA InsertKeepsFlags ==
    ASSUME IInv, NEW t \in Timer, NEW n \in Int, Insert(t, n),
           \A u : Queued(u)' <=> Queued(u) \/ u = t,
           hcb' = hcb \/ (hcb' = None /\ hcb = t),
           scb' = scb \/ (scb' = None /\ scb = t)
    PROVE  Flags' /\ active' \in [Timer -> BOOLEAN] /\ orphan' \subseteq User
           /\ htemp' \in BOOLEAN /\ stemp' \in BOOLEAN
           /\ \A u \in Timer : u # t => (active'[u] <=> active[u])
<1>1. active \in [Timer -> BOOLEAN] /\ orphan \subseteq User /\ None \notin Timer
  BY TimerAssumption DEF IInv, FieldTypes
<1>2. /\ active' = [active EXCEPT ![t] = TRUE] /\ orphan' = orphan \ {t}
      /\ htemp' = (htemp /\ hcb # t) /\ stemp' = (stemp /\ scb # t)
  BY DEF Insert
<1>3. /\ active' \in [Timer -> BOOLEAN] /\ active'[t]
      /\ \A u \in Timer : u # t => (active'[u] <=> active[u])
  BY <1>1, <1>2
<1>4. htemp' \in BOOLEAN /\ stemp' \in BOOLEAN /\ orphan' \subseteq User
  BY <1>1, <1>2
<1>5. ASSUME NEW u \in Timer, u # t PROVE Called(u)' <=> Called(u)
  BY <1>1, <1>2, <1>5 DEF Called
<1>6. ~Called(t)'
  BY <1>1, <1>2 DEF Called
<1>7. ASSUME NEW u \in Timer
      PROVE  /\ Queued(u)' \/ u \in orphan' => active'[u] /\ ~Called(u)'
             /\ active'[u] => Queued(u)' \/ u \in orphan' \/ Called(u)'
             /\ ~(Queued(u)' /\ u \in orphan')
  <2>1. CASE u = t
    BY <2>1, <1>2, <1>3, <1>6
  <2>2. CASE u # t
    BY <2>2, <1>2, <1>3, <1>5 DEF IInv, Flags
  <2> QED BY <2>1, <2>2
<1> QED BY <1>3, <1>4, <1>7 DEF Flags

\* _rt_timer_remove and the flag of the timer keep the flags.
LEMMA RemoveKeepsFlags ==
    ASSUME IInv, NEW t \in Timer, Remove(t), orphan' = orphan \ {t},
           active' = [active EXCEPT ![t] = FALSE], hcb' = hcb, scb' = scb,
           \A u : Queued(u)' <=> Queued(u) /\ u # t
    PROVE  Flags' /\ active' \in [Timer -> BOOLEAN] /\ orphan' \subseteq User
           /\ htemp' \in BOOLEAN /\ stemp' \in BOOLEAN
           /\ \A u \in Timer : active'[u] <=> active[u] /\ u # t
<1>1. active \in [Timer -> BOOLEAN] /\ orphan \subseteq User /\ None \notin Timer
  BY TimerAssumption DEF IInv, FieldTypes
<1>2. htemp' = (htemp /\ hcb # t) /\ stemp' = (stemp /\ scb # t)
  BY DEF Remove
<1>3. /\ active' \in [Timer -> BOOLEAN]
      /\ \A u \in Timer : active'[u] <=> active[u] /\ u # t
  BY <1>1
<1>4. htemp' \in BOOLEAN /\ stemp' \in BOOLEAN /\ orphan' \subseteq User
  BY <1>1, <1>2
<1>5. ASSUME NEW u \in Timer PROVE Called(u)' <=> Called(u) /\ u # t
  <2>1. CASE u = t
    BY <1>2, <2>1 DEF Called
  <2>2. CASE u # t
    BY <1>2, <1>4, <2>2 DEF Called, IInv, FieldTypes
  <2> QED BY <2>1, <2>2
<1>6. ASSUME NEW u \in Timer
      PROVE  /\ Queued(u)' \/ u \in orphan' => active'[u] /\ ~Called(u)'
             /\ active'[u] => Queued(u)' \/ u \in orphan' \/ Called(u)'
             /\ ~(Queued(u)' /\ u \in orphan')
  <2>1. CASE u = t
    BY <2>1, <1>3, <1>5
  <2>2. CASE u # t
    BY <2>2, <1>3, <1>5 DEF IInv, Flags
  <2> QED BY <2>1, <2>2
<1> QED BY <1>3, <1>4, <1>6 DEF Flags

\* A step that leaves the lists and the fields alone keeps them in order.
LEMMA SameLists ==
    ASSUME IInv, UNCHANGED <<tick, fields, hard, soft, left, irq>>
    PROVE  Lists' /\ (\A u : Queued(u)' <=> Queued(u))
<1>1. tick' = tick /\ timeout_tick' = timeout_tick /\ hard' = hard /\ soft' = soft
      /\ left' = left /\ irq' = irq
  BY DEF fields
<1> QED BY <1>1 DEF IInv, Lists, Queued, On, SortedBy, HardInTime, SoftInTime

\* ... and the flags.
LEMMA SameFlags ==
    ASSUME IInv, UNCHANGED <<active, orphan, htemp, stemp, hcb, scb>>,
           \A u : Queued(u)' <=> Queued(u)
    PROVE  Flags'
BY DEF IInv, Flags, Called

-----------------------------------------------------------------------------
(* Every step keeps the invariant.                                         *)

LEMMA InitIInv == Init => IInv
<1> SUFFICES ASSUME Init PROVE IInv
  OBVIOUS
<1>1. /\ ThreadTimer \in Timer /\ Soft \subseteq User /\ None \notin Timer
      /\ M \in Nat /\ TickMax \in Nat /\ TickMax - 1 \in Nat /\ MaxSlip \in Nat
  BY HalfFacts, TimerAssumption
<1>2. FieldTypes
  <2>1. 0 \in 0 .. TickMax /\ TickMax - 1 \in 0 .. TickMax /\ 0 \in 0 .. MaxSlip
    BY <1>1
  <2>2. tick \in 0 .. TickMax /\ next_timeout \in 0 .. TickMax /\ slip \in 0 .. MaxSlip
    BY <2>1 DEF Init
  <2>3. /\ active \in [Timer -> BOOLEAN] /\ timeout_tick \in [Timer -> 0 .. TickMax]
        /\ left \in [Timer -> Int]
    BY <2>1 DEF Init
  <2> QED BY <2>2, <2>3 DEF FieldTypes, Init
<1>3. hard = << >> /\ soft = << >> /\ \A u : ~On(hard, u) /\ ~On(soft, u)
  BY DEF Init, On
<1>4. Lists
  <2>1. SortedBy(<< >>, left)
    BY DEF SortedBy
  <2> QED BY <1>3, <2>1 DEF Lists, Queued, HardInTime, SoftInTime
<1>5. Flags
  BY <1>1, <1>3 DEF Init, Flags, Queued, Called
<1>6. Phases
  BY <1>1 DEF Init, Phases
<1> QED BY <1>2, <1>4, <1>5, <1>6 DEF IInv

\* rt_timer_start
LEMMA StartKeeps == ASSUME IInv, NEW t \in User, Start(t) PROVE IInv'
<1>1. PICK n \in Inits : Insert(t, n)
  BY DEF Start
<1>2. /\ kick' = (kick \/ t \in Soft)
      /\ missed' \in BOOLEAN /\ UNCHANGED <<tick, irq, hcb, pc, next_timeout, found, scb, slip>>
  BY DEF Start
<1>3. t \in Timer /\ t # ThreadTimer
  BY DEF User
<1>4. n \in 0 .. Half - 1 /\ n >= 1 /\ n \in Int
  BY HalfFacts
<1>5. n >= (IF irq THEN 0 ELSE 1) - (IF t = ThreadTimer THEN 1 ELSE 0)
  BY <1>3, <1>4
<1>6. /\ Lists' /\ left' \in [Timer -> Int] /\ timeout_tick' \in [Timer -> 0 .. TickMax]
      /\ \A u : /\ On(hard, u)' <=> On(hard, u) \/ (u = t /\ t \notin Soft)
                /\ On(soft, u)' <=> On(soft, u) \/ (u = t /\ t \in Soft)
  BY <1>1, <1>2, <1>3, <1>4, <1>5, InsertKeepsLists
<1>7. \A u : Queued(u)' <=> Queued(u) \/ u = t
  BY <1>6 DEF Queued
<1>8. /\ Flags' /\ active' \in [Timer -> BOOLEAN] /\ orphan' \subseteq User
      /\ htemp' \in BOOLEAN /\ stemp' \in BOOLEAN
      /\ \A u \in Timer : u # t => (active'[u] <=> active[u])
  BY <1>1, <1>2, <1>3, <1>4, <1>7, InsertKeepsFlags
<1>9. FieldTypes'
  BY <1>2, <1>6, <1>8 DEF IInv, FieldTypes
<1>10. Phases'
  BY <1>2, <1>3, <1>8, TimerAssumption DEF IInv, Phases
<1> QED BY <1>6, <1>8, <1>9, <1>10 DEF IInv

\* rt_timer_stop, rt_timer_detach, rt_timer_delete
LEMMA StopKeeps ==
    ASSUME IInv, NEW t \in User, NEW c \in BOOLEAN, Stop(t, c) PROVE IInv'
<1>1. /\ Remove(t) /\ Forget(t) /\ active' = [active EXCEPT ![t] = FALSE]
      /\ orphan' = orphan \ {t}
      /\ UNCHANGED <<tick, irq, hcb, pc, next_timeout, found, missed, scb, kick, slip>>
  BY DEF Stop
<1>2. t \in Timer /\ t # ThreadTimer
  BY DEF User
<1>3. /\ Lists' /\ left' \in [Timer -> Int] /\ timeout_tick' \in [Timer -> 0 .. TickMax]
      /\ \A u : /\ On(hard, u)' <=> On(hard, u) /\ u # t
                /\ On(soft, u)' <=> On(soft, u) /\ u # t
  BY <1>1, <1>2, RemoveKeepsLists DEF Remove
<1>4. \A u : Queued(u)' <=> Queued(u) /\ u # t
  BY <1>3 DEF Queued
<1>5. /\ Flags' /\ active' \in [Timer -> BOOLEAN] /\ orphan' \subseteq User
      /\ htemp' \in BOOLEAN /\ stemp' \in BOOLEAN
      /\ \A u \in Timer : active'[u] <=> active[u] /\ u # t
  BY <1>1, <1>2, <1>4, RemoveKeepsFlags
<1>6. FieldTypes'
  BY <1>1, <1>3, <1>5 DEF IInv, FieldTypes
<1>7. Phases'
  BY <1>1, <1>2, <1>5, TimerAssumption DEF IInv, Phases
<1> QED BY <1>3, <1>5, <1>6, <1>7 DEF IInv

\* The timer thread's timer is taken off its list, by rt_thread_resume or
\* because it has run out, and the thread goes on.
LEMMA WakeKeeps ==
    ASSUME IInv, Remove(ThreadTimer), Forget(ThreadTimer), scb = None,
           active' = [active EXCEPT ![ThreadTimer] = FALSE], pc' = "check",
           kick' \in BOOLEAN,
           found' = FALSE /\ missed' = FALSE /\ slip' = 0,
           UNCHANGED <<tick, irq, hcb, next_timeout, scb, orphan>>
    PROVE  /\ IInv'
           /\ \A u : /\ On(hard, u)' <=> On(hard, u) /\ u # ThreadTimer
                     /\ On(soft, u)' <=> On(soft, u) /\ u # ThreadTimer
           /\ \A u \in Timer : u # ThreadTimer => left'[u] = left[u]
<1>1. ThreadTimer \in Timer /\ ThreadTimer \notin User
  BY TimerAssumption DEF User
<1>2. orphan' = orphan \ {ThreadTimer}
  BY <1>1 DEF IInv, FieldTypes
<1>3. /\ Lists' /\ left' \in [Timer -> Int] /\ timeout_tick' \in [Timer -> 0 .. TickMax]
      /\ \A u : /\ On(hard, u)' <=> On(hard, u) /\ u # ThreadTimer
                /\ On(soft, u)' <=> On(soft, u) /\ u # ThreadTimer
      /\ \A u \in Timer : u # ThreadTimer => left'[u] = left[u]
  BY <1>1, RemoveKeepsLists DEF Remove
<1>4. \A u : Queued(u)' <=> Queued(u) /\ u # ThreadTimer
  BY <1>3 DEF Queued
<1>5. /\ Flags' /\ active' \in [Timer -> BOOLEAN] /\ orphan' \subseteq User
      /\ htemp' \in BOOLEAN /\ stemp' \in BOOLEAN
      /\ \A u \in Timer : active'[u] <=> active[u] /\ u # ThreadTimer
  BY <1>1, <1>2, <1>4, RemoveKeepsFlags
<1>6. FieldTypes'
  <2>1. 0 \in 0 .. MaxSlip
    BY TimerAssumption
  <2>2. slip' \in 0 .. MaxSlip /\ found' \in BOOLEAN /\ missed' \in BOOLEAN
    BY <2>1
  <2> QED BY <1>3, <1>5, <2>2 DEF IInv, FieldTypes
<1>7. Phases'
  BY <1>1, <1>5, TimerAssumption DEF IInv, Phases
<1> QED BY <1>3, <1>5, <1>6, <1>7 DEF IInv

\* the end of rt_timer_start
LEMMA KickKeeps == ASSUME IInv, Kick PROVE IInv'
<1>1. CASE pc = "asleep" /\ scb = None
  BY <1>1, WakeKeeps DEF Kick, Awake
<1>2. CASE ~(pc = "asleep" /\ scb = None)
  <2>1. /\ kick' = FALSE
        /\ UNCHANGED <<tick, fields, hard, soft, left, irq>>
        /\ UNCHANGED <<active, orphan, htemp, stemp, hcb, scb>>
        /\ UNCHANGED <<pc, next_timeout, found, missed, slip>>
    BY <1>2 DEF Kick, lists, fields
  <2>2. Lists' /\ Flags'
    BY <2>1, SameLists, SameFlags
  <2>3. FieldTypes' /\ Phases'
    BY <2>1 DEF fields, IInv, FieldTypes, Phases
  <2> QED BY <2>2, <2>3 DEF IInv
<1> QED BY <1>1, <1>2

\* the tick interrupt, up to rt_timer_check
LEMMA TickKeeps == ASSUME IInv, Tick PROVE IInv'
<1>1. /\ ~irq /\ irq' = TRUE /\ tick' = Plus(tick, 1)
      /\ \A t \in Soft : active[t] => left[t] > 0 - MaxLate
      /\ left' = [t \in Timer |-> IF On(hard, t) \/ On(soft, t) THEN left[t] - 1 ELSE left[t]]
      /\ slip' = IF pc = "delay" THEN slip + 1 ELSE slip
      /\ pc = "delay" => slip < MaxSlip
      /\ timeout_tick' = timeout_tick /\ active' = active
      /\ hard' = hard /\ soft' = soft /\ htemp' = htemp /\ stemp' = stemp
      /\ UNCHANGED <<hcb, pc, next_timeout, found, missed, scb, kick, orphan>>
  BY DEF Tick, fields, lists
<1>2. /\ hard \in Seq(Timer \ Soft) /\ soft \in Seq(Soft)
      /\ SortedBy(hard, left) /\ SortedBy(soft, left)
      /\ left \in [Timer -> Int] /\ tick \in 0 .. TickMax /\ Soft \subseteq Timer
  BY TimerAssumption DEF IInv, Lists, FieldTypes, User
<1>3. /\ left' \in [Timer -> Int]
      /\ \A t \in Timer : Queued(t) => left'[t] = left[t] - 1
  BY <1>1, <1>2 DEF Queued
<1>4. \A u : /\ On(hard, u)' <=> On(hard, u)
             /\ On(soft, u)' <=> On(soft, u)
             /\ Queued(u)' <=> Queued(u)
  BY <1>1 DEF Queued
<1>5. SortedBy(hard', left')
  <2>1. \A i \in 1 .. Len(hard) : /\ hard[i] \in Timer /\ left[hard[i]] \in Int
                                  /\ left'[hard[i]] = left[hard[i]] - 1
    BY <1>2, <1>3, Places DEF Queued
  <2> QED BY <2>1, <1>1, <1>2 DEF SortedBy
<1>6. SortedBy(soft', left')
  <2>1. \A i \in 1 .. Len(soft) : /\ soft[i] \in Timer /\ left[soft[i]] \in Int
                                  /\ left'[soft[i]] = left[soft[i]] - 1
    BY <1>2, <1>3, Places DEF Queued
  <2> QED BY <2>1, <1>1, <1>2 DEF SortedBy
<1>7. tick' \in 0 .. TickMax
  <2>1. 1 - M < 0 /\ 0 < M
    BY HalfFacts
  <2> QED BY <2>1, <1>1, <1>2, AtLater
<1>8. ASSUME NEW t \in Timer, Queued(t)' PROVE timeout_tick'[t] = At(tick', left'[t])
  <2>1. /\ Queued(t) /\ left'[t] = left[t] - 1 /\ left[t] \in Int
        /\ timeout_tick[t] = At(tick, left[t])
        /\ 1 - M < left[t] /\ left[t] < M
    BY <1>3, <1>4, <1>8, HalfFacts, QueuedFacts
  <2> QED BY <2>1, <1>1, <1>2, AtLater
<1>9. HardInTime'
  <2> SUFFICES ASSUME NEW t \in Timer, On(hard, t)'
      PROVE  /\ left'[t] < Half
             /\ left'[t] >= (IF irq' THEN 0 ELSE 1) - (IF t = ThreadTimer THEN 1 ELSE 0)
    BY DEF HardInTime
  <2>1. On(hard, t) /\ left'[t] = left[t] - 1 /\ left[t] \in Int
    BY <1>2, <1>3, <1>4 DEF Queued
  <2>2. left[t] < Half /\ left[t] >= 1 - (IF t = ThreadTimer THEN 1 ELSE 0)
    BY <2>1, <1>1 DEF IInv, Lists, HardInTime
  <2> QED BY <2>1, <2>2, <1>1, HalfFacts
<1>10. SoftInTime'
  <2> SUFFICES ASSUME NEW t \in Timer, On(soft, t)'
      PROVE  left'[t] >= 0 - MaxLate /\ \E n \in Inits : left'[t] <= n
    BY DEF SoftInTime
  <2>1. On(soft, t) /\ left'[t] = left[t] - 1 /\ left[t] \in Int /\ t \in Soft /\ Queued(t)
    BY <1>2, <1>3, <1>4, QueuedFacts DEF Queued
  <2>2. left[t] > 0 - MaxLate
    BY <2>1, <1>1 DEF IInv, Flags
  <2>3. PICK n \in Inits : left[t] <= n
    BY <2>1 DEF IInv, Lists, SoftInTime
  <2>4. n \in Int /\ MaxLate \in Int
    BY HalfFacts
  <2> QED BY <2>1, <2>2, <2>3, <2>4
<1>11. Lists'
  BY <1>1, <1>2, <1>5, <1>6, <1>8, <1>9, <1>10 DEF Lists
<1>12. Flags'
  BY <1>1, <1>4, SameFlags
<1>13. slip' \in 0 .. MaxSlip
  BY <1>1, TimerAssumption DEF IInv, FieldTypes
<1>14. FieldTypes'
  BY <1>1, <1>3, <1>7, <1>13 DEF IInv, FieldTypes
<1>15. Phases'
  BY <1>1 DEF IInv, Phases
<1> QED BY <1>11, <1>12, <1>14, <1>15 DEF IInv

\* A check calls the callback of t, which it has taken off its list.
LEMMA FireKeepsFlags ==
    ASSUME IInv, NEW t \in User, Queued(t), NEW p \in BOOLEAN,
           active' = [active EXCEPT ![t] = p], orphan' = orphan,
           \/ /\ hcb = None /\ hcb' = t /\ htemp' = TRUE /\ scb' = scb /\ stemp' = stemp
           \/ /\ scb = None /\ scb' = t /\ stemp' = TRUE /\ hcb' = hcb /\ htemp' = htemp,
           \A u : Queued(u)' <=> Queued(u) /\ u # t
    PROVE  Flags' /\ active' \in [Timer -> BOOLEAN]
           /\ \A u \in Timer : u # t => (active'[u] <=> active[u])
<1>1. /\ active \in [Timer -> BOOLEAN] /\ None \notin Timer /\ t \in Timer
      /\ htemp \in BOOLEAN /\ stemp \in BOOLEAN
  BY TimerAssumption DEF IInv, FieldTypes, User
<1>2. /\ active' \in [Timer -> BOOLEAN] /\ active'[t] = p
      /\ \A u \in Timer : u # t => (active'[u] <=> active[u])
  BY <1>1
<1>3. ~Called(t) /\ t \notin orphan
  BY <1>1 DEF IInv, Flags
<1>4. Called(t)'
  BY DEF Called
<1>5. ASSUME NEW u \in Timer, u # t PROVE Called(u)' <=> Called(u)
  BY <1>1, <1>5 DEF Called
<1>6. ASSUME NEW u \in Timer
      PROVE  /\ Queued(u)' \/ u \in orphan' => active'[u] /\ ~Called(u)'
             /\ active'[u] => Queued(u)' \/ u \in orphan' \/ Called(u)'
             /\ ~(Queued(u)' /\ u \in orphan')
  <2>1. CASE u = t
    BY <2>1, <1>3, <1>4
  <2>2. CASE u # t
    BY <2>2, <1>2, <1>5 DEF IInv, Flags
  <2> QED BY <2>1, <2>2
<1> QED BY <1>2, <1>6 DEF Flags

\* rt_timer_check calls a timer's callback
LEMMA HardFireKeeps == ASSUME IInv, HardFire PROVE IInv'
<1> DEFINE t == hard[1]
<1>1. PICK p \in BOOLEAN : active' = [active EXCEPT ![t] = p]
  BY DEF HardFire, Periodic
<1>2. /\ irq /\ hcb = None /\ hard # << >> /\ t # ThreadTimer
      /\ hard' = Without(hard, t) /\ Forget(t) /\ hcb' = t /\ htemp' = TRUE
      /\ UNCHANGED <<tick, soft, stemp, irq, pc, next_timeout, found, missed, scb, kick, slip, orphan>>
  BY DEF HardFire
<1>3. t \in Timer \ Soft /\ On(hard, t) /\ ~On(soft, t)
  BY <1>2, FirstFacts, QueuedFacts
<1> HIDE DEF t
<1>4. t \in User /\ t \in User \ Soft /\ Queued(t) /\ soft' = Without(soft, t)
  BY <1>2, <1>3, WithoutSame DEF User, Queued
<1>5. /\ Lists' /\ left' \in [Timer -> Int] /\ timeout_tick' \in [Timer -> 0 .. TickMax]
      /\ \A u : /\ On(hard, u)' <=> On(hard, u) /\ u # t
                /\ On(soft, u)' <=> On(soft, u) /\ u # t
  BY <1>2, <1>3, <1>4, RemoveKeepsLists
<1>6. \A u : Queued(u)' <=> Queued(u) /\ u # t
  BY <1>5 DEF Queued
<1>7. /\ Flags' /\ active' \in [Timer -> BOOLEAN]
      /\ \A u \in Timer : u # t => (active'[u] <=> active[u])
  BY <1>1, <1>2, <1>4, <1>6, FireKeepsFlags
<1>8. FieldTypes'
  BY <1>2, <1>4, <1>5, <1>7 DEF IInv, FieldTypes
<1>9. Phases'
  BY <1>2, <1>7, TimerAssumption DEF IInv, Phases
<1> QED BY <1>5, <1>7, <1>8, <1>9 DEF IInv

\* rt_thread_timeout of the timer thread
LEMMA ThreadTimeoutWakes ==
    ASSUME IInv, ThreadTimeout
    PROVE  /\ Remove(ThreadTimer) /\ Forget(ThreadTimer) /\ scb = None
           /\ active' = [active EXCEPT ![ThreadTimer] = FALSE] /\ pc' = "check"
           /\ kick' \in BOOLEAN /\ kick' = kick
           /\ found' = FALSE /\ missed' = FALSE /\ slip' = 0
           /\ UNCHANGED <<tick, irq, hcb, next_timeout, scb, orphan>>
<1>1. /\ hard # << >> /\ hard[1] = ThreadTimer
      /\ hard' = Without(hard, ThreadTimer) /\ Forget(ThreadTimer)
      /\ active' = [active EXCEPT ![ThreadTimer] = FALSE] /\ pc' = "check"
      /\ htemp' = htemp /\ stemp' = stemp
      /\ found' = FALSE /\ missed' = FALSE /\ slip' = 0
      /\ UNCHANGED <<tick, soft, irq, hcb, next_timeout, scb, kick, orphan>>
  BY DEF ThreadTimeout, Awake
<1>2. ThreadTimer \in Timer /\ ThreadTimer \notin User /\ ThreadTimer # None
  BY TimerAssumption DEF User
<1>3. On(hard, ThreadTimer) /\ ~On(soft, ThreadTimer)
  BY <1>1, <1>2, FirstFacts, QueuedFacts
<1>4. soft' = Without(soft, ThreadTimer)
  BY <1>1, <1>3, WithoutSame
<1>5. hcb # ThreadTimer /\ scb # ThreadTimer /\ htemp \in BOOLEAN /\ stemp \in BOOLEAN
      /\ kick \in BOOLEAN
  BY <1>2, TimerAssumption DEF IInv, FieldTypes
<1>6. Remove(ThreadTimer)
  BY <1>1, <1>4, <1>5 DEF Remove
<1>7. active[ThreadTimer]
  BY <1>2, <1>3 DEF IInv, Flags, Queued
<1>8. pc = "asleep"
  BY <1>7 DEF IInv, Phases
<1>9. scb = None
  BY <1>8 DEF IInv, Phases
<1> QED BY <1>1, <1>5, <1>6, <1>9

LEMMA ThreadTimeoutKeeps == ASSUME IInv, ThreadTimeout PROVE IInv'
<1>1. /\ Remove(ThreadTimer) /\ Forget(ThreadTimer) /\ scb = None
      /\ active' = [active EXCEPT ![ThreadTimer] = FALSE] /\ pc' = "check"
      /\ kick' \in BOOLEAN
      /\ found' = FALSE /\ missed' = FALSE /\ slip' = 0
           /\ UNCHANGED <<tick, irq, hcb, next_timeout, scb, orphan>>
  BY ThreadTimeoutWakes
<1> QED BY <1>1, WakeKeeps

\* What both checks do after a callback: the timer starts again, is left
\* without a list, or was stopped or started by its callback.
LEMMA RestartKeeps ==
    ASSUME IInv, NEW t \in User, NEW temp \in BOOLEAN, Restart(t, temp),
           \/ t = hcb /\ (temp <=> htemp) /\ hcb' = None /\ scb' = scb
           \/ t = scb /\ (temp <=> stemp) /\ scb' = None /\ hcb' = hcb,
           tick' = tick, irq' = irq
    PROVE  /\ Lists' /\ Flags'
           /\ left' \in [Timer -> Int] /\ timeout_tick' \in [Timer -> 0 .. TickMax]
           /\ active' \in [Timer -> BOOLEAN] /\ orphan' \subseteq User
           /\ htemp' \in BOOLEAN /\ stemp' \in BOOLEAN
           /\ active'[ThreadTimer] <=> active[ThreadTimer]
           /\ \/ \A u : On(soft, u)' <=> On(soft, u)
              \/ t \in Soft
           /\ \A u \in Timer : u # t => left'[u] = left[u]
<1>1. /\ t \in Timer /\ t # ThreadTimer /\ ThreadTimer \in Timer /\ None \notin Timer
      /\ htemp \in BOOLEAN /\ stemp \in BOOLEAN /\ orphan \subseteq User
      /\ active \in [Timer -> BOOLEAN] /\ hcb \notin Soft /\ scb \in Soft \cup {None}
      /\ left \in [Timer -> Int] /\ timeout_tick \in [Timer -> 0 .. TickMax]
  BY TimerAssumption DEF IInv, FieldTypes, User
<1>2. ASSUME NEW n \in Inits, Insert(t, n)
      PROVE  /\ Lists' /\ Flags'
             /\ left' \in [Timer -> Int] /\ timeout_tick' \in [Timer -> 0 .. TickMax]
             /\ active' \in [Timer -> BOOLEAN] /\ orphan' \subseteq User
             /\ htemp' \in BOOLEAN /\ stemp' \in BOOLEAN
             /\ active'[ThreadTimer] <=> active[ThreadTimer]
             /\ \/ \A u : On(soft, u)' <=> On(soft, u)
                \/ t \in Soft
             /\ \A u \in Timer : u # t => left'[u] = left[u]
  <2>1. n \in 0 .. Half - 1 /\ n >= 1 /\ n \in Int
    BY HalfFacts
  <2>2. n >= (IF irq THEN 0 ELSE 1) - (IF t = ThreadTimer THEN 1 ELSE 0)
    BY <1>1, <2>1
  <2>3. /\ Lists' /\ left' \in [Timer -> Int] /\ timeout_tick' \in [Timer -> 0 .. TickMax]
        /\ \A u : /\ On(hard, u)' <=> On(hard, u) \/ (u = t /\ t \notin Soft)
                  /\ On(soft, u)' <=> On(soft, u) \/ (u = t /\ t \in Soft)
        /\ \A u \in Timer : left'[u] = IF u = t THEN n ELSE left[u]
    BY <1>1, <1>2, <2>1, <2>2, InsertKeepsLists
  <2>4. \A u : Queued(u)' <=> Queued(u) \/ u = t
    BY <2>3 DEF Queued
  <2>5. /\ Flags' /\ active' \in [Timer -> BOOLEAN] /\ orphan' \subseteq User
        /\ htemp' \in BOOLEAN /\ stemp' \in BOOLEAN
        /\ \A u \in Timer : u # t => (active'[u] <=> active[u])
    BY <1>1, <1>2, <2>1, <2>4, InsertKeepsFlags
  <2> QED BY <1>1, <2>3, <2>5
<1>3. ASSUME htemp' = (htemp /\ hcb # t), stemp' = (stemp /\ scb # t),
             orphan' = IF temp /\ active[t] THEN orphan \cup {t} ELSE orphan,
             UNCHANGED <<hard, soft, active, timeout_tick, left>>
      PROVE  /\ Lists' /\ Flags'
             /\ left' \in [Timer -> Int] /\ timeout_tick' \in [Timer -> 0 .. TickMax]
             /\ active' \in [Timer -> BOOLEAN] /\ orphan' \subseteq User
             /\ htemp' \in BOOLEAN /\ stemp' \in BOOLEAN
             /\ active'[ThreadTimer] <=> active[ThreadTimer]
             /\ \/ \A u : On(soft, u)' <=> On(soft, u)
                \/ t \in Soft
             /\ \A u \in Timer : u # t => left'[u] = left[u]
  <2>1. htemp' \in BOOLEAN /\ stemp' \in BOOLEAN /\ orphan' \subseteq User
    BY <1>1, <1>3
  <2>2. UNCHANGED <<tick, fields, hard, soft, left, irq>>
    BY <1>3 DEF fields
  <2>3. Lists' /\ \A u : Queued(u)' <=> Queued(u)
    BY <2>2, SameLists
  <2>4. Called(t) <=> temp
    BY <1>1 DEF Called
  <2>5. ~Called(t)'
    BY <1>1, <1>3, <2>1 DEF Called
  <2>6. ASSUME NEW u \in Timer, u # t PROVE Called(u)' <=> Called(u)
    BY <1>1, <1>3, <2>1, <2>6 DEF Called
  <2>7. ASSUME NEW u \in Timer
        PROVE  /\ Queued(u)' \/ u \in orphan' => active'[u] /\ ~Called(u)'
               /\ active'[u] => Queued(u)' \/ u \in orphan' \/ Called(u)'
               /\ ~(Queued(u)' /\ u \in orphan')
    <3>1. CASE u = t
      BY <3>1, <1>3, <2>3, <2>4, <2>5 DEF IInv, Flags
    <3>2. CASE u # t
      BY <3>2, <1>3, <2>3, <2>6 DEF IInv, Flags
    <3> QED BY <3>1, <3>2
  <2>8. \A u : On(soft, u)' <=> On(soft, u)
    BY <1>3
  <2> QED BY <1>1, <1>3, <2>1, <2>3, <2>7, <2>8 DEF Flags
<1> QED BY <1>2, <1>3 DEF Restart

LEMMA HardReturnKeeps == ASSUME IInv, HardReturn PROVE IInv'
<1>1. /\ hcb # None /\ Restart(hcb, htemp) /\ hcb' = None
      /\ UNCHANGED <<tick, irq, pc, next_timeout, found, missed, scb, kick, slip>>
  BY DEF HardReturn
<1>2. hcb \in User /\ htemp \in BOOLEAN
  BY <1>1 DEF IInv, FieldTypes
<1>3. /\ Lists' /\ Flags'
      /\ left' \in [Timer -> Int] /\ timeout_tick' \in [Timer -> 0 .. TickMax]
      /\ active' \in [Timer -> BOOLEAN] /\ orphan' \subseteq User
      /\ htemp' \in BOOLEAN /\ stemp' \in BOOLEAN
      /\ active'[ThreadTimer] <=> active[ThreadTimer]
  BY <1>1, <1>2, RestartKeeps
<1>4. FieldTypes'
  BY <1>1, <1>3 DEF IInv, FieldTypes
<1>5. Phases'
  BY <1>1, <1>3 DEF IInv, Phases
<1> QED BY <1>3, <1>4, <1>5 DEF IInv

\* At the end of the interrupt no hard timer is due.
LEMMA NoneDue ==
    ASSUME IInv, CheckDone
    PROVE  \A t \in Timer : On(hard, t) => left[t] > 0
<1> SUFFICES ASSUME NEW t \in Timer, On(hard, t) PROVE left[t] > 0
  OBVIOUS
<1>1. hard # << >> /\ hard[1] \in Timer /\ On(hard, hard[1]) /\ left[hard[1]] <= left[t]
  BY FirstFacts
<1>2. ~Due(hard[1])
  BY <1>1 DEF CheckDone
<1>3. left[hard[1]] > 0 /\ left[hard[1]] \in Int /\ left[t] \in Int
  BY <1>1, <1>2, QueuedFacts DEF Queued
<1> QED BY <1>1, <1>3

LEMMA CheckDoneKeeps == ASSUME IInv, CheckDone PROVE IInv'
<1>1. /\ irq' = FALSE /\ hcb = None /\ hcb' = hcb /\ scb' = scb /\ pc' = pc
      /\ tick' = tick /\ timeout_tick' = timeout_tick /\ active' = active
      /\ hard' = hard /\ soft' = soft /\ htemp' = htemp /\ stemp' = stemp
      /\ left' = left /\ orphan' = orphan
      /\ UNCHANGED <<next_timeout, found, missed, kick, slip>>
  BY DEF CheckDone, fields, lists
<1>2. HardInTime'
  <2> SUFFICES ASSUME NEW t \in Timer, On(hard, t)'
      PROVE  /\ left'[t] < Half
             /\ left'[t] >= (IF irq' THEN 0 ELSE 1) - (IF t = ThreadTimer THEN 1 ELSE 0)
    BY DEF HardInTime
  <2>1. On(hard, t) /\ left'[t] = left[t] /\ left[t] \in Int /\ left[t] > 0 /\ left[t] < Half
    BY <1>1, NoneDue, QueuedFacts DEF Queued
  <2> QED BY <2>1, <1>1
<1>3. Lists'
  <2>1. \A u : (On(hard, u)' <=> On(hard, u)) /\ (On(soft, u)' <=> On(soft, u))
    BY <1>1
  <2>2. \A u : Queued(u)' <=> Queued(u)
    BY <2>1 DEF Queued
  <2>3. SoftInTime'
    BY <2>1, <1>1 DEF IInv, Lists, SoftInTime
  <2> QED BY <1>1, <1>2, <2>2, <2>3 DEF IInv, Lists
<1>4. Flags'
  <2>1. \A u : Queued(u)' <=> Queued(u)
    BY <1>1 DEF Queued
  <2> QED BY <2>1, <1>1, SameFlags
<1>5. FieldTypes' /\ Phases'
  BY <1>1 DEF IInv, FieldTypes, Phases
<1> QED BY <1>3, <1>4, <1>5 DEF IInv

\* The steps of the timer thread that only look.
LEMMA LookingKeeps ==
    ASSUME IInv, NextTimeout \/ Suspend \/ ReadTick \/ SoftDone \/ UNCHANGED vars
    PROVE  IInv'
<1>1. /\ UNCHANGED <<tick, fields, hard, soft, left, irq>>
      /\ UNCHANGED <<active, orphan, htemp, stemp, hcb, scb>>
      /\ kick' = kick
  BY DEF NextTimeout, Suspend, ReadTick, SoftDone, vars, fields, lists
<1>2. Lists' /\ Flags'
  BY <1>1, SameLists, SameFlags
<1>3. \A a, b \in 0 .. TickMax : Minus(a, b) \in 0 .. TickMax
  BY HalfFacts DEF Minus
<1>4. /\ pc' \in {"next", "decide", "delay", "asleep", "check", "cb"}
      /\ next_timeout' \in 0 .. TickMax /\ found' \in BOOLEAN /\ missed' \in BOOLEAN
      /\ slip' \in 0 .. MaxSlip
  <2>1. soft # << >> => timeout_tick[soft[1]] \in 0 .. TickMax
    BY FirstFacts, TimerAssumption DEF IInv, FieldTypes, User
  <2>2. 0 \in 0 .. TickMax /\ TickMax \in 0 .. TickMax /\ 0 \in 0 .. MaxSlip
    BY HalfFacts, TimerAssumption
  <2>3. CASE NextTimeout
    BY <2>1, <2>2, <2>3 DEF IInv, FieldTypes, NextTimeout
  <2>4. CASE Suspend
    BY <2>2, <2>4 DEF IInv, FieldTypes, Suspend
  <2>5. CASE ReadTick
    BY <2>2, <2>5, <1>3 DEF IInv, FieldTypes, ReadTick, Awake
  <2>6. CASE SoftDone
    BY <2>6 DEF IInv, FieldTypes, SoftDone
  <2>7. CASE UNCHANGED vars
    BY <2>7 DEF IInv, FieldTypes, vars
  <2> QED BY <2>3, <2>4, <2>5, <2>6, <2>7
<1>5. FieldTypes'
  BY <1>1, <1>4 DEF IInv, FieldTypes, fields
<1>6. Phases'
  <2>1. CASE NextTimeout
    BY <1>1, <2>1 DEF IInv, Phases, NextTimeout, fields
  <2>2. CASE Suspend
    BY <1>1, <2>2 DEF IInv, Phases, Suspend, fields
  <2>3. CASE ReadTick
    BY <1>1, <2>3 DEF IInv, Phases, ReadTick, Awake, fields
  <2>4. CASE SoftDone
    BY <1>1, <2>4 DEF IInv, Phases, SoftDone, fields
  <2>5. CASE UNCHANGED vars
    BY <2>5 DEF IInv, Phases, vars, fields
  <2> QED BY <2>1, <2>2, <2>3, <2>4, <2>5
<1> QED BY <1>2, <1>5, <1>6 DEF IInv

\* rt_thread_delay
LEMMA DelayKeeps == ASSUME IInv, Delay PROVE IInv'
<1>1. /\ ~irq /\ pc = "delay" /\ pc' = "asleep" /\ next_timeout' = 0
      /\ Insert(ThreadTimer, next_timeout)
      /\ UNCHANGED <<tick, found, missed, irq, hcb, scb, kick, slip>>
  BY DEF Delay
<1>2. /\ ThreadTimer \in Timer /\ ThreadTimer \notin Soft
      /\ next_timeout \in 0 .. Half - 1 /\ next_timeout \in Int
  BY <1>1, HalfFacts, TimerAssumption DEF User, IInv, FieldTypes, Phases
<1>3. next_timeout >= (IF irq THEN 0 ELSE 1) - (IF ThreadTimer = ThreadTimer THEN 1 ELSE 0)
  BY <1>1, <1>2
<1>4. /\ Lists' /\ left' \in [Timer -> Int] /\ timeout_tick' \in [Timer -> 0 .. TickMax]
      /\ \A u : /\ On(hard, u)' <=> On(hard, u) \/ (u = ThreadTimer /\ ThreadTimer \notin Soft)
                /\ On(soft, u)' <=> On(soft, u) \/ (u = ThreadTimer /\ ThreadTimer \in Soft)
  BY <1>1, <1>2, <1>3, InsertKeepsLists
<1>5. \A u : Queued(u)' <=> Queued(u) \/ u = ThreadTimer
  BY <1>2, <1>4 DEF Queued
<1>6. /\ Flags' /\ active' \in [Timer -> BOOLEAN] /\ orphan' \subseteq User
      /\ htemp' \in BOOLEAN /\ stemp' \in BOOLEAN
  BY <1>1, <1>2, <1>5, InsertKeepsFlags
<1>7. FieldTypes'
  BY <1>1, <1>4, <1>6, HalfFacts DEF IInv, FieldTypes
<1>8. Phases'
  BY <1>1 DEF IInv, Phases
<1> QED BY <1>4, <1>6, <1>7, <1>8 DEF IInv

\* rt_soft_timer_check calls a timer's callback
LEMMA SoftFireKeeps == ASSUME IInv, SoftFire PROVE IInv'
<1> DEFINE t == soft[1]
<1>1. PICK p \in BOOLEAN : active' = [active EXCEPT ![t] = p]
  BY DEF SoftFire, Periodic
<1>2. /\ pc = "check" /\ soft # << >>
      /\ soft' = Without(soft, t) /\ Forget(t) /\ scb' = t /\ stemp' = TRUE /\ pc' = "cb"
      /\ UNCHANGED <<tick, hard, htemp, irq, hcb, next_timeout, found, missed, kick, slip, orphan>>
  BY DEF SoftFire
<1>3. t \in Soft /\ t \in User /\ t \in Timer /\ On(soft, t) /\ ~On(hard, t) /\ scb = None
  BY <1>2, FirstFacts, QueuedFacts DEF User, IInv, Phases
<1> HIDE DEF t
<1>4. Queued(t) /\ hard' = Without(hard, t)
  BY <1>2, <1>3, WithoutSame DEF Queued
<1>5. /\ Lists' /\ left' \in [Timer -> Int] /\ timeout_tick' \in [Timer -> 0 .. TickMax]
      /\ \A u : /\ On(hard, u)' <=> On(hard, u) /\ u # t
                /\ On(soft, u)' <=> On(soft, u) /\ u # t
  BY <1>2, <1>3, <1>4, RemoveKeepsLists
<1>6. \A u : Queued(u)' <=> Queued(u) /\ u # t
  BY <1>5 DEF Queued
<1>7. /\ Flags' /\ active' \in [Timer -> BOOLEAN]
      /\ \A u \in Timer : u # t => (active'[u] <=> active[u])
  BY <1>1, <1>2, <1>3, <1>4, <1>6, FireKeepsFlags
<1>8. FieldTypes'
  BY <1>2, <1>3, <1>5, <1>7 DEF IInv, FieldTypes
<1>9. Phases'
  <2>1. t # None /\ t # ThreadTimer
    BY <1>3, TimerAssumption DEF User
  <2> QED BY <2>1, <1>2, <1>7, TimerAssumption DEF IInv, Phases
<1> QED BY <1>5, <1>7, <1>8, <1>9 DEF IInv

LEMMA SoftReturnKeeps == ASSUME IInv, SoftReturn PROVE IInv'
<1>1. /\ pc = "cb" /\ Restart(scb, stemp) /\ scb' = None /\ pc' = "check"
      /\ UNCHANGED <<tick, irq, hcb, next_timeout, found, missed, kick, slip>>
  BY DEF SoftReturn
<1>2. scb \in User /\ stemp \in BOOLEAN
  BY <1>1, TimerAssumption DEF IInv, FieldTypes, Phases
<1>3. /\ Lists' /\ Flags'
      /\ left' \in [Timer -> Int] /\ timeout_tick' \in [Timer -> 0 .. TickMax]
      /\ active' \in [Timer -> BOOLEAN] /\ orphan' \subseteq User
      /\ htemp' \in BOOLEAN /\ stemp' \in BOOLEAN
      /\ active'[ThreadTimer] <=> active[ThreadTimer]
  BY <1>1, <1>2, RestartKeeps
<1>4. FieldTypes'
  BY <1>1, <1>3 DEF IInv, FieldTypes
<1>5. Phases'
  BY <1>1, <1>3 DEF IInv, Phases
<1> QED BY <1>3, <1>4, <1>5 DEF IInv

LEMMA NextIInv == IInv /\ [Next]_vars => IInv'
<1> SUFFICES ASSUME IInv, [Next]_vars PROVE IInv'
  OBVIOUS
<1>1. CASE Calls
  BY <1>1, StartKeeps, StopKeeps DEF Calls
<1>2. CASE Kick
  BY <1>2, KickKeeps
<1>3. CASE Tick
  BY <1>3, TickKeeps
<1>4. CASE Isr
  BY <1>4, HardFireKeeps, ThreadTimeoutKeeps, HardReturnKeeps, CheckDoneKeeps DEF Isr
<1>5. CASE Thread
  BY <1>5, LookingKeeps, DelayKeeps, SoftFireKeeps, SoftReturnKeeps DEF Thread
<1>6. CASE UNCHANGED vars
  BY <1>6, LookingKeeps
<1> QED BY <1>1, <1>2, <1>3, <1>4, <1>5, <1>6 DEF Next

LEMMA Invariance == Spec => []IInv
BY InitIInv, NextIInv, PTL DEF Spec

-----------------------------------------------------------------------------
(* The timer thread does not sleep past a timer.                           *)

\* What holds of every place of a list holds of every timer on it.
LEMMA ByPlace ==
    ASSUME NEW l \in Seq(Soft), NEW p, NEW k, NEW s
    PROVE  /\ (\A i \in 1 .. Len(l) : k <= p[l[i]] + s)
                  <=> (\A t \in Timer : On(l, t) => k <= p[t] + s)
           /\ l = << >> <=> \A t \in Timer : ~On(l, t)
<1>1. Soft \subseteq Timer
  BY TimerAssumption DEF User
<1>2. l = << >> <=> \A t \in Timer : ~On(l, t)
  BY <1>1, Places
<1> QED BY <1>1, <1>2 DEF On

\* NoOversleep, timer by timer, before and after a step.
LEMMA NoOversleepIs ==
    ASSUME IInv
    PROVE  /\ NoOversleep <=>
                /\ active[ThreadTimer] => pc = "asleep"
                /\ pc = "asleep" /\ ~kick /\ ~missed =>
                     IF active[ThreadTimer]
                     THEN \A t \in Timer : On(soft, t) => left[ThreadTimer] <= left[t] + slip
                     ELSE soft = << >> \/ found
           /\ soft = << >> <=> \A t \in Timer : ~On(soft, t)
<1>1. soft \in Seq(Soft)
  BY DEF IInv, Lists
<1> QED BY <1>1, ByPlace DEF NoOversleep

LEMMA NoOversleepNext ==
    ASSUME IInv'
    PROVE  /\ NoOversleep' <=>
                /\ active'[ThreadTimer] => pc' = "asleep"
                /\ pc' = "asleep" /\ ~kick' /\ ~missed' =>
                     IF active'[ThreadTimer]
                     THEN \A t \in Timer :
                             On(soft, t)' => left'[ThreadTimer] <= left'[t] + slip'
                     ELSE soft' = << >> \/ found'
           /\ soft' = << >> <=> \A t \in Timer : ~On(soft, t)'
<1>1. soft' \in Seq(Soft)
  BY DEF IInv, Lists
<1> QED BY <1>1, ByPlace DEF NoOversleep

\* The types the following steps need.
LEMMA WakeTypes ==
    ASSUME IInv
    PROVE  /\ slip \in Int /\ next_timeout \in 0 .. TickMax
           /\ tick \in 0 .. TickMax /\ ThreadTimer \in Timer
           /\ left \in [Timer -> Int]
BY TimerAssumption DEF IInv, FieldTypes

\* A step that does not concern the timer thread and starts no soft timer.
LEMMA OthersKeepWakes ==
    ASSUME IInv, IInv', Wakes,
           UNCHANGED <<tick, pc, next_timeout, found, missed, slip>>,
           kick' = kick \/ pc # "asleep",
           active'[ThreadTimer] <=> active[ThreadTimer],
           active[ThreadTimer] => left'[ThreadTimer] = left[ThreadTimer],
           \A t \in Timer : On(soft, t)' => On(soft, t) /\ left'[t] = left[t]
    PROVE  Wakes'
<1>1. soft' # << >> => soft # << >>
  <2>1. soft' = << >> <=> \A t \in Timer : ~On(soft, t)'
    BY NoOversleepNext
  <2> QED BY <2>1, NoOversleepIs
<1>3. ASSUME ~missed PROVE Decides'
  <2> SUFFICES ASSUME pc = "decide"
      PROVE  IF found THEN soft' # << >> =>
                             \E d \in Half - M .. Half - 1 : Foresees(d)'
             ELSE soft' = << >>
    BY DEF Decides
  <2>1. CASE found
    <3> SUFFICES ASSUME soft' # << >>
                 PROVE  \E d \in Half - M .. Half - 1 : Foresees(d)'
      BY <2>1
    <3>1. PICK d \in Half - M .. Half - 1 : Foresees(d)
      BY <1>1, <1>3, <2>1 DEF Wakes, Decides
    <3>2. Foresees(d)'
      BY <3>1 DEF Foresees
    <3> QED BY <3>2
  <2>2. CASE ~found
    BY <1>1, <1>3, <2>2 DEF Wakes, Decides
  <2> QED BY <2>1, <2>2
<1>4. ASSUME ~missed PROVE Delays'
  BY <1>4 DEF Wakes, Delays
<1>5. NoOversleep'
  <2>1. NoOversleep' <=>
             /\ active'[ThreadTimer] => pc' = "asleep"
             /\ pc' = "asleep" /\ ~kick' /\ ~missed' =>
                  IF active'[ThreadTimer]
                  THEN \A t \in Timer : On(soft, t)' => left'[ThreadTimer] <= left'[t] + slip'
                  ELSE soft' = << >> \/ found'
    BY NoOversleepNext
  <2>2. /\ active[ThreadTimer] => pc = "asleep"
        /\ pc = "asleep" /\ ~kick /\ ~missed =>
             IF active[ThreadTimer]
             THEN \A t \in Timer : On(soft, t) => left[ThreadTimer] <= left[t] + slip
             ELSE soft = << >> \/ found
    BY NoOversleepIs DEF Wakes
  <2>3. CASE active[ThreadTimer]
    BY <2>1, <2>2, <2>3
  <2>4. CASE ~active[ThreadTimer]
    BY <1>1, <2>1, <2>2, <2>4
  <2> QED BY <2>3, <2>4
<1> QED BY <1>3, <1>4, <1>5 DEF Wakes

\* A step after which the timer thread is in its check or in a callback or has
\* yet to look at the list, or is about to be woken.
LEMMA BusyIsAwake ==
    ASSUME IInv', pc' \in {"check", "cb", "next"} \/ (pc' = "asleep" /\ kick')
    PROVE  Wakes'
<1>1. active'[ThreadTimer] => pc' = "asleep"
  BY DEF IInv, Phases
<1> QED BY <1>1 DEF Wakes, Decides, Delays, NoOversleep

LEMMA InitWakes == Init => Wakes
<1> SUFFICES ASSUME Init PROVE Wakes
  OBVIOUS
<1>1. /\ pc = "next" /\ soft = << >> /\ active[ThreadTimer] = FALSE
      /\ \A t : ~On(soft, t)
  BY TimerAssumption DEF Init, On
<1> QED BY <1>1 DEF Wakes, Decides, Delays, NoOversleep

LEMMA CallsWake ==
    ASSUME IInv, IInv', Wakes, NEW t \in User,
           Start(t) \/ \E c \in BOOLEAN : Stop(t, c)
    PROVE  Wakes'
<1>1. t \in Timer /\ t # ThreadTimer /\ ThreadTimer \in Timer
      /\ left \in [Timer -> Int] /\ active \in [Timer -> BOOLEAN]
  BY TimerAssumption DEF User, IInv, FieldTypes
<1>2. CASE Start(t) /\ t \in Soft
  <2>1. /\ pc' = pc /\ kick'
        /\ pc \in {"decide", "delay"} => missed'
    BY <1>2 DEF Start
  <2>2. pc \in {"asleep", "cb", "check", "next"} => Wakes'
    BY <2>1, BusyIsAwake
  <2>3. ASSUME pc \in {"decide", "delay"} PROVE Wakes'
    <3>1. active'[ThreadTimer] => pc' = "asleep"
      BY DEF IInv, Phases
    <3> QED BY <3>1, <2>1, <2>3 DEF Wakes, NoOversleep
  <2> QED BY <2>2, <2>3 DEF IInv, FieldTypes
<1>3. CASE Start(t) /\ t \notin Soft
  <2>1. PICK n \in Inits : Insert(t, n)
    BY <1>3 DEF Start
  <2>2. /\ UNCHANGED <<tick, pc, next_timeout, found, missed, slip>> /\ kick' = (kick \/ FALSE)
        /\ soft' = soft
    BY <1>3, <2>1 DEF Start, Insert, IInv, FieldTypes
  <2>3. /\ active' = [active EXCEPT ![t] = TRUE] /\ left' = [left EXCEPT ![t] = n]
    BY <2>1 DEF Insert
  <2>4. (active'[ThreadTimer] <=> active[ThreadTimer]) /\ left'[ThreadTimer] = left[ThreadTimer]
    BY <1>1, <2>3
  <2>5. \A u \in Timer : On(soft, u)' => On(soft, u) /\ left'[u] = left[u]
    BY <1>1, <1>3, <2>2, <2>3, QueuedFacts
  <2>6. kick' = kick
    BY <2>2 DEF IInv, FieldTypes
  <2> QED BY <2>2, <2>4, <2>5, <2>6, OthersKeepWakes
<1>4. ASSUME NEW c \in BOOLEAN, Stop(t, c) PROVE Wakes'
  <2>1. /\ Remove(t) /\ Forget(t) /\ active' = [active EXCEPT ![t] = FALSE]
        /\ UNCHANGED <<tick, irq, hcb, pc, next_timeout, found, missed, scb, kick, slip>>
    BY <1>4 DEF Stop
  <2>2. /\ \A u : On(soft, u)' <=> On(soft, u) /\ u # t
        /\ \A u \in Timer : u # t => left'[u] = left[u]
    BY <1>1, <2>1, RemoveKeepsLists DEF Remove
  <2>3. (active'[ThreadTimer] <=> active[ThreadTimer]) /\ left'[ThreadTimer] = left[ThreadTimer]
    BY <1>1, <2>1, <2>2
  <2>4. \A u \in Timer : On(soft, u)' => On(soft, u) /\ left'[u] = left[u]
    BY <2>2
  <2> QED BY <2>1, <2>3, <2>4, OthersKeepWakes
<1> QED BY <1>2, <1>3, <1>4

LEMMA KickWakes == ASSUME IInv, IInv', Wakes, Kick PROVE Wakes'
<1>1. CASE pc = "asleep"
  <2>1. scb = None
    BY <1>1 DEF IInv, Phases
  <2> QED BY <2>1, <1>1, BusyIsAwake DEF Kick, Awake
<1>2. CASE pc # "asleep"
  <2>1. /\ UNCHANGED <<tick, pc, next_timeout, found, missed, slip>>
        /\ soft' = soft /\ left' = left /\ active' = active
    BY <1>2 DEF Kick, lists
  <2>2. \A u \in Timer : On(soft, u)' => On(soft, u) /\ left'[u] = left[u]
    BY <2>1
  <2> QED BY <1>2, <2>1, <2>2, OthersKeepWakes
<1> QED BY <1>1, <1>2

LEMMA TickWakes == ASSUME IInv, IInv', Wakes, Tick PROVE Wakes'
<1>1. /\ tick' = Plus(tick, 1) /\ hard' = hard /\ soft' = soft /\ active' = active
      /\ left' = [t \in Timer |-> IF On(hard, t) \/ On(soft, t) THEN left[t] - 1 ELSE left[t]]
      /\ slip' = IF pc = "delay" THEN slip + 1 ELSE slip
      /\ UNCHANGED <<pc, next_timeout, found, missed, kick>>
  BY DEF Tick, lists, fields
<1>2. /\ left \in [Timer -> Int] /\ slip \in Int /\ ThreadTimer \in Timer
      /\ tick \in 0 .. TickMax
  BY WakeTypes
<1>3. \A t \in Timer : On(soft, t) => left[t] \in Int /\ left'[t] = left[t] - 1
  BY <1>1, <1>2
<1>4. \A u : On(soft, u)' <=> On(soft, u)
  BY <1>1
<1>6. ASSUME ~missed PROVE Decides'
  <2> SUFFICES ASSUME pc = "decide", found, soft # << >>
               PROVE  \E d \in Half - M .. Half - 1 : Foresees(d)'
    BY <1>1, <1>6 DEF Wakes, Decides
  <2>1. PICK d \in Half - M .. Half - 1 : Foresees(d)
    BY <1>6 DEF Wakes, Decides
  <2>2. d \in Int /\ 1 - M < d /\ d < M
    BY HalfFacts
  <2>3. next_timeout' = At(tick', d - 1)
    BY <2>1, <2>2, <1>1, <1>2, AtLater DEF Foresees
  <2>4. ASSUME NEW t \in Timer, On(soft, t)
        PROVE  d - 1 <= left'[t] /\ \E n \in Inits : left'[t] - (d - 1) <= n + MaxLate
    <3>1. PICK n \in Inits : left[t] - d <= n + MaxLate
      BY <2>1, <2>4 DEF Foresees
    <3>2. d <= left[t] /\ n \in Int /\ MaxLate \in Int
      BY <2>1, <2>4, HalfFacts DEF Foresees
    <3>3. d - 1 <= left'[t] /\ left'[t] - (d - 1) <= n + MaxLate
      BY <3>1, <3>2, <2>2, <2>4, <1>3
    <3> QED BY <3>3
  <2>5. Foresees(d - 1)'
    BY <2>3, <2>4, <1>4 DEF Foresees
  <2>6. d - 1 \in Half - M .. Half - 1
    <3>1. PICK t \in Timer : On(soft, t)
      BY NoOversleepIs
    <3>2. PICK n \in Inits : left'[t] - (d - 1) <= n + MaxLate
      BY <2>4, <3>1
    <3>3. left'[t] >= 0 - MaxLate /\ left'[t] \in Int
      BY <3>1, <1>3, <1>4 DEF IInv, Lists, SoftInTime
    <3>4. n + 2 * MaxLate <= M - Half /\ n \in Int /\ MaxLate \in Int
      BY HalfFacts
    <3> QED BY <3>2, <3>3, <3>4, <2>2, HalfFacts
  <2> QED BY <2>5, <2>6
<1>7. ASSUME ~missed PROVE Delays'
  <2> SUFFICES ASSUME pc = "delay", NEW t \in Timer, On(soft, t)
               PROVE  next_timeout <= left'[t] + slip'
    BY <1>1, <1>4 DEF Delays
  <2>1. next_timeout <= left[t] + slip
    BY <1>7 DEF Wakes, Delays
  <2> QED BY <2>1, <1>1, <1>2, <1>3
<1>8. NoOversleep'
  <2>1. ASSUME pc = "asleep", active[ThreadTimer], ~kick, ~missed, NEW t \in Timer, On(soft, t)
        PROVE  left'[ThreadTimer] <= left'[t] + slip'
    <3>1. left[ThreadTimer] <= left[t] + slip
      BY <2>1, NoOversleepIs DEF Wakes
    <3>2. Queued(ThreadTimer)
      <4>1. ThreadTimer # scb /\ ThreadTimer # hcb /\ ThreadTimer \notin orphan
        BY TimerAssumption DEF IInv, FieldTypes, User
      <4> QED BY <4>1, <2>1, <1>2 DEF IInv, Flags, Called
    <3>3. left'[ThreadTimer] = left[ThreadTimer] - 1
      BY <3>2, <1>1, <1>2 DEF Queued
    <3> QED BY <3>1, <3>3, <2>1, <1>1, <1>2, <1>3
  <2>2. NoOversleep
    BY DEF Wakes
  <2> QED BY <2>1, <2>2, <1>1, <1>4, NoOversleepIs, NoOversleepNext
<1> QED BY <1>1, <1>6, <1>7, <1>8 DEF Wakes

LEMMA IsrWakes == ASSUME IInv, IInv', Wakes, Isr PROVE Wakes'
<1>1. CASE HardFire
  <2> DEFINE t == hard[1]
  <2>1. /\ hard # << >> /\ t # ThreadTimer /\ Forget(t)
        /\ UNCHANGED <<tick, soft, pc, next_timeout, found, missed, kick, slip>>
        /\ \E p \in Periodic : active' = [active EXCEPT ![t] = p]
    BY <1>1 DEF HardFire
  <2>2. t \in Timer \ Soft
    BY <2>1, FirstFacts
  <2> HIDE DEF t
  <2>3. /\ ThreadTimer \in Timer /\ left \in [Timer -> Int] /\ active \in [Timer -> BOOLEAN]
    BY TimerAssumption DEF IInv, FieldTypes
  <2>4. /\ left' = [left EXCEPT ![t] = 0]
        /\ \A u \in Timer : u # t => left'[u] = left[u]
    BY <2>1, <2>3 DEF Forget
  <2>5. \A u \in Timer : On(soft, u)' => On(soft, u) /\ left'[u] = left[u]
    BY <2>1, <2>2, <2>4, QueuedFacts
  <2>6. active'[ThreadTimer] <=> active[ThreadTimer]
    BY <2>1, <2>2, <2>3
  <2> QED BY <2>1, <2>3, <2>4, <2>5, <2>6, OthersKeepWakes
<1>2. CASE ThreadTimeout
  BY <1>2, BusyIsAwake DEF ThreadTimeout, Awake
<1>3. CASE HardReturn
  <2>1. /\ hcb # None /\ Restart(hcb, htemp) /\ hcb' = None
        /\ UNCHANGED <<tick, irq, pc, next_timeout, found, missed, scb, kick, slip>>
    BY <1>3 DEF HardReturn
  <2>2. hcb \in User /\ hcb \notin Soft /\ htemp \in BOOLEAN
    BY <2>1 DEF IInv, FieldTypes
  <2>3. /\ active'[ThreadTimer] <=> active[ThreadTimer]
        /\ \A u : On(soft, u)' <=> On(soft, u)
        /\ \A u \in Timer : u # hcb => left'[u] = left[u]
    BY <2>1, <2>2, RestartKeeps
  <2>4. /\ left'[ThreadTimer] = left[ThreadTimer]
        /\ \A u \in Timer : On(soft, u)' => On(soft, u) /\ left'[u] = left[u]
    BY <2>2, <2>3, QueuedFacts, TimerAssumption DEF User
  <2> QED BY <2>1, <2>3, <2>4, OthersKeepWakes
<1>4. CASE CheckDone
  <2>1. /\ UNCHANGED <<tick, pc, next_timeout, found, missed, slip>> /\ kick' = kick
        /\ soft' = soft /\ left' = left /\ active' = active
    BY <1>4 DEF CheckDone, lists, fields
  <2>2. \A u \in Timer : On(soft, u)' => On(soft, u) /\ left'[u] = left[u]
    BY <2>1
  <2> QED BY <2>1, <2>2, OthersKeepWakes
<1> QED BY <1>1, <1>2, <1>3, <1>4 DEF Isr

\* What the timer thread does from one check to the next.
LEMMA ThreadWakes == ASSUME IInv, IInv', Wakes, Thread PROVE Wakes'
<1>1. /\ left \in [Timer -> Int] /\ slip \in Int /\ ThreadTimer \in Timer
      /\ tick \in 0 .. TickMax /\ next_timeout \in 0 .. TickMax
  BY WakeTypes
<1>2. CASE NextTimeout
  <2>1. /\ pc' = "decide" /\ soft' = soft /\ left' = left /\ tick' = tick
        /\ found' = (soft # << >>) /\ pc = "next"
        /\ soft # << >> => next_timeout' = timeout_tick[soft[1]]
    BY <1>2 DEF NextTimeout, lists
  <2>2. ASSUME soft # << >>
        PROVE  \E d \in Half - M .. Half - 1 : Foresees(d)'
    <3> DEFINE t == soft[1]
    <3>1. /\ t \in Timer /\ On(soft, t) /\ Queued(t)
          /\ \A u : On(soft, u) => left[t] <= left[u]
      BY <2>2, FirstFacts DEF Queued, User
    <3> HIDE DEF t
    <3>2. PICK d \in Int : /\ d = left[t] /\ 0 - Half < d /\ d < Half
                          /\ timeout_tick[t] = At(tick, d)
      BY <3>1, QueuedFacts
    <3>3. d \in Half - M .. Half - 1
      BY <3>2, HalfFacts
    <3>4. next_timeout' = At(tick', d)
      BY <2>1, <2>2, <3>2 DEF t
    <3>5. ASSUME NEW u \in Timer, On(soft, u)'
          PROVE  d <= left'[u] /\ \E n \in Inits : left'[u] - d <= n + MaxLate
      <4>1. On(soft, u) /\ left'[u] = left[u]
        BY <2>1, <3>5
      <4>2. left[t] >= 0 - MaxLate
        BY <3>1 DEF IInv, Lists, SoftInTime
      <4>3. PICK n \in Inits : left[u] <= n
        BY <4>1 DEF IInv, Lists, SoftInTime
      <4>4. /\ n \in Int /\ MaxLate \in Int /\ left[u] \in Int
            /\ left[t] = d /\ left[t] <= left[u]
        BY <1>1, <3>1, <3>2, <4>1, HalfFacts
      <4>5. left[u] - d <= n + MaxLate
        BY <4>2, <4>3, <4>4, <3>2
      <4> QED BY <4>1, <4>4, <4>5
    <3>6. Foresees(d)'
      BY <3>4, <3>5 DEF Foresees
    <3> QED BY <3>3, <3>6
  <2>3. Decides'
    BY <2>1, <2>2 DEF Decides
  <2>4. active'[ThreadTimer] => pc' = "asleep"
    BY DEF IInv, Phases
  <2> QED BY <2>1, <2>3, <2>4 DEF Wakes, Delays, NoOversleep
<1>3. CASE Suspend
  <2>1. pc = "decide" /\ pc' = "asleep" /\ soft' = soft /\ found' = found /\ active' = active
        /\ missed' = missed
    BY <1>3 DEF Suspend, lists, fields
  <2>2. ~missed => soft = << >> \/ found
    BY <2>1 DEF Wakes, Decides
  <2>3. ~active[ThreadTimer]
    BY <2>1 DEF IInv, Phases
  <2>4. NoOversleep'
    BY <2>1, <2>2, <2>3 DEF NoOversleep
  <2> QED BY <2>1, <2>4 DEF Wakes, Decides, Delays
<1>4. CASE ReadTick
  <2>1. CASE pc' = "check"
    BY <2>1, BusyIsAwake
  <2>2. CASE pc' # "check"
    <3>1. /\ pc = "decide" /\ Minus(next_timeout, tick) < Half
          /\ pc' = "delay" /\ next_timeout' = Minus(next_timeout, tick)
          /\ slip' = slip /\ missed' = missed /\ soft' = soft /\ left' = left
      BY <1>4, <2>2 DEF ReadTick, Awake, lists
    <3>2. ASSUME ~missed, NEW t \in Timer, On(soft, t) PROVE next_timeout' <= left[t]
      <4>1. soft # << >>
        BY <3>2, NoOversleepIs
      <4>2. PICK d \in Half - M .. Half - 1 : Foresees(d)
        BY <4>1, <3>1, <3>2 DEF Wakes, Decides
      <4>3. next_timeout = At(tick, d) /\ d <= left[t]
        BY <4>2, <3>2 DEF Foresees
      <4>4. tick = At(tick, 0)
        BY <1>1, HalfFacts DEF At, Plus
      <4>5. d \in Int /\ 0 - M < d /\ d < M /\ 0 - M < 0 /\ 0 < M /\ d - 0 < M /\ 0 - d < M
        BY HalfFacts
      <4>6. Minus(At(tick, d), At(tick, 0)) = IF d >= 0 THEN d - 0 ELSE d - 0 + M
        BY <1>1, <4>5, AtDiffers
      <4>7. Minus(next_timeout, tick) = IF d >= 0 THEN d ELSE d + M
        BY <4>3, <4>4, <4>5, <4>6
      <4> QED BY <3>1, <4>3, <4>5, <4>7, HalfFacts
    <3>3. ASSUME ~missed PROVE Delays'
      <4> SUFFICES ASSUME NEW t \in Timer, On(soft, t) PROVE next_timeout' <= left[t] + slip
        BY <3>1 DEF Delays
      <4>1. slip >= 0 /\ next_timeout' \in Int
        BY <3>1, TimerAssumption DEF IInv, FieldTypes
      <4> QED BY <3>2, <3>3, <4>1, <1>1
    <3>4. active'[ThreadTimer] => pc' = "asleep"
      BY DEF IInv, Phases
    <3> QED BY <3>1, <3>3, <3>4 DEF Wakes, Decides, NoOversleep
  <2> QED BY <2>1, <2>2
<1>5. CASE Delay
  <2>1. /\ pc = "delay" /\ pc' = "asleep" /\ slip' = slip /\ missed' = missed
        /\ Insert(ThreadTimer, next_timeout)
    BY <1>5 DEF Delay
  <2>2. ThreadTimer \notin Soft
    BY TimerAssumption DEF User
  <2>3. /\ soft' = soft /\ left' = [left EXCEPT ![ThreadTimer] = next_timeout]
        /\ active' = [active EXCEPT ![ThreadTimer] = TRUE]
    BY <2>1, <2>2 DEF Insert
  <2>4. active'[ThreadTimer] /\ left'[ThreadTimer] = next_timeout
    BY <2>3, <1>1 DEF IInv, FieldTypes
  <2>5. ASSUME ~missed, NEW t \in Timer, On(soft, t)' PROVE left'[ThreadTimer] <= left'[t] + slip'
    <3>1. On(soft, t) /\ t \in Soft
      BY <2>3, <2>5, QueuedFacts
    <3>2. left'[t] = left[t] /\ next_timeout <= left[t] + slip
      BY <3>1, <2>1, <2>2, <2>3, <2>5, <1>1 DEF Wakes, Delays
    <3> QED BY <3>2, <2>1, <2>4
  <2>6. NoOversleep'
    BY <2>1, <2>4, <2>5, NoOversleepNext
  <2> QED BY <2>1, <2>6 DEF Wakes, Decides, Delays
<1>6. CASE SoftFire
  BY <1>6, BusyIsAwake DEF SoftFire
<1>7. CASE SoftReturn
  BY <1>7, BusyIsAwake DEF SoftReturn
<1>8. CASE SoftDone
  BY <1>8, BusyIsAwake DEF SoftDone
<1> QED BY <1>2, <1>3, <1>4, <1>5, <1>6, <1>7, <1>8 DEF Thread

LEMMA NextWakes == IInv /\ IInv' /\ Wakes /\ [Next]_vars => Wakes'
<1> SUFFICES ASSUME IInv, IInv', Wakes, [Next]_vars PROVE Wakes'
  OBVIOUS
<1>1. CASE Calls
  BY <1>1, CallsWake DEF Calls
<1>2. CASE Kick
  BY <1>2, KickWakes
<1>3. CASE Tick
  BY <1>3, TickWakes
<1>4. CASE Isr
  BY <1>4, IsrWakes
<1>5. CASE Thread
  BY <1>5, ThreadWakes
<1>6. CASE UNCHANGED vars
  <2>1. /\ UNCHANGED <<tick, pc, next_timeout, found, missed, slip>> /\ kick' = kick
        /\ soft' = soft /\ left' = left /\ active' = active
    BY <1>6 DEF vars, lists, fields
  <2>2. \A u \in Timer : On(soft, u)' => On(soft, u) /\ left'[u] = left[u]
    BY <2>1
  <2> QED BY <2>1, <2>2, OthersKeepWakes
<1> QED BY <1>1, <1>2, <1>3, <1>4, <1>5, <1>6 DEF Next

-----------------------------------------------------------------------------
(* The theorems.                                                           *)

\* RT_TIMER_FLAG_ACTIVATED is exact for any timers, whatever callbacks, threads
\* and interrupts start, stop or detach (rt_timer_start, _rt_timer_remove and
\* both checks keep flag and list together).
THEOREM TimerFlagsExact == Spec => []FlagsExact
<1>1. IInv => FlagsExact
  BY DEF IInv, Flags, FlagsExact, Called
<1> QED BY <1>1, Invariance, PTL

\* For any number of tick values and any timers both lists are sorted by the
\* ticks that remain: the unsigned comparisons of rt_timer_start and
\* rt_timer_check are right across the wrap-around.
THEOREM ListsStaySorted == Spec => []ListsSorted
<1>1. ASSUME IInv PROVE ListsSorted
  <2>1. hard \in Seq(Timer \ Soft) /\ soft \in Seq(Soft)
    BY <1>1 DEF IInv, Lists
  <2>2. /\ \A i \in 1 .. Len(hard) : hard[i] \in Timer \ Soft
        /\ \A i \in 1 .. Len(soft) : soft[i] \in Soft
    BY <2>1, Places
  <2>3. TypeOK
    BY <1>1, <2>2 DEF IInv, FieldTypes, TypeOK
  <2>4. Sorted(hard) /\ Sorted(soft)
    BY <1>1 DEF IInv, Lists, Sorted, SortedBy
  <2>5. \A t \in Timer : Queued(t) =>
          timeout_tick[t] = (IF left[t] >= 0 THEN Plus(tick, left[t])
                             ELSE Minus(tick, 0 - left[t]))
    BY <1>1 DEF IInv, Lists, At
  <2> QED BY <2>3, <2>4, <2>5 DEF ListsSorted
<1> QED BY <1>1, Invariance, PTL

\* Whatever the times and the number of tick values, the callback of a hard
\* timer is called in the interrupt of the very tick it was started for, that
\* of a soft timer not before it, and rt_timer_check leaves no hard timer due.
THEOREM CallbacksOnTime == Spec => FiresOnTime
<1> DEFINE OnTime ==
      /\ hcb = None /\ hcb' # None => left[hcb'] = 0
      /\ irq /\ ~irq' => \A t \in Timer \ Soft : On(hard, t) => left[t] > 0
      /\ scb = None /\ scb' # None => left[scb'] <= 0
<1>1. ASSUME IInv, [Next]_vars PROVE [OnTime]_vars
  <2> SUFFICES ASSUME Next PROVE OnTime
    BY <1>1
  <2>1. ASSUME hcb = None, hcb' # None PROVE left[hcb'] = 0
    <3>1. HardFire
      BY <2>1 DEF Next, Calls, Start, Stop, Kick, Tick, Isr, ThreadTimeout, HardReturn,
         CheckDone, Thread, NextTimeout, Suspend, ReadTick, Delay, SoftFire, SoftReturn, SoftDone
    <3>2. hcb' = hard[1] /\ irq /\ hard # << >> /\ Due(hard[1]) /\ hard[1] # ThreadTimer
      BY <3>1 DEF HardFire
    <3>3. hard[1] \in Timer /\ On(hard, hard[1])
      BY <3>2, <1>1, FirstFacts
    <3>4. left[hard[1]] \in Int /\ left[hard[1]] <= 0
      BY <3>2, <3>3, <1>1, QueuedFacts DEF Queued
    <3>5. left[hard[1]] >= 0
      BY <3>2, <3>3, <3>4, <1>1 DEF IInv, Lists, HardInTime
    <3> QED BY <3>2, <3>4, <3>5
  <2>2. ASSUME irq, ~irq', NEW t \in Timer \ Soft, On(hard, t) PROVE left[t] > 0
    <3>1. CheckDone
      BY <2>2 DEF Next, Calls, Start, Stop, Kick, Tick, Isr, HardFire, ThreadTimeout, HardReturn,
         Thread, NextTimeout, Suspend, ReadTick, Delay, SoftFire, SoftReturn, SoftDone
    <3> QED BY <3>1, <2>2, <1>1, NoneDue
  <2>3. ASSUME scb = None, scb' # None PROVE left[scb'] <= 0
    <3>1. SoftFire
      BY <2>3 DEF Next, Calls, Start, Stop, Kick, Tick, Isr, HardFire, ThreadTimeout, HardReturn,
         CheckDone, Thread, NextTimeout, Suspend, ReadTick, Delay, SoftReturn, SoftDone
    <3>2. scb' = soft[1] /\ soft # << >> /\ Due(soft[1])
      BY <3>1 DEF SoftFire
    <3>3. soft[1] \in Timer /\ On(soft, soft[1])
      BY <3>2, <1>1, FirstFacts DEF User
    <3> QED BY <3>2, <3>3, <1>1, QueuedFacts DEF Queued
  <2> QED BY <2>1, <2>2, <2>3
<1>2. IInv /\ [Next]_vars => [OnTime]_vars
  BY <1>1
<1> QED BY <1>2, Invariance, PTL DEF Spec, FiresOnTime

\* For any times and any number of ticks that pass between its steps the timer
\* thread does not sleep past a soft timer, unless that was started after the
\* thread looked at the list and before it slept: the look, the comparison
\* with half the range, rt_thread_delay and rt_timer_start's wake-up fit
\* together.
THEOREM TimerThreadWakesInTime == Spec => []NoOversleep
<1>1. Init => IInv /\ Wakes
  BY InitIInv, InitWakes
<1>2. (IInv /\ Wakes) /\ [Next]_vars => (IInv /\ Wakes)'
  BY NextIInv, NextWakes
<1>3. IInv /\ Wakes => NoOversleep
  BY DEF Wakes
<1> QED BY <1>1, <1>2, <1>3, PTL DEF Spec
=============================================================================
