------------------------ MODULE ContextSwitchProofs ------------------------
(***************************************************************************)
(* ContextSwitch for any set of threads with any priorities: its lists are *)
(* exact, contexts are never mixed up, and the most urgent thread runs.    *)
(***************************************************************************)
EXTENDS ContextSwitch, WellFoundedInduction, TLAPS

\* What every operation of the scheduler keeps true of its variables.
KernelOK(x) ==
    /\ x \in KernelType
    /\ ListsExact(x)
    /\ \A t \in Thread : x.stat[t] = "running" => t = x.current
    /\ x.current \in Thread => /\ x.stat[x.current] # "ready"
                               /\ x.stat[Idle] \in {"ready", "running"}

\* How the port's variables fit the thread that has the CPU.
SwitchOK ==
    /\ \A t \in Thread \ {cpu} : sp[t] = t
    /\ irq # "none" => cur_sp = cpu /\ ~k.sw /\ k.current # Nobody
    /\ irq = "none" => (k.flag <=> k.sw)
    /\ k.flag => k.from = cpu /\ k.to = k.current /\ k.current # Nobody
    /\ ~k.flag => cpu = k.current

\* MostUrgentRuns, of rt_current_thread and inside interrupts too.
UrgentOK ==
    k.current # Nobody /\ k.lock = 0 /\ pc[k.current] = "run" => MostUrgent(k, k.current)

IInv == TypeOK /\ KernelOK(k) /\ SwitchOK /\ UrgentOK

-----------------------------------------------------------------------------
(* Lists.                                                                  *)

\* A non-empty set of priorities has a smallest one.
LEMMA SmallestPriority ==
    ASSUME NEW S, S \subseteq Nat, S # {}
    PROVE  \E p \in S : \A q \in S : p <= q
<1>1. IsWellFoundedOn(OpToRel(<, Nat), Nat)
  BY NatLessThanWellFounded
<1>2. PICK p \in S : \A q \in S : ~(<<q, p>> \in OpToRel(<, Nat))
  BY <1>1, WFMin, Zenon
<1>3. \A q \in S : ~(q < p)
  BY <1>2 DEF OpToRel
<1> QED BY <1>3

\* rt_thread_ready_priority_group's first bit is its smallest.
LEMMA HighestReadySmallest ==
    ASSUME NEW x, x.group \subseteq Nat, x.group # {}
    PROVE  HighestReady(x) \in x.group /\ \A q \in x.group : HighestReady(x) <= q
BY SmallestPriority DEF HighestReady

\* Every thread's priority is a natural number with a list of its own.
LEMMA PriorityNat == Priority \subseteq Nat /\ \A t \in Thread : Prio[t] \in Priority
BY ContextSwitchAssumption DEF Priority

\* rt_list_insert_before puts a thread at the end and changes nothing else.
LEMMA ListAppend ==
    ASSUME NEW l \in Seq(Thread), NEW t \in Thread, NEW p \in Priority,
           ProperList(l, p), Prio[t] = p, ~Holds(l, t)
    PROVE  /\ Append(l, t) \in Seq(Thread) /\ Append(l, t) # << >>
           /\ ProperList(Append(l, t), p)
           /\ \A u \in Thread : Holds(Append(l, t), u) <=> Holds(l, u) \/ u = t
<1> DEFINE m == Append(l, t)
<1>1. m \in Seq(Thread) /\ Len(m) = Len(l) + 1 /\ m[Len(l) + 1] = t
      /\ Len(l) \in Nat /\ \A i \in 1 .. Len(l) : m[i] = l[i]
  OBVIOUS
<1> HIDE DEF m
<1>2. m # << >>
  BY <1>1
<1>3. \A i \in 1 .. Len(l) : l[i] # t
  BY DEF Holds
<1>4. ProperList(m, p)
  <2> SUFFICES ASSUME NEW i \in 1 .. Len(l) + 1, NEW j \in 1 .. Len(l) + 1
               PROVE  Prio[m[i]] = p /\ (m[i] = m[j] => i = j)
    BY <1>1 DEF ProperList
  <2>1. i \in 1 .. Len(l) \/ i = Len(l) + 1
    BY <1>1
  <2>2. j \in 1 .. Len(l) \/ j = Len(l) + 1
    BY <1>1
  <2> QED BY <2>1, <2>2, <1>1, <1>3 DEF ProperList
<1>5. \A u \in Thread : Holds(m, u) <=> Holds(l, u) \/ u = t
  <2> TAKE u \in Thread
  <2>1. Holds(l, u) \/ u = t => Holds(m, u)
    BY <1>1 DEF Holds
  <2>2. ASSUME Holds(m, u) PROVE Holds(l, u) \/ u = t
    <3>1. PICK i \in 1 .. Len(l) + 1 : m[i] = u
      BY <2>2, <1>1 DEF Holds
    <3>2. i \in 1 .. Len(l) \/ i = Len(l) + 1
      BY <1>1
    <3> QED BY <3>1, <3>2, <1>1 DEF Holds
  <2> QED BY <2>1, <2>2
<1> QED BY <1>1, <1>2, <1>4, <1>5 DEF m

\* rt_list_remove takes one thread out and changes nothing else.
LEMMA ListWithout ==
    ASSUME NEW l \in Seq(Thread), NEW t \in Thread, NEW p \in Priority, ProperList(l, p)
    PROVE  /\ Without(l, t) \in Seq(Thread)
           /\ ProperList(Without(l, t), p)
           /\ \A u \in Thread : Holds(Without(l, t), u) <=> Holds(l, u) /\ u # t
<1>1. CASE ~Holds(l, t)
  BY <1>1 DEF Without, Holds
<1>2. CASE Holds(l, t)
  <2> DEFINE n == CHOOSE i \in 1 .. Len(l) : l[i] = t
             m == [i \in 1 .. Len(l) - 1 |-> IF i < n THEN l[i] ELSE l[i + 1]]
  <2>1. n \in 1 .. Len(l) /\ l[n] = t
    BY <1>2 DEF Holds
  <2>2. Without(l, t) = m
    BY <1>2 DEF Without
  <2> HIDE DEF n
  <2>3. Len(l) \in Nat /\ \A i \in 1 .. Len(l) : l[i] \in Thread
    OBVIOUS
  <2>4. Len(l) - 1 \in Nat
    BY <2>1, <2>3
  <2>5. m \in Seq(Thread) /\ Len(m) = Len(l) - 1
    <3>1. \A i \in 1 .. Len(l) - 1 : m[i] \in Thread
      BY <2>1, <2>3
    <3>2. m \in [1 .. Len(l) - 1 -> Thread]
      BY <3>1
    <3> QED BY <3>2, <2>4
  <2>6. \A i \in 1 .. Len(l) - 1 : m[i] = IF i < n THEN l[i] ELSE l[i + 1]
    OBVIOUS
  <2> HIDE DEF m
  <2>7. ProperList(m, p)
    <3> SUFFICES ASSUME NEW i \in 1 .. Len(l) - 1, NEW j \in 1 .. Len(l) - 1
                 PROVE  Prio[m[i]] = p /\ (m[i] = m[j] => i = j)
      BY <2>5 DEF ProperList
    <3>1. i \in 1 .. Len(l) /\ i + 1 \in 1 .. Len(l) /\ j \in 1 .. Len(l) /\ j + 1 \in 1 .. Len(l)
      BY <2>3
    <3> QED BY <3>1, <2>1, <2>3, <2>6 DEF ProperList
  <2>8. \A u \in Thread : Holds(m, u) <=> Holds(l, u) /\ u # t
    <3> TAKE u \in Thread
    <3>1. ASSUME Holds(m, u) PROVE Holds(l, u) /\ u # t
      <4>1. PICK i \in 1 .. Len(l) - 1 : m[i] = u
        BY <3>1, <2>5 DEF Holds
      <4>2. i \in 1 .. Len(l) /\ i + 1 \in 1 .. Len(l)
        BY <2>3
      <4> QED BY <4>1, <4>2, <2>1, <2>3, <2>6 DEF Holds, ProperList
    <3>2. ASSUME Holds(l, u), u # t PROVE Holds(m, u)
      <4>1. PICK i \in 1 .. Len(l) : l[i] = u
        BY <3>2 DEF Holds
      <4>2. i # n
        BY <4>1, <3>2, <2>1
      <4>3. CASE i < n
        <5>1. i \in 1 .. Len(l) - 1 /\ m[i] = u
          BY <4>3, <4>1, <2>1, <2>3, <2>6
        <5> QED BY <5>1, <2>5 DEF Holds
      <4>4. CASE i > n
        <5>1. i - 1 \in 1 .. Len(l) - 1 /\ ~(i - 1 < n) /\ (i - 1) + 1 = i
          BY <4>4, <2>1, <2>3
        <5>2. m[i - 1] = u
          BY <5>1, <4>1, <2>6
        <5> QED BY <5>1, <5>2, <2>5 DEF Holds
      <4> QED BY <4>2, <4>3, <4>4, <2>1, <2>3
    <3> QED BY <3>1, <3>2
  <2> QED BY <2>2, <2>5, <2>7, <2>8
<1> QED BY <1>1, <1>2

\* The head of a list that is not empty is one of its threads.
LEMMA ListHead ==
    ASSUME NEW l \in Seq(Thread), l # << >>
    PROVE  Head(l) \in Thread /\ Holds(l, Head(l))
<1>1. Len(l) \in Nat /\ Len(l) # 0 /\ Head(l) = l[1] /\ l[1] \in Thread
  OBVIOUS
<1> QED BY <1>1 DEF Holds

-----------------------------------------------------------------------------
(* The scheduler's operations.                                             *)

\* rt_schedule_insert_thread of a thread that is in no list
LEMMA InsertOK ==
    ASSUME NEW x \in KernelType, ListsExact(x), NEW t \in Thread, x.stat[t] # "ready"
    PROVE  LET y == Insert(x, t) IN
           /\ y \in KernelType /\ ListsExact(y)
           /\ y.stat = [x.stat EXCEPT ![t] = IF t = x.current THEN "running" ELSE "ready"]
           /\ y.yield = x.yield /\ y.current = x.current /\ y.lock = x.lock
           /\ y.from = x.from /\ y.to = x.to /\ y.flag = x.flag /\ y.sw = x.sw
<1> DEFINE p == Prio[t]
           l == x.table[p]
<1>1. p \in Priority /\ l \in Seq(Thread) /\ ProperList(l, p) /\ ~Holds(l, t)
  BY PriorityNat DEF KernelType, ListsExact
<1>2. CASE t = x.current
  <2>1. Insert(x, t) = [x EXCEPT !.stat[t] = "running"]
    BY <1>2 DEF Insert
  <2>2. [x EXCEPT !.stat[t] = "running"] \in KernelType
    BY DEF KernelType
  <2>3. ListsExact([x EXCEPT !.stat[t] = "running"])
    BY DEF KernelType, ListsExact
  <2> QED BY <2>1, <2>2, <2>3, <1>2 DEF KernelType
<1>3. CASE t # x.current
  <2> DEFINE m == Append(l, t)
             y == [x EXCEPT !.stat[t] = "ready", !.table[p] = m, !.group = @ \cup {p}]
  <2>1. Insert(x, t) = y
    BY <1>3 DEF Insert, KernelType
  <2>2. /\ m \in Seq(Thread) /\ m # << >> /\ ProperList(m, p)
        /\ \A u \in Thread : Holds(m, u) <=> Holds(l, u) \/ u = t
    BY <1>1, ListAppend
  <2> HIDE DEF m
  <2>3. y \in KernelType
    BY <1>1, <2>2 DEF KernelType
  <2>4. /\ y.yield = x.yield /\ y.current = x.current /\ y.lock = x.lock
        /\ y.from = x.from /\ y.to = x.to /\ y.flag = x.flag /\ y.sw = x.sw
        /\ y.group = x.group \cup {p}
        /\ y.table = [x.table EXCEPT ![p] = m] /\ y.stat = [x.stat EXCEPT ![t] = "ready"]
    BY DEF KernelType
  <2>5. /\ x.table \in [Priority -> Seq(Thread)]
        /\ x.stat \in [Thread -> {"init", "ready", "running", "suspend", "close"}]
    BY DEF KernelType
  <2> HIDE DEF y, p
  <2>6. \A u \in Thread : y.stat[u] = "ready" <=> Holds(y.table[Prio[u]], u)
    <3> TAKE u \in Thread
    <3>1. CASE u = t
      BY <3>1, <2>2, <2>4, <2>5, <1>1 DEF p
    <3>2. CASE u # t
      <4>1. y.stat[u] = x.stat[u]
        BY <3>2, <2>4, <2>5
      <4>2. Holds(y.table[Prio[u]], u) <=> Holds(x.table[Prio[u]], u)
        BY <3>2, <2>2, <2>4, <2>5, <1>1, PriorityNat
      <4> QED BY <4>1, <4>2 DEF ListsExact
    <3> QED BY <3>1, <3>2
  <2>7. \A q \in Priority : (q \in y.group <=> y.table[q] # << >>) /\ ProperList(y.table[q], q)
    <3> TAKE q \in Priority
    <3>1. CASE q = p
      BY <3>1, <2>2, <2>4, <2>5, <1>1
    <3>2. CASE q # p
      BY <3>2, <2>4, <2>5 DEF ListsExact
    <3> QED BY <3>1, <3>2
  <2>8. ListsExact(y)
    BY <2>6, <2>7 DEF ListsExact
  <2> QED BY <1>3, <2>1, <2>3, <2>4, <2>8
<1> QED BY <1>2, <1>3

\* rt_schedule_remove_thread, followed by another stat for the thread
Off(x, t, s) == [Remove(x, t) EXCEPT !.stat[t] = s]

\* rt_schedule_remove_thread, with the stat the caller sets, keeps the lists exact.
LEMMA RemoveOK ==
    ASSUME NEW x \in KernelType, ListsExact(x), NEW t \in Thread,
           NEW s \in {"init", "running", "suspend", "close"}
    PROVE  LET y == Off(x, t, s) IN
           /\ y \in KernelType /\ ListsExact(y)
           /\ y.stat = [x.stat EXCEPT ![t] = s] /\ y.yield = x.yield
           /\ y.current = x.current /\ y.lock = x.lock /\ y.from = x.from
           /\ y.to = x.to /\ y.flag = x.flag /\ y.sw = x.sw
<1> DEFINE p == Prio[t]
           l == x.table[p]
           m == Without(l, t)
           g == IF m = << >> THEN x.group \ {p} ELSE x.group
           y == [x EXCEPT !.table[p] = m, !.group = g, !.stat[t] = s]
<1>1. Off(x, t, s) = y
  BY DEF Off, Remove, KernelType
<1>2. p \in Priority /\ l \in Seq(Thread) /\ ProperList(l, p)
  BY PriorityNat DEF KernelType, ListsExact
<1>3. /\ m \in Seq(Thread) /\ ProperList(m, p)
      /\ \A u \in Thread : Holds(m, u) <=> Holds(l, u) /\ u # t
  BY <1>2, ListWithout
<1> HIDE DEF m
<1>4. g \subseteq Priority
  BY DEF KernelType
<1>5. p \in g <=> m # << >>
  <2>1. CASE m = << >>
    BY <2>1
  <2>2. CASE m # << >>
    <3>1. PICK u \in Thread : Holds(m, u)
      BY <2>2, <1>3, ListHead
    <3>2. l # << >>
      BY <3>1, <1>3 DEF Holds
    <3> QED BY <2>2, <3>2, <1>2 DEF ListsExact
  <2> QED BY <2>1, <2>2
<1>6. \A q \in Priority : q # p => (q \in g <=> q \in x.group)
  OBVIOUS
<1> HIDE DEF g
<1>7. y \in KernelType
  BY <1>2, <1>3, <1>4 DEF KernelType
<1>8. /\ y.stat = [x.stat EXCEPT ![t] = s] /\ y.yield = x.yield
      /\ y.current = x.current /\ y.lock = x.lock /\ y.from = x.from
      /\ y.to = x.to /\ y.flag = x.flag /\ y.sw = x.sw
      /\ y.table = [x.table EXCEPT ![p] = m] /\ y.group = g
  BY DEF KernelType
<1>9. x.table \in [Priority -> Seq(Thread)] /\ x.stat \in [Thread -> {"init", "ready", "running", "suspend", "close"}]
  BY DEF KernelType
<1> HIDE DEF y, p
<1>10. \A u \in Thread : y.stat[u] = "ready" <=> Holds(y.table[Prio[u]], u)
  <2> TAKE u \in Thread
  <2>1. CASE u = t
    BY <2>1, <1>2, <1>3, <1>8, <1>9 DEF p
  <2>2. CASE u # t
    <3>1. y.stat[u] = x.stat[u]
      BY <2>2, <1>8, <1>9
    <3>2. Holds(y.table[Prio[u]], u) <=> Holds(x.table[Prio[u]], u)
      BY <2>2, <1>2, <1>3, <1>8, <1>9, PriorityNat
    <3> QED BY <3>1, <3>2 DEF ListsExact
  <2> QED BY <2>1, <2>2
<1>11. \A q \in Priority : (q \in y.group <=> y.table[q] # << >>) /\ ProperList(y.table[q], q)
  <2> TAKE q \in Priority
  <2>1. CASE q = p
    BY <2>1, <1>2, <1>3, <1>5, <1>8, <1>9
  <2>2. CASE q # p
    BY <2>2, <1>6, <1>8, <1>9 DEF ListsExact
  <2> QED BY <2>1, <2>2
<1>12. y \in KernelType /\ ListsExact(y)
  BY <1>7, <1>10, <1>11 DEF ListsExact
<1> QED BY <1>1, <1>8, <1>12

\* What rt_schedule does to the port's variables: nothing, or one switch.
Switched(x, y, inIsr) ==
    \/ /\ y.current = x.current /\ y.from = x.from /\ y.to = x.to
       /\ y.flag = x.flag /\ y.sw = x.sw
    \/ /\ y.from = IF inIsr /\ x.flag THEN x.from ELSE x.current
       /\ y.to = y.current /\ y.flag = TRUE
       /\ y.sw = IF inIsr THEN x.sw ELSE TRUE

\* rt_schedule keeps the lists exact and makes the most urgent thread current.
LEMMA ScheduleOK ==
    ASSUME NEW x, KernelOK(x), x.current \in Thread, NEW inIsr \in BOOLEAN
    PROVE  LET y == Schedule(x, inIsr) IN
           /\ KernelOK(y) /\ y.current \in Thread /\ y.lock = x.lock
           /\ x.lock = 0 => MostUrgent(y, y.current)
           /\ Switched(x, y, inIsr)
<1> DEFINE c == x.current
           p == HighestReady(x)
           t == Head(x.table[p])
           running == x.stat[c] = "running"
           cleared == IF running THEN [x EXCEPT !.yield[c] = FALSE] ELSE x
           moved == [cleared EXCEPT !.current = t]
           queued == IF running THEN Insert(moved, c) ELSE moved
           switched == [Remove(queued, t) EXCEPT !.stat[t] = "running"]
           y == Schedule(x, inIsr)
<1>1. /\ x \in KernelType /\ ListsExact(x)
      /\ \A u \in Thread : x.stat[u] = "running" => u = c
      /\ c \in Thread /\ x.stat[c] # "ready" /\ x.stat[Idle] \in {"ready", "running"}
      /\ Idle \in Thread
  BY ContextSwitchAssumption DEF KernelOK
<1>2. /\ x.stat \in [Thread -> {"init", "ready", "running", "suspend", "close"}]
      /\ x.yield \in [Thread -> BOOLEAN] /\ x.group \subseteq Priority
      /\ x.table \in [Priority -> Seq(Thread)]
  BY <1>1 DEF KernelType
<1>3. \A u \in Thread : x.stat[u] = "ready" => Prio[u] \in x.group
  <2> SUFFICES ASSUME NEW u \in Thread, x.stat[u] = "ready" PROVE Prio[u] \in x.group
    OBVIOUS
  <2>1. Holds(x.table[Prio[u]], u) /\ Prio[u] \in Priority
    BY <1>1, PriorityNat DEF ListsExact
  <2>2. x.table[Prio[u]] # << >>
    BY <2>1 DEF Holds
  <2> QED BY <2>1, <2>2, <1>1 DEF ListsExact
<1>4. CASE x.lock # 0 \/ x.group = {}
  <2>1. y = x
    BY <1>4 DEF Schedule
  <2>2. ASSUME x.lock = 0 PROVE MostUrgent(x, c)
    <3>1. \A u \in Thread : x.stat[u] # "ready"
      BY <2>2, <1>4, <1>3
    <3>2. x.stat[c] = "running"
      BY <3>1, <1>1
    <3> QED BY <3>1, <3>2 DEF MostUrgent
  <2> QED BY <2>1, <2>2, <1>1 DEF Switched
<1>5. CASE ~(x.lock # 0 \/ x.group = {})
  <2>1. p \in x.group /\ \A q \in x.group : p <= q
    BY <1>5, <1>2, PriorityNat, HighestReadySmallest
  <2>2. x.table[p] \in Seq(Thread) /\ x.table[p] # << >> /\ ProperList(x.table[p], p)
    BY <2>1, <1>1, <1>2 DEF ListsExact
  <2>3. t \in Thread /\ Holds(x.table[p], t)
    BY <2>2, ListHead
  <2>4. Prio[t] = p
    BY <2>2, <2>3 DEF Holds, ProperList
  <2>5. x.stat[t] = "ready"
    BY <2>3, <2>4, <1>1 DEF ListsExact
  <2>6. t # c
    BY <2>5, <1>1
  <2>7. \A u \in Thread : x.stat[u] = "ready" => p <= Prio[u]
    BY <2>1, <1>3
  <2>8. /\ cleared \in KernelType /\ ListsExact(cleared)
        /\ cleared.stat = x.stat /\ cleared.current = c /\ cleared.lock = x.lock
        /\ cleared.from = x.from /\ cleared.to = x.to /\ cleared.flag = x.flag
        /\ cleared.sw = x.sw
    BY <1>1 DEF KernelType, ListsExact
  <2>9. p \in Nat /\ \A u \in Thread : Prio[u] \in Nat
    BY <2>1, <1>2, PriorityNat
  <2>0. y = IF Keeps(x) THEN Off(cleared, c, "running") ELSE Switch(switched, c, t, inIsr)
    BY <1>5, Zenon DEF Schedule, Off
  <2> HIDE DEF cleared, p, t
  <2>10. CASE Keeps(x)
    <3>1. y = Off(cleared, c, "running")
      BY <2>10, <2>0
    <3>2. x.stat[c] = "running" /\ Prio[c] <= p
      BY <2>10, <2>9, <1>1 DEF Keeps, p
    <3>4. /\ y \in KernelType /\ ListsExact(y) /\ y.stat = [x.stat EXCEPT ![c] = "running"]
          /\ y.current = c /\ y.lock = x.lock /\ y.from = x.from
          /\ y.to = x.to /\ y.flag = x.flag /\ y.sw = x.sw
      <4>1. c \in Thread /\ "running" \in {"init", "running", "suspend", "close"}
        BY <1>1
      <4> HIDE DEF c, y
      <4>2. /\ y \in KernelType /\ ListsExact(y)
            /\ y.stat = [cleared.stat EXCEPT ![c] = "running"]
            /\ y.current = cleared.current /\ y.lock = cleared.lock
            /\ y.from = cleared.from /\ y.to = cleared.to
            /\ y.flag = cleared.flag /\ y.sw = cleared.sw
        BY <4>1, <3>1, <2>8, RemoveOK
      <4> QED BY <4>2, <2>8
    <3>5. y.stat = x.stat
      BY <3>4, <3>2, <1>2
    <3> HIDE DEF y
    <3>6. KernelOK(y)
      BY <3>4, <3>5, <1>1 DEF KernelOK
    <3>7. MostUrgent(y, y.current)
      BY <3>4, <3>5, <3>2, <2>7, <2>9, <1>1 DEF MostUrgent
    <3> QED BY <3>4, <3>6, <3>7, <1>1 DEF Switched, y
  <2>11. CASE ~Keeps(x)
    <3>1. /\ moved \in KernelType /\ ListsExact(moved)
          /\ moved.stat = x.stat /\ moved.current = t /\ moved.lock = x.lock
          /\ moved.from = x.from /\ moved.to = x.to /\ moved.flag = x.flag
          /\ moved.sw = x.sw
      BY <2>8, <2>3 DEF KernelType, ListsExact
    <3> HIDE DEF moved
    <3>2. /\ queued \in KernelType /\ ListsExact(queued)
          /\ queued.stat = [x.stat EXCEPT ![c] = IF running THEN "ready" ELSE @]
          /\ queued.current = t /\ queued.lock = x.lock /\ queued.from = x.from
          /\ queued.to = x.to /\ queued.flag = x.flag /\ queued.sw = x.sw
      <4>1. CASE running
        BY <4>1, <3>1, <2>6, <1>1, <1>2, InsertOK
      <4>2. CASE ~running
        BY <4>2, <3>1, <1>1, <1>2
      <4> QED BY <4>1, <4>2
    <3> HIDE DEF queued
    <3>3. /\ switched \in KernelType /\ ListsExact(switched)
          /\ switched.stat = [queued.stat EXCEPT ![t] = "running"]
          /\ switched.current = t /\ switched.lock = x.lock /\ switched.from = x.from
          /\ switched.to = x.to /\ switched.flag = x.flag /\ switched.sw = x.sw
      <4>1. switched = Off(queued, t, "running")
        BY DEF Off
      <4> HIDE DEF switched
      <4> QED BY <4>1, <3>2, <2>3, RemoveOK
    <3>4. y = Switch(switched, c, t, inIsr)
      BY <2>11, <2>0
    <3> HIDE DEF switched
    <3>5. /\ y \in KernelType /\ ListsExact(y) /\ y.stat = switched.stat
          /\ y.current = t /\ y.lock = x.lock
          /\ y.from = (IF inIsr /\ x.flag THEN x.from ELSE c)
          /\ y.to = t /\ y.flag = TRUE /\ y.sw = (IF inIsr THEN x.sw ELSE TRUE)
      <4> HIDE DEF y
      <4>1. /\ y.stat = switched.stat /\ y.table = switched.table /\ y.group = switched.group
            /\ y.current = t /\ y.lock = x.lock
            /\ y.from = (IF inIsr /\ x.flag THEN x.from ELSE c)
            /\ y.to = t /\ y.flag = TRUE /\ y.sw = (IF inIsr THEN x.sw ELSE TRUE)
        BY <3>3, <3>4 DEF Switch, KernelType
      <4>2. y \in KernelType
        BY <3>3, <3>4, <2>3, <1>1 DEF Switch, KernelType
      <4>3. ListsExact(y)
        BY <4>1, <3>3 DEF ListsExact
      <4> QED BY <4>1, <4>2, <4>3
    <3> HIDE DEF y
    <3>6. /\ y.stat[t] = "running" /\ y.stat[c] # "running"
          /\ \A u \in Thread : u # t /\ u # c => y.stat[u] = x.stat[u]
          /\ y.stat[c] = "ready" => x.stat[c] = "running"
      BY <3>5, <3>3, <3>2, <2>3, <2>6, <1>1, <1>2
    <3>7. \A u \in Thread : y.stat[u] = "running" => u = t
      BY <3>6, <1>1
    <3>8. y.stat[Idle] \in {"ready", "running"}
      <4>1. CASE Idle = c
        <5>1. running
          BY <4>1, <1>1
        <5> QED BY <5>1, <4>1, <3>5, <3>3, <3>2, <2>3, <2>6, <1>1, <1>2
      <4>2. CASE Idle # c
        BY <4>2, <3>6, <1>1
      <4> QED BY <4>1, <4>2
    <3>9. KernelOK(y)
      BY <3>5, <3>6, <3>7, <3>8 DEF KernelOK
    <3>10. MostUrgent(y, t)
      <4> SUFFICES ASSUME NEW u \in Thread, y.stat[u] = "ready" PROVE Prio[t] <= Prio[u]
        BY <3>6 DEF MostUrgent
      <4>1. CASE u = c
        <5>1. x.stat[c] = "running"
          BY <4>1, <3>6
        <5> QED BY <5>1, <4>1, <2>4, <2>9, <2>11, <1>1 DEF Keeps, p
      <4>2. CASE u # c
        BY <4>2, <3>6, <2>4, <2>7
      <4> QED BY <4>1, <4>2
    <3> QED BY <3>5, <3>9, <3>10, <2>3 DEF Switched, y
  <2> QED BY <2>10, <2>11
<1> QED BY <1>4, <1>5

-----------------------------------------------------------------------------
(* The inductive invariant.                                                *)

\* Nothing but stat, the lists and their bit mask differs.
SamePort(x, y) ==
    /\ y.current = x.current /\ y.lock = x.lock
    /\ y.from = x.from /\ y.to = x.to /\ y.flag = x.flag /\ y.sw = x.sw

\* rt_schedule_insert_thread of a thread that is not queued keeps KernelOK.
LEMMA InsertKernel ==
    ASSUME NEW x, KernelOK(x), NEW t \in Thread, x.stat[t] \in {"init", "suspend"}
    PROVE  /\ KernelOK(Insert(x, t)) /\ SamePort(x, Insert(x, t))
           /\ Insert(x, t).stat = [x.stat EXCEPT ![t] = IF t = x.current THEN "running" ELSE "ready"]
<1> DEFINE y == Insert(x, t)
<1>1. /\ y \in KernelType /\ ListsExact(y) /\ SamePort(x, y)
      /\ y.stat = [x.stat EXCEPT ![t] = IF t = x.current THEN "running" ELSE "ready"]
  BY InsertOK DEF KernelOK, SamePort
<1>2. x.stat \in [Thread -> {"init", "ready", "running", "suspend", "close"}] /\ Idle \in Thread
  BY ContextSwitchAssumption DEF KernelOK, KernelType
<1> HIDE DEF y
<1>3. KernelOK(y)
  BY <1>1, <1>2 DEF KernelOK, SamePort
<1> QED BY <1>1, <1>3 DEF y

\* Taking any thread but the idle one off its list keeps KernelOK.
LEMMA OffKernel ==
    ASSUME NEW x, KernelOK(x), NEW t \in Thread, t # Idle,
           NEW s \in {"suspend", "close"}
    PROVE  /\ KernelOK(Off(x, t, s)) /\ SamePort(x, Off(x, t, s))
           /\ Off(x, t, s).stat = [x.stat EXCEPT ![t] = s]
<1> DEFINE y == Off(x, t, s)
<1>0. /\ x \in KernelType /\ ListsExact(x) /\ y = Off(x, t, s)
  BY DEF KernelOK
<1> HIDE DEF y
<1>1. /\ y \in KernelType /\ ListsExact(y)
      /\ y.stat = [x.stat EXCEPT ![t] = s]
      /\ y.current = x.current /\ y.lock = x.lock /\ y.from = x.from
      /\ y.to = x.to /\ y.flag = x.flag /\ y.sw = x.sw
  <2>1. CASE s = "suspend"
    BY <2>1, <1>0, RemoveOK
  <2>2. CASE s = "close"
    BY <2>2, <1>0, RemoveOK
  <2> QED BY <2>1, <2>2
<1>2. x.stat \in [Thread -> {"init", "ready", "running", "suspend", "close"}] /\ Idle \in Thread
  BY ContextSwitchAssumption DEF KernelOK, KernelType
<1>3. KernelOK(y) /\ SamePort(x, y)
  BY <1>1, <1>2 DEF KernelOK, SamePort
<1> QED BY <1>1, <1>3 DEF y

\* A YIELD bit says nothing about the lists.
LEMMA YieldKernel ==
    ASSUME NEW x, KernelOK(x), NEW t \in Thread
    PROVE  KernelOK([x EXCEPT !.yield[t] = TRUE]) /\ SamePort(x, [x EXCEPT !.yield[t] = TRUE])
<1> DEFINE y == [x EXCEPT !.yield[t] = TRUE]
<1>1. /\ y \in KernelType /\ SamePort(x, y)
      /\ y.stat = x.stat /\ y.table = x.table /\ y.group = x.group
  BY DEF KernelOK, KernelType, SamePort
<1> HIDE DEF y
<1>2. KernelOK(y)
  BY <1>1 DEF KernelOK, ListsExact, SamePort
<1> QED BY <1>1, <1>2 DEF y

\* rt_schedule, called where a thread or a service routine calls it, leaves
\* one well-formed switch behind, or none.
LEMMA Rescheduled ==
    ASSUME IInv, k.current \in Thread, NEW x, KernelOK(x), SamePort(k, x),
           NEW inIsr \in BOOLEAN, inIsr <=> irq # "none", ~inIsr => ~k.flag,
           k' = Schedule(x, inIsr), UNCHANGED <<cpu, sp, cur_sp>>,
           irq' # "none" <=> irq # "none"
    PROVE  KernelOK(k)' /\ SwitchOK' /\ UrgentOK'
<1>1. x.current \in Thread
  BY DEF SamePort
<1>2. /\ KernelOK(k') /\ k'.current \in Thread /\ k'.lock = x.lock
      /\ x.lock = 0 => MostUrgent(k', k'.current)
      /\ Switched(x, k', inIsr)
  BY <1>1, ScheduleOK
<1>3. UrgentOK'
  BY <1>2 DEF UrgentOK
<1>4. k'.current # Nobody
  BY <1>2, ContextSwitchAssumption
<1>5. SwitchOK'
  <2>1. /\ \A t \in Thread \ {cpu} : sp[t] = t
        /\ irq # "none" => cur_sp = cpu /\ ~k.sw
        /\ irq = "none" => (k.flag <=> k.sw)
        /\ k.flag => k.from = cpu /\ k.to = k.current
        /\ ~k.flag => cpu = k.current
        /\ k.flag \in BOOLEAN /\ k.sw \in BOOLEAN
    BY DEF IInv, SwitchOK, TypeOK, KernelType
  <2>2. /\ x.current = k.current /\ x.from = k.from /\ x.to = k.to
        /\ x.flag = k.flag /\ x.sw = k.sw
    BY DEF SamePort
  <2>3. CASE /\ k'.current = x.current /\ k'.from = x.from /\ k'.to = x.to
             /\ k'.flag = x.flag /\ k'.sw = x.sw
    BY <2>1, <2>2, <2>3, <1>4 DEF SwitchOK
  <2>4. CASE /\ k'.from = IF inIsr /\ x.flag THEN x.from ELSE x.current
             /\ k'.to = k'.current /\ k'.flag = TRUE
             /\ k'.sw = IF inIsr THEN x.sw ELSE TRUE
    BY <2>1, <2>2, <2>4, <1>4 DEF SwitchOK
  <2> QED BY <2>3, <2>4, <1>2 DEF Switched
<1> QED BY <1>2, <1>3, <1>5

\* The state after rt_hw_stack_init and rt_system_scheduler_init satisfies IInv.
LEMMA InitInv == Init => IInv
<1> SUFFICES ASSUME Init PROVE IInv
  OBVIOUS
<1>1. TypeOK
  BY ContextSwitchAssumption DEF Init, TypeOK, KernelType
<1>2. ListsExact(k)
  BY PriorityNat DEF Init, ListsExact, Holds, ProperList
<1>3. KernelOK(k)
  BY <1>1, <1>2, ContextSwitchAssumption DEF Init, KernelOK, TypeOK
<1>4. SwitchOK
  BY DEF Init, SwitchOK
<1>5. UrgentOK
  BY DEF Init, UrgentOK
<1> QED BY <1>1, <1>3, <1>4, <1>5 DEF IInv

\* What IInv says of the thread that executes.
LEMMA ExecutesFacts ==
    ASSUME IInv, Executes
    PROVE  /\ irq = "none" /\ k.flag = FALSE /\ k.sw = FALSE
           /\ cpu = k.current /\ cpu \in Thread
BY DEF IInv, Executes, SwitchOK, TypeOK, KernelType

\* And of the inside of an interrupt.
LEMMA IrqFacts ==
    ASSUME IInv, irq # "none"
    PROVE  k.current \in Thread /\ k.sw = FALSE /\ cur_sp = cpu
BY DEF IInv, SwitchOK, TypeOK, KernelType

\* The port's view does not change if none of its variables does.
LEMMA SwitchKept ==
    ASSUME IInv, SamePort(k, k'), UNCHANGED <<cpu, irq, sp, cur_sp>>
    PROVE  SwitchOK'
BY DEF IInv, SwitchOK, SamePort

\* TypeOK is what KernelOK and the other variables' types say.
LEMMA TypeParts ==
    ASSUME IInv, KernelOK(k)', UNCHANGED <<cpu, sp, cur_sp>>,
           remaining' \in [Thread -> 1 .. Slice],
           pc' \in [Thread -> {"run", "sched"}],
           irq' \in {"none", "tick", "device"}
    PROVE  TypeOK'
BY DEF IInv, TypeOK, KernelOK

\* rt_thread_startup before the scheduler runs keeps IInv.
LEMMA StartupInv == ASSUME IInv, NEW t \in Thread, Startup(t) PROVE IInv'
<1>1. KernelOK(k)' /\ SamePort(k, k') /\ k'.current = Nobody
  BY InsertKernel DEF Startup, IInv, SamePort
<1>2. TypeOK'
  BY <1>1, TypeParts DEF Startup, IInv, TypeOK
<1>3. SwitchOK'
  BY <1>1, SwitchKept DEF Startup
<1> QED BY <1>1, <1>2, <1>3 DEF IInv, UrgentOK

\* rt_thread_resume by a thread keeps IInv.
LEMMA ResumeInv == ASSUME IInv, NEW t \in Thread, Resume(t) PROVE IInv'
<1>1. cpu = k.current /\ cpu \in Thread
  BY ExecutesFacts DEF Resume
<1>2. KernelOK(k)' /\ SamePort(k, k')
  BY InsertKernel DEF Resume, IInv
<1>3. pc' \in [Thread -> {"run", "sched"}] /\ pc'[cpu] = "sched"
  BY <1>1 DEF Resume, IInv, TypeOK
<1>4. TypeOK'
  BY <1>2, <1>3, TypeParts DEF Resume, IInv, TypeOK
<1>5. SwitchOK'
  BY <1>2, SwitchKept DEF Resume
<1>6. UrgentOK'
  BY <1>1, <1>2, <1>3 DEF UrgentOK, SamePort
<1> QED BY <1>2, <1>4, <1>5, <1>6 DEF IInv

\* rt_thread_suspend, of the caller or of a ready thread, keeps IInv.
LEMMA SuspendInv == ASSUME IInv, NEW t \in Thread, Suspend(t) PROVE IInv'
<1>1. cpu = k.current /\ cpu \in Thread /\ t # Idle
  BY ExecutesFacts DEF Suspend
<1>2. k' = Off(k, t, "suspend")
  BY DEF Suspend, Off
<1>3. KernelOK(k)' /\ SamePort(k, k') /\ k'.stat = [k.stat EXCEPT ![t] = "suspend"]
  BY <1>1, <1>2, OffKernel DEF IInv
<1>4. pc' \in [Thread -> {"run", "sched"}]
  BY <1>1 DEF Suspend, IInv, TypeOK
<1>5. TypeOK'
  BY <1>3, <1>4, TypeParts DEF Suspend, IInv, TypeOK
<1>6. SwitchOK'
  BY <1>3, SwitchKept DEF Suspend
<1>7. UrgentOK'
  <2>1. CASE t = cpu
    <3>1. pc'[cpu] = "sched"
      BY <2>1, <1>1 DEF Suspend, IInv, TypeOK
    <3> QED BY <3>1, <1>1, <1>3 DEF UrgentOK, SamePort
  <2>2. CASE t # cpu
    <3>1. pc' = pc
      BY <2>2, <1>1 DEF Suspend, IInv, TypeOK
    <3>2. k.stat \in [Thread -> {"init", "ready", "running", "suspend", "close"}]
      BY DEF IInv, TypeOK, KernelType
    <3> QED BY <3>1, <3>2, <2>2, <1>1, <1>3 DEF IInv, UrgentOK, SamePort, MostUrgent
  <2> QED BY <2>1, <2>2
<1> QED BY <1>3, <1>5, <1>6, <1>7 DEF IInv

\* rt_schedule called by a thread keeps IInv.
LEMMA CallScheduleInv == ASSUME IInv, CallSchedule PROVE IInv'
<1>1. irq = "none" /\ k.flag = FALSE /\ cpu = k.current /\ cpu \in Thread
  BY ExecutesFacts DEF CallSchedule
<1>2. KernelOK(k) /\ SamePort(k, k)
  BY DEF IInv, SamePort
<1>3. KernelOK(k)' /\ SwitchOK' /\ UrgentOK'
  BY <1>1, <1>2, Rescheduled DEF CallSchedule
<1>4. TypeOK'
  BY <1>1, <1>3, TypeParts DEF CallSchedule, IInv, TypeOK
<1> QED BY <1>3, <1>4 DEF IInv

\* rt_thread_yield keeps IInv.
LEMMA YieldInv == ASSUME IInv, Yield PROVE IInv'
<1>1. irq = "none" /\ k.flag = FALSE /\ cpu = k.current /\ cpu \in Thread
  BY ExecutesFacts DEF Yield
<1> DEFINE x == [k EXCEPT !.yield[cpu] = TRUE]
<1>2. KernelOK(x) /\ SamePort(k, x)
  BY <1>1, YieldKernel DEF IInv
<1>3. k' = Schedule(x, FALSE)
  BY DEF Yield
<1> HIDE DEF x
<1>4. KernelOK(k)' /\ SwitchOK' /\ UrgentOK'
  BY <1>1, <1>2, <1>3, Rescheduled DEF Yield
<1>5. remaining' \in [Thread -> 1 .. Slice]
  BY <1>1, ContextSwitchAssumption DEF Yield, IInv, TypeOK
<1>6. TypeOK'
  BY <1>4, <1>5, TypeParts DEF Yield, IInv, TypeOK
<1> QED BY <1>4, <1>6 DEF IInv

\* rt_thread_exit keeps IInv.
LEMMA ExitInv == ASSUME IInv, Exit PROVE IInv'
<1>1. irq = "none" /\ k.flag = FALSE /\ cpu = k.current /\ cpu \in Thread /\ cpu # Idle
  BY ExecutesFacts DEF Exit
<1> DEFINE x == Off(k, cpu, "close")
<1>2. KernelOK(x) /\ SamePort(k, x)
  BY <1>1, OffKernel DEF IInv
<1>3. k' = Schedule(x, FALSE)
  BY Zenon DEF Exit, Off
<1> HIDE DEF x
<1>4. KernelOK(k)' /\ SwitchOK' /\ UrgentOK'
  BY <1>1, <1>2, <1>3, Rescheduled DEF Exit
<1>5. TypeOK'
  BY <1>4, TypeParts DEF Exit, IInv, TypeOK
<1> QED BY <1>4, <1>5 DEF IInv

\* rt_system_scheduler_start chooses a most urgent thread and keeps IInv.
LEMMA SchedulerStartInv == ASSUME IInv, SchedulerStart PROVE IInv'
<1> DEFINE p == HighestReady(k)
           t == Head(k.table[p])
           x == [k EXCEPT !.current = t]
           y == Off(x, t, "running")
<1>1. /\ k \in KernelType /\ ListsExact(k) /\ Idle \in Thread
      /\ k.current = Nobody /\ k.stat[Idle] = "ready"
      /\ \A u \in Thread : k.stat[u] # "running"
      /\ irq = "none" /\ cpu = Nobody
  BY ContextSwitchAssumption DEF IInv, KernelOK, SwitchOK, SchedulerStart
<1>2. /\ k.stat \in [Thread -> {"init", "ready", "running", "suspend", "close"}]
      /\ k.group \subseteq Priority /\ k.table \in [Priority -> Seq(Thread)]
  BY <1>1 DEF KernelType
<1>3. \A u \in Thread : k.stat[u] = "ready" => Prio[u] \in k.group
  <2> SUFFICES ASSUME NEW u \in Thread, k.stat[u] = "ready" PROVE Prio[u] \in k.group
    OBVIOUS
  <2>1. Holds(k.table[Prio[u]], u) /\ Prio[u] \in Priority
    BY <1>1, PriorityNat DEF ListsExact
  <2>2. k.table[Prio[u]] # << >>
    BY <2>1 DEF Holds
  <2> QED BY <2>1, <2>2, <1>1 DEF ListsExact
<1>4. p \in k.group /\ \A q \in k.group : p <= q
  BY <1>1, <1>2, <1>3, PriorityNat, HighestReadySmallest
<1>5. k.table[p] \in Seq(Thread) /\ k.table[p] # << >> /\ ProperList(k.table[p], p)
  BY <1>4, <1>1, <1>2 DEF ListsExact
<1>6. t \in Thread /\ Holds(k.table[p], t)
  BY <1>5, ListHead
<1>7. Prio[t] = p
  BY <1>5, <1>6 DEF Holds, ProperList
<1>8. k' = [y EXCEPT !.from = Nobody, !.to = t, !.flag = TRUE, !.sw = TRUE]
  BY DEF SchedulerStart, SwitchTo, Off
<1> HIDE DEF p, t
<1>9. /\ x \in KernelType /\ ListsExact(x) /\ x.stat = k.stat /\ x.current = t
      /\ x.lock = k.lock
  BY <1>1, <1>6 DEF KernelType, ListsExact
<1> HIDE DEF x
<1>10. /\ y \in KernelType /\ ListsExact(y) /\ y.stat = [x.stat EXCEPT ![t] = "running"]
       /\ y.current = x.current /\ y.lock = x.lock
  BY <1>9, <1>6, RemoveOK
<1> HIDE DEF y
<1>11. /\ k' \in KernelType /\ k'.stat = y.stat /\ k'.table = y.table
       /\ k'.group = y.group /\ k'.current = t /\ k'.from = Nobody /\ k'.to = t
       /\ k'.flag = TRUE /\ k'.sw = TRUE
  BY <1>8, <1>9, <1>10, <1>6 DEF KernelType
<1>12. ListsExact(k')
  BY <1>10, <1>11 DEF ListsExact
<1>13. /\ k'.stat[t] = "running"
       /\ \A u \in Thread : u # t => k'.stat[u] = k.stat[u]
  BY <1>2, <1>6, <1>9, <1>10, <1>11
<1>14. KernelOK(k)'
  BY <1>1, <1>6, <1>11, <1>12, <1>13 DEF KernelOK
<1>15. TypeOK'
  BY <1>11 DEF IInv, TypeOK, SchedulerStart
<1>16. SwitchOK'
  BY <1>1, <1>6, <1>11, ContextSwitchAssumption DEF IInv, SwitchOK, SchedulerStart
<1>17. MostUrgent(k', t)
  <2> SUFFICES ASSUME NEW u \in Thread, k'.stat[u] = "ready" PROVE Prio[t] <= Prio[u]
    BY <1>13 DEF MostUrgent
  <2> QED BY <1>3, <1>4, <1>7, <1>13
<1>18. UrgentOK'
  BY <1>11, <1>17 DEF UrgentOK
<1> QED BY <1>14, <1>15, <1>16, <1>18 DEF IInv

\* The scheduler's lock is no part of the lists.
LEMMA LockKernel ==
    ASSUME NEW n \in 0 .. MaxLock, KernelOK(k), k' = [k EXCEPT !.lock = n]
    PROVE  /\ KernelOK(k)' /\ k'.current = k.current /\ k'.stat = k.stat
           /\ k'.lock = n /\ k'.from = k.from /\ k'.to = k.to
           /\ k'.flag = k.flag /\ k'.sw = k.sw
<1>1. /\ k' \in KernelType /\ k'.current = k.current /\ k'.stat = k.stat
      /\ k'.lock = n /\ k'.from = k.from /\ k'.to = k.to
      /\ k'.flag = k.flag /\ k'.sw = k.sw
      /\ k'.table = k.table /\ k'.group = k.group
  BY DEF KernelOK, KernelType
<1> QED BY <1>1 DEF KernelOK, ListsExact

\* rt_enter_critical keeps IInv.
LEMMA EnterCriticalInv == ASSUME IInv, EnterCritical PROVE IInv'
<1>1. k.lock + 1 \in 0 .. MaxLock /\ k.lock + 1 # 0
  BY ContextSwitchAssumption DEF EnterCritical, IInv, TypeOK, KernelType
<1>2. KernelOK(k) /\ k' = [k EXCEPT !.lock = k.lock + 1]
  BY DEF EnterCritical, IInv
<1>3. /\ KernelOK(k)' /\ k'.current = k.current /\ k'.lock # 0
      /\ k'.from = k.from /\ k'.to = k.to /\ k'.flag = k.flag /\ k'.sw = k.sw
  BY <1>1, <1>2, LockKernel
<1>4. TypeOK'
  BY <1>3, TypeParts DEF EnterCritical, IInv, TypeOK
<1>5. SwitchOK' /\ UrgentOK'
  BY <1>3 DEF EnterCritical, IInv, SwitchOK, UrgentOK
<1> QED BY <1>3, <1>4, <1>5 DEF IInv

\* rt_exit_critical, which reschedules at the last unlock, keeps IInv.
LEMMA ExitCriticalInv == ASSUME IInv, ExitCritical PROVE IInv'
<1>1. k.lock - 1 \in 0 .. MaxLock /\ (k.lock - 1 = 0 => k.lock = 1)
  BY ContextSwitchAssumption DEF ExitCritical, IInv, TypeOK, KernelType
<1>2. KernelOK(k) /\ k' = [k EXCEPT !.lock = k.lock - 1]
  BY DEF ExitCritical, IInv
<1>3. /\ KernelOK(k)' /\ k'.current = k.current /\ k'.lock = k.lock - 1
      /\ k'.from = k.from /\ k'.to = k.to /\ k'.flag = k.flag /\ k'.sw = k.sw
  BY <1>1, <1>2, LockKernel
<1>4. cpu = k.current /\ cpu \in Thread
  BY ExecutesFacts DEF ExitCritical
<1>5. pc' \in [Thread -> {"run", "sched"}] /\ (k.lock = 1 => pc'[cpu] = "sched")
  BY <1>4 DEF ExitCritical, IInv, TypeOK
<1>6. TypeOK'
  BY <1>3, <1>5, TypeParts DEF ExitCritical, IInv, TypeOK
<1>7. SwitchOK'
  BY <1>3 DEF ExitCritical, IInv, SwitchOK
<1>8. UrgentOK'
  BY <1>1, <1>3, <1>4, <1>5 DEF UrgentOK
<1> QED BY <1>3, <1>6, <1>7, <1>8 DEF IInv

\* Nor are the two interrupt flags.
LEMMA FlagsKernel ==
    ASSUME KernelOK(k), k' \in {[k EXCEPT !.sw = FALSE], [k EXCEPT !.flag = FALSE]}
    PROVE  /\ KernelOK(k)' /\ k'.current = k.current /\ k'.stat = k.stat
           /\ k'.lock = k.lock /\ k'.from = k.from /\ k'.to = k.to
<1>1. /\ k' \in KernelType /\ k'.current = k.current /\ k'.stat = k.stat
      /\ k'.lock = k.lock /\ k'.from = k.from /\ k'.to = k.to
      /\ k'.table = k.table /\ k'.group = k.group
  BY DEF KernelOK, KernelType
<1> QED BY <1>1 DEF KernelOK, ListsExact

\* Saving the interrupted context keeps IInv.
LEMMA IrqEnterInv == ASSUME IInv, IrqEnter PROVE IInv'
<1>1. k' = [k EXCEPT !.sw = FALSE] /\ KernelOK(k)
  BY DEF IrqEnter, IInv
<1>2. /\ KernelOK(k)' /\ k'.current = k.current /\ k'.stat = k.stat
      /\ k'.lock = k.lock /\ k'.from = k.from /\ k'.to = k.to
  BY <1>1, FlagsKernel
<1>3. k'.flag = k.flag /\ k'.sw = FALSE
  BY <1>1 DEF KernelOK, KernelType
<1>4. TypeOK'
  BY <1>2 DEF IrqEnter, save_context, IInv, TypeOK, KernelOK
<1>5. SwitchOK'
  BY <1>2, <1>3 DEF IrqEnter, save_context, IInv, SwitchOK
<1>6. UrgentOK'
  BY <1>2 DEF IrqEnter, IInv, UrgentOK, MostUrgent
<1> QED BY <1>2, <1>4, <1>5, <1>6 DEF IInv

\* rt_tick_increase keeps IInv, whether or not the time slice ends.
LEMMA TickInv == ASSUME IInv, Tick PROVE IInv'
<1>1. k.current \in Thread
  BY IrqFacts DEF Tick
<1>2. /\ irq' = "device" /\ irq # "none" /\ UNCHANGED <<cpu, pc, sp, cur_sp>>
      /\ remaining \in [Thread -> 1 .. Slice] /\ pc \in [Thread -> {"run", "sched"}]
      /\ Slice \in Nat \ {0}
  BY ContextSwitchAssumption DEF Tick, IInv, TypeOK
<1>3. CASE remaining[k.current] = 1
  <2> DEFINE x == [k EXCEPT !.yield[k.current] = TRUE]
  <2>1. KernelOK(x) /\ SamePort(k, x)
    BY <1>1, YieldKernel DEF IInv
  <2>2. k' = Schedule(x, TRUE) /\ remaining' = [remaining EXCEPT ![k.current] = Slice]
    BY <1>3 DEF Tick
  <2> HIDE DEF x
  <2>3. KernelOK(k)' /\ SwitchOK' /\ UrgentOK'
    BY <1>1, <1>2, <2>1, <2>2, Rescheduled
  <2>4. remaining' \in [Thread -> 1 .. Slice]
    BY <2>2, <1>1, <1>2
  <2>5. TypeOK'
    BY <2>3, <2>4, <1>2, TypeParts
  <2> QED BY <2>3, <2>5 DEF IInv
<1>4. CASE remaining[k.current] # 1
  <2>1. k' = k /\ remaining' = [remaining EXCEPT ![k.current] = remaining[k.current] - 1]
    BY <1>4 DEF Tick
  <2>2. remaining' \in [Thread -> 1 .. Slice]
    BY <2>1, <1>1, <1>2, <1>4
  <2>3. KernelOK(k)' /\ UrgentOK'
    BY <2>1, <1>2 DEF IInv, UrgentOK, KernelOK
  <2>4. SwitchOK'
    BY <2>1, <1>2 DEF IInv, SwitchOK
  <2>5. TypeOK'
    BY <2>2, <2>3, <1>2, TypeParts
  <2> QED BY <2>3, <2>4, <2>5 DEF IInv
<1> QED BY <1>3, <1>4

\* A thread resumed by a service routine keeps IInv.
LEMMA IsrResumeInv == ASSUME IInv, NEW t \in Thread, IsrResume(t) PROVE IInv'
<1>1. k.current \in Thread
  BY IrqFacts DEF IsrResume
<1> DEFINE x == Insert(k, t)
<1>2. KernelOK(x) /\ SamePort(k, x)
  BY InsertKernel DEF IsrResume, IInv
<1>3. k' = Schedule(x, TRUE)
  BY DEF IsrResume
<1> HIDE DEF x
<1>4. KernelOK(k)' /\ SwitchOK' /\ UrgentOK'
  BY <1>1, <1>2, <1>3, Rescheduled DEF IsrResume
<1>5. TypeOK'
  BY <1>4, TypeParts DEF IsrResume, IInv, TypeOK
<1> QED BY <1>4, <1>5 DEF IInv

\* rt_switch_to_thread exchanges the stack pointers the right way round.
LEMMA IrqExitInv == ASSUME IInv, IrqExit PROVE IInv'
<1>1. k' = [k EXCEPT !.flag = FALSE] /\ KernelOK(k)
  BY DEF IrqExit, IInv
<1>2. /\ KernelOK(k)' /\ k'.current = k.current /\ k'.stat = k.stat
      /\ k'.lock = k.lock /\ k'.from = k.from /\ k'.to = k.to
  BY <1>1, FlagsKernel
<1>3. k'.flag = FALSE /\ k'.sw = FALSE
  BY <1>1, IrqFacts DEF KernelOK, KernelType, IrqExit
<1>4. k.current \in Thread /\ cur_sp = cpu
  BY IrqFacts DEF IrqExit
<1>5. /\ \A t \in Thread \ {cpu} : sp[t] = t
      /\ k.flag => k.from = cpu /\ k.to = k.current
      /\ ~k.flag => cpu = k.current
      /\ sp \in [Thread -> Thread \cup {Nobody}] /\ cpu \in Thread \cup {Nobody}
      /\ k.flag \in BOOLEAN
  BY DEF IInv, SwitchOK, TypeOK, KernelType
<1>6. /\ \A t \in Thread \ {k.current} : sp'[t] = t
      /\ sp' \in [Thread -> Thread \cup {Nobody}]
      /\ cpu' = k.current /\ cur_sp' = k.current
  <2>1. CASE k.flag
    <3>1. sp' = IF cpu # Nobody THEN [sp EXCEPT ![cpu] = cpu] ELSE sp
      BY <2>1, <1>4, <1>5 DEF IrqExit
    <3>2. \A t \in Thread : sp'[t] = t
      BY <3>1, <1>5, ContextSwitchAssumption
    <3>3. cur_sp' = sp'[k.current] /\ cpu' = cur_sp'
      BY <2>1, <1>5 DEF IrqExit, restore_context
    <3> QED BY <3>1, <3>2, <3>3, <1>4, <1>5
  <2>2. CASE ~k.flag
    BY <2>2, <1>4, <1>5 DEF IrqExit, restore_context
  <2> QED BY <2>1, <2>2
<1>7. TypeOK'
  BY <1>2, <1>4, <1>6 DEF IrqExit, IInv, TypeOK, KernelOK
<1>8. SwitchOK'
  BY <1>2, <1>3, <1>6 DEF IrqExit, SwitchOK
<1>9. UrgentOK'
  BY <1>2 DEF IrqExit, IInv, UrgentOK, MostUrgent
<1> QED BY <1>2, <1>7, <1>8, <1>9 DEF IInv

\* IInv is inductive.
LEMMA NextInv == IInv /\ [Next]_vars => IInv'
<1> SUFFICES ASSUME IInv, [Next]_vars PROVE IInv'
  OBVIOUS
<1>1. CASE SchedulerStart
  BY <1>1, SchedulerStartInv
<1>2. ASSUME NEW t \in Thread, Startup(t) \/ Resume(t) \/ Suspend(t) PROVE IInv'
  BY <1>2, StartupInv, ResumeInv, SuspendInv
<1>3. CASE CallSchedule \/ Yield \/ Exit
  BY <1>3, CallScheduleInv, YieldInv, ExitInv
<1>4. CASE EnterCritical \/ ExitCritical
  BY <1>4, EnterCriticalInv, ExitCriticalInv
<1>5. CASE Irq
  BY <1>5, IrqEnterInv, TickInv, IsrResumeInv, IrqExitInv DEF Irq
<1>6. CASE UNCHANGED vars
  BY <1>6 DEF vars, IInv, TypeOK, KernelOK, SwitchOK, UrgentOK
<1> QED BY <1>1, <1>2, <1>3, <1>4, <1>5, <1>6 DEF Next

-----------------------------------------------------------------------------
\* Whatever threads and service routines call, in any order, and however many
\* of their calls of rt_schedule end in one software interrupt: low_prio_irq
\* stores the context it saved in the thread it interrupted and resumes the
\* thread the scheduler chose last.
THEOREM ContextsNeverMixed == Spec => [](TypeOK /\ ContextsOwn)
<1>1. IInv => TypeOK /\ ContextsOwn
  BY DEF IInv, SwitchOK, ContextsOwn, TypeOK
<1> QED BY <1>1, InitInv, NextInv, PTL DEF Spec

\* The ready lists of rt_thread_priority_table and the bits of
\* rt_thread_ready_priority_group agree with every thread's stat.
THEOREM ListsStayExact == Spec => []ReadyListsExact
<1>1. IInv => ReadyListsExact
  BY DEF IInv, KernelOK, ReadyListsExact
<1> QED BY <1>1, InitInv, NextInv, PTL DEF Spec

\* rt_schedule, where it is called, always gives the CPU to a thread than
\* which no ready thread is more urgent.
THEOREM UrgentThreadRuns == Spec => []MostUrgentRuns
<1>1. IInv => MostUrgentRuns
  <2> SUFFICES ASSUME IInv, Executes, k.lock = 0, pc[cpu] = "run" PROVE MostUrgent(k, cpu)
    BY DEF MostUrgentRuns
  <2>1. cpu = k.current /\ cpu # Nobody
    BY ExecutesFacts, ContextSwitchAssumption
  <2> QED BY <2>1 DEF IInv, UrgentOK
<1> QED BY <1>1, InitInv, NextInv, PTL DEF Spec
=============================================================================
