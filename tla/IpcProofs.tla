----------------------------- MODULE IpcProofs -----------------------------
(***************************************************************************)
(* Ipc, for any threads, priorities, semaphores and mutexes: lists of      *)
(* waiting threads are exact, a take returns what happened, and priorities *)
(* are lent to owners and given back.                                      *)
(***************************************************************************)
EXTENDS Ipc, WellFoundedInduction, TLAPS

\* No element is twice on a list; a list is in order of priority.
Proper(l) == \A i, j \in 1 .. Len(l) : l[i] = l[j] => i = j
Sorted(l, p) == \A i, j \in 1 .. Len(l) : i <= j => p[l[i]] <= p[l[j]]

\* The running thread is ready.
Ready == cur # None => ~suspended[cur]

Lists == \A o \in Object : Proper(list[o])

\* A mutex that is not available has a priority to give back.
MutexOK ==
    \A m \in Mutex : value[m] \in {0, 1} /\ (owner[m] # None => original[m] \in Nat)

\* A thread that waits has no result yet, and not what it waits for.
Waiting ==
    \A t \in Thread :
        /\ suspended[t] /\ call[t] # None =>
               /\ error[t] = "ok" /\ t \notin granted
               /\ call[t] \in Mutex => owner[call[t]] # t
        /\ call[t] = None => t \notin granted

\* owned is what the mutexes themselves say.
Owned ==
    \A t \in Thread : /\ Proper(owned[t])
                      /\ \A m \in Mutex : On(owned[t], m) <=> owner[m] = t

\* Both mutexes are in nested if a thread has the one and has or waits for
\* the other.
NestedOK ==
    \A t \in Thread, m, n \in Mutex :
        /\ m # n /\ owner[m] = t
        /\ owner[n] = t \/ (suspended[t] /\ call[t] = n)
        => m \in nested /\ n \in nested

\* The first waiter is the most urgent: its priority cannot have changed.
Ordered == \A m \in Mutex \ (nested \cup Fifo) : Sorted(list[m], prio)

\* OwnerInherits, of the threads on the list.
Lends ==
    \A m \in Mutex \ nested, t \in Thread :
        On(list[m], t) => prio[owner[m]] <= prio[t]

\* The first mutex a thread took gives its own priority back.
FirstIsBase ==
    InOrder => \A t \in Thread : IF owned[t] = << >> THEN prio[t] = Base[t]
                                 ELSE original[owned[t][1]] = Base[t]

IInv ==
    /\ WaitersExact /\ Lists /\ MutexOK /\ Waiting /\ TakeReturnsTruth /\ Owned
    /\ NestedOK /\ Ordered /\ Lends /\ FirstIsBase /\ Ready /\ MostUrgentRuns

-----------------------------------------------------------------------------
(* Lists.                                                                  *)

\* A non-empty set of numbers has a smallest one.
LEMMA Smallest ==
    ASSUME NEW S, S \subseteq Nat, S # {}
    PROVE  \E p \in S : \A q \in S : p <= q
<1>1. IsWellFoundedOn(OpToRel(<, Nat), Nat)
  BY NatLessThanWellFounded
<1>2. PICK p \in S : \A q \in S : ~(<<q, p>> \in OpToRel(<, Nat))
  BY <1>1, WFMin, Zenon
<1>3. \A q \in S : ~(q < p)
  BY <1>2 DEF OpToRel
<1> QED BY <1>3

\* The elements of a list, by place.
LEMMA Places ==
    ASSUME NEW S, NEW l \in Seq(S)
    PROVE  /\ Len(l) \in Nat /\ \A i \in 1 .. Len(l) : l[i] \in S /\ On(l, l[i])
           /\ \A x : On(l, x) => x \in S
           /\ l = << >> <=> Len(l) = 0
           /\ l = << >> <=> \A x : ~On(l, x)
           /\ l # << >> => 1 \in 1 .. Len(l)
<1>1. Len(l) \in Nat /\ \A i \in 1 .. Len(l) : l[i] \in S /\ On(l, l[i])
  BY DEF On
<1>2. l = << >> <=> Len(l) = 0
  OBVIOUS
<1>3. l = << >> => \A x : ~On(l, x)
  BY DEF On
<1>4. l # << >> => 1 \in 1 .. Len(l)
  BY <1>1, <1>2
<1> QED BY <1>1, <1>2, <1>3, <1>4 DEF On

\* A function on 1 .. k is a list of k elements.
LEMMA ListOf ==
    ASSUME NEW S, NEW k \in Nat, NEW f \in [1 .. k -> S]
    PROVE  f \in Seq(S) /\ Len(f) = k
OBVIOUS

\* rt_list_insert_before at the end.
LEMMA ListAppend ==
    ASSUME NEW S, NEW l \in Seq(S), NEW t \in S, ~On(l, t), Proper(l)
    PROVE  /\ Append(l, t) \in Seq(S) /\ Append(l, t) # << >> /\ Proper(Append(l, t))
           /\ \A u : On(Append(l, t), u) <=> On(l, u) \/ u = t
           /\ Append(l, t)[1] = IF l = << >> THEN t ELSE l[1]
<1> DEFINE m == Append(l, t)
<1>1. m \in Seq(S) /\ Len(m) = Len(l) + 1 /\ m[Len(l) + 1] = t
      /\ Len(l) \in Nat /\ \A i \in 1 .. Len(l) : m[i] = l[i]
  OBVIOUS
<1>2. l = << >> <=> Len(l) = 0
  OBVIOUS
<1> HIDE DEF m
<1>3. m # << >> /\ m[1] = IF l = << >> THEN t ELSE l[1]
  BY <1>1, <1>2
<1>4. \A i \in 1 .. Len(l) : l[i] # t
  BY DEF On
<1>5. Proper(m)
  <2> SUFFICES ASSUME NEW i \in 1 .. Len(l) + 1, NEW j \in 1 .. Len(l) + 1, m[i] = m[j]
               PROVE  i = j
    BY <1>1 DEF Proper
  <2>1. (i \in 1 .. Len(l) \/ i = Len(l) + 1) /\ (j \in 1 .. Len(l) \/ j = Len(l) + 1)
    BY <1>1
  <2> QED BY <2>1, <1>1, <1>4 DEF Proper
<1>6. ASSUME NEW u PROVE On(m, u) <=> On(l, u) \/ u = t
  <2>1. On(l, u) \/ u = t => On(m, u)
    BY <1>1 DEF On
  <2>2. ASSUME On(m, u) PROVE On(l, u) \/ u = t
    <3>1. PICK i \in 1 .. Len(l) + 1 : m[i] = u
      BY <2>2, <1>1 DEF On
    <3>2. i \in 1 .. Len(l) \/ i = Len(l) + 1
      BY <1>1
    <3> QED BY <3>1, <3>2, <1>1 DEF On
  <2> QED BY <2>1, <2>2
<1> QED BY <1>1, <1>3, <1>5, <1>6 DEF m

\* rt_list_remove takes one element out, and only shifts the others.
LEMMA ListWithout ==
    ASSUME NEW S, NEW l \in Seq(S), NEW t, Proper(l)
    PROVE  /\ Without(l, t) \in Seq(S) /\ Proper(Without(l, t))
           /\ \A u : On(Without(l, t), u) <=> On(l, u) /\ u # t
           /\ \A p : Sorted(l, p) => Sorted(Without(l, t), p)
           /\ On(l, t) => /\ Len(Without(l, t)) = Len(l) - 1
                          /\ l[1] # t => Without(l, t)[1] = l[1]
<1>1. CASE ~On(l, t)
  BY <1>1 DEF Without, On
<1>2. CASE On(l, t)
  <2> DEFINE n == CHOOSE i \in 1 .. Len(l) : l[i] = t
             m == [i \in 1 .. Len(l) - 1 |-> IF i < n THEN l[i] ELSE l[i + 1]]
  <2>1. n \in 1 .. Len(l) /\ l[n] = t
    BY <1>2 DEF On
  <2>2. Without(l, t) = m
    BY <1>2 DEF Without
  <2> HIDE DEF n
  <2>3. Len(l) \in Nat /\ \A i \in 1 .. Len(l) : l[i] \in S
    OBVIOUS
  <2>4. Len(l) - 1 \in Nat
    BY <2>1, <2>3
  <2>5. m \in Seq(S) /\ Len(m) = Len(l) - 1
    <3>1. \A i \in 1 .. Len(l) - 1 : m[i] \in S
      BY <2>1, <2>3
    <3>2. m \in [1 .. Len(l) - 1 -> S]
      BY <3>1
    <3> QED BY <3>2, <2>4
  <2>6. \A i \in 1 .. Len(l) - 1 : m[i] = IF i < n THEN l[i] ELSE l[i + 1]
    OBVIOUS
  <2> HIDE DEF m
  <2>7. Proper(m)
    <3> SUFFICES ASSUME NEW i \in 1 .. Len(l) - 1, NEW j \in 1 .. Len(l) - 1, m[i] = m[j]
                 PROVE  i = j
      BY <2>5 DEF Proper
    <3>1. i \in 1 .. Len(l) /\ i + 1 \in 1 .. Len(l) /\ j \in 1 .. Len(l) /\ j + 1 \in 1 .. Len(l)
      BY <2>3
    <3> QED BY <3>1, <2>1, <2>3, <2>6 DEF Proper
  <2>8. ASSUME NEW u PROVE On(m, u) <=> On(l, u) /\ u # t
    <3>1. ASSUME On(m, u) PROVE On(l, u) /\ u # t
      <4>1. PICK i \in 1 .. Len(l) - 1 : m[i] = u
        BY <3>1, <2>5 DEF On
      <4>2. i \in 1 .. Len(l) /\ i + 1 \in 1 .. Len(l)
        BY <2>3
      <4> QED BY <4>1, <4>2, <2>1, <2>3, <2>6 DEF On, Proper
    <3>2. ASSUME On(l, u), u # t PROVE On(m, u)
      <4>1. PICK i \in 1 .. Len(l) : l[i] = u
        BY <3>2 DEF On
      <4>2. i # n
        BY <4>1, <3>2, <2>1
      <4>3. CASE i < n
        <5>1. i \in 1 .. Len(l) - 1 /\ m[i] = u
          BY <4>3, <4>1, <2>1, <2>3, <2>6
        <5> QED BY <5>1, <2>5 DEF On
      <4>4. CASE i > n
        <5>1. i - 1 \in 1 .. Len(l) - 1 /\ ~(i - 1 < n) /\ (i - 1) + 1 = i
          BY <4>4, <2>1, <2>3
        <5>2. m[i - 1] = u
          BY <5>1, <4>1, <2>6
        <5> QED BY <5>1, <5>2, <2>5 DEF On
      <4> QED BY <4>2, <4>3, <4>4, <2>1, <2>3
    <3> QED BY <3>1, <3>2
  <2>9. ASSUME NEW p, Sorted(l, p) PROVE Sorted(m, p)
    <3> SUFFICES ASSUME NEW i \in 1 .. Len(l) - 1, NEW j \in 1 .. Len(l) - 1, i <= j
                 PROVE  p[m[i]] <= p[m[j]]
      BY <2>5 DEF Sorted
    <3> DEFINE a == IF i < n THEN i ELSE i + 1
               b == IF j < n THEN j ELSE j + 1
    <3>1. a \in 1 .. Len(l) /\ b \in 1 .. Len(l) /\ a <= b /\ m[i] = l[a] /\ m[j] = l[b]
      BY <2>1, <2>3, <2>6
    <3> QED BY <3>1, <2>9 DEF Sorted
  <2>10. l[1] # t => m[1] = l[1]
    <3> SUFFICES ASSUME l[1] # t PROVE m[1] = l[1]
      OBVIOUS
    <3>1. 1 < n /\ 1 \in 1 .. Len(l) - 1
      BY <2>1, <2>3
    <3> QED BY <3>1, <2>6
  <2> QED BY <2>2, <2>5, <2>7, <2>8, <2>9, <2>10, <1>2
<1> QED BY <1>1, <1>2

\* rt_ipc_list_suspend puts a thread in its place.
LEMMA ListInsert ==
    ASSUME NEW o \in Object, NEW t \in Thread, list[o] \in Seq(Thread), Proper(list[o]),
           ~On(list[o], t), prio \in [Thread -> Nat]
    PROVE  /\ Insert(o, t) \in Seq(Thread) /\ Proper(Insert(o, t))
           /\ \A u : On(Insert(o, t), u) <=> On(list[o], u) \/ u = t
           /\ o \notin Fifo /\ Sorted(list[o], prio) => Sorted(Insert(o, t), prio)
<1> DEFINE l == list[o]
           less == {i \in 1 .. Len(l) : o \notin Fifo /\ prio[t] < prio[l[i]]}
           n == IF less = {} THEN Len(l) + 1
                ELSE CHOOSE i \in less : \A j \in less : i <= j
           m == [i \in 1 .. Len(l) + 1 |-> IF i < n THEN l[i] ELSE IF i = n THEN t ELSE l[i - 1]]
<1>1. Len(l) \in Nat /\ \A i \in 1 .. Len(l) : l[i] \in Thread /\ l[i] # t
  BY DEF On
<1>2. /\ n \in 1 .. Len(l) + 1
      /\ \A i \in 1 .. Len(l) : i \in less => n <= i
      /\ n # Len(l) + 1 => n \in less
  <2>1. CASE less = {}
    BY <2>1, <1>1
  <2>2. CASE less # {}
    <3>1. less \subseteq Nat
      BY <1>1
    <3>2. \E i \in less : \A j \in less : i <= j
      BY <2>2, <3>1, Smallest
    <3>3. n \in less /\ \A j \in less : n <= j
      BY <3>2, <2>2
    <3> HIDE DEF n, less
    <3>4. n \in 1 .. Len(l)
      BY <3>3 DEF less
    <3> QED BY <1>1, <3>3, <3>4
  <2> QED BY <2>1, <2>2
<1>3. o \notin Fifo => /\ \A i \in 1 .. Len(l) : i < n => prio[l[i]] <= prio[t]
                       /\ n \in 1 .. Len(l) => prio[t] < prio[l[n]]
  <2> HIDE DEF n
  <2>1. \A i \in 1 .. Len(l) : i < n => i \notin less
    BY <1>1, <1>2
  <2>2. n \in 1 .. Len(l) => n \in less
    BY <1>1, <1>2
  <2>3. prio[t] \in Nat /\ \A i \in 1 .. Len(l) : prio[l[i]] \in Nat
    BY <1>1
  <2> QED BY <2>1, <2>2, <2>3
<1>4. Insert(o, t) = m
  BY DEF Insert
<1> HIDE DEF n, less
<1>5. m \in Seq(Thread) /\ Len(m) = Len(l) + 1
  <2>1. ASSUME NEW i \in 1 .. Len(l) + 1 PROVE m[i] \in Thread
    <3>1. i < n => i \in 1 .. Len(l)
      BY <1>1, <1>2
    <3>2. ~(i < n) /\ i # n => i - 1 \in 1 .. Len(l)
      BY <1>1, <1>2
    <3> QED BY <1>1, <3>1, <3>2
  <2>2. \A i \in 1 .. Len(l) + 1 : m[i] \in Thread
    BY <2>1
  <2>3. m \in [1 .. Len(l) + 1 -> Thread]
    BY <2>2, Zenon
  <2>4. Len(l) + 1 \in Nat
    BY <1>1
  <2> QED BY <2>3, <2>4, ListOf
<1>6. \A i \in 1 .. Len(l) + 1 : m[i] = IF i < n THEN l[i] ELSE IF i = n THEN t ELSE l[i - 1]
  OBVIOUS
<1> HIDE DEF m
<1>7. \A i \in 1 .. Len(l) + 1 :
        /\ i < n => i \in 1 .. Len(l) /\ m[i] = l[i]
        /\ i = n => m[i] = t
        /\ i > n => i - 1 \in 1 .. Len(l) /\ m[i] = l[i - 1]
  BY <1>1, <1>2, <1>6
<1>8. Proper(m)
  <2> SUFFICES ASSUME NEW i \in 1 .. Len(l) + 1, NEW j \in 1 .. Len(l) + 1, m[i] = m[j]
               PROVE  i = j
    BY <1>5 DEF Proper
  <2>1. \A a, b \in 1 .. Len(l) : l[a] = l[b] => a = b
    BY DEF Proper
  <2>2. CASE i = n \/ j = n
    <3>1. \A a \in 1 .. Len(l) + 1 : a < n \/ a > n => m[a] # t
      BY <1>1, <1>7
    <3> QED BY <2>2, <3>1, <1>2, <1>7
  <2>3. CASE i < n /\ j < n
    BY <2>1, <2>3, <1>7
  <2>4. CASE i > n /\ j > n
    <3>1. /\ i - 1 \in 1 .. Len(l) /\ m[i] = l[i - 1]
          /\ j - 1 \in 1 .. Len(l) /\ m[j] = l[j - 1]
      BY <2>4, <1>7
    <3>2. i - 1 = j - 1
      BY <2>1, <3>1
    <3> QED BY <3>2
  <2>5. CASE i < n /\ j > n
    <3>1. i = j - 1
      BY <2>1, <2>5, <1>7
    <3> QED BY <3>1, <2>5, <1>2
  <2>6. CASE i > n /\ j < n
    <3>1. j = i - 1
      BY <2>1, <2>6, <1>7
    <3> QED BY <3>1, <2>6, <1>2
  <2> QED BY <2>2, <2>3, <2>4, <2>5, <2>6, <1>2
<1>9. ASSUME NEW u PROVE On(m, u) <=> On(l, u) \/ u = t
  <2>1. ASSUME On(m, u) PROVE On(l, u) \/ u = t
    <3>1. PICK i \in 1 .. Len(l) + 1 : m[i] = u
      BY <2>1, <1>5 DEF On
    <3>2. CASE i = n
      BY <3>1, <3>2, <1>7
    <3>3. CASE i < n
      BY <3>1, <3>3, <1>7 DEF On
    <3>4. CASE i > n
      <4>1. i - 1 \in 1 .. Len(l) /\ m[i] = l[i - 1]
        BY <3>4, <1>7
      <4> QED BY <3>1, <4>1 DEF On
    <3> QED BY <3>2, <3>3, <3>4, <1>2
  <2>2. u = t => On(m, u)
    BY <1>2, <1>5, <1>7 DEF On
  <2>3. ASSUME On(l, u) PROVE On(m, u)
    <3>1. PICK i \in 1 .. Len(l) : l[i] = u
      BY <2>3 DEF On
    <3>2. CASE i < n
      <4>1. i \in 1 .. Len(l) + 1 /\ m[i] = u
        BY <3>1, <3>2, <1>1, <1>7
      <4> QED BY <4>1, <1>5 DEF On
    <3>3. CASE ~(i < n)
      <4>1. i + 1 \in 1 .. Len(l) + 1 /\ i + 1 > n /\ (i + 1) - 1 = i
        BY <3>3, <1>1, <1>2
      <4>2. m[i + 1] = u
        BY <4>1, <3>1, <1>7
      <4> QED BY <4>1, <4>2, <1>5 DEF On
    <3> QED BY <3>2, <3>3
  <2> QED BY <2>1, <2>2, <2>3
<1>10. ASSUME o \notin Fifo, Sorted(l, prio) PROVE Sorted(m, prio)
  <2>1. /\ \A i \in 1 .. Len(l) : i < n => prio[l[i]] <= prio[t]
        /\ \A i \in 1 .. Len(l) : i >= n => prio[t] <= prio[l[i]]
    <3>1. \A i \in 1 .. Len(l) : prio[l[i]] \in Nat
      BY <1>1
    <3>2. ASSUME NEW i \in 1 .. Len(l), i >= n PROVE prio[t] <= prio[l[i]]
      <4>1. n \in 1 .. Len(l) /\ n <= i
        BY <3>2, <1>1, <1>2
      <4>2. prio[l[n]] <= prio[l[i]]
        BY <4>1, <1>10 DEF Sorted
      <4> QED BY <4>1, <4>2, <3>1, <1>3, <1>10
    <3> QED BY <3>2, <1>3, <1>10
  <2> SUFFICES ASSUME NEW i \in 1 .. Len(l) + 1, NEW j \in 1 .. Len(l) + 1, i <= j
               PROVE  prio[m[i]] <= prio[m[j]]
    BY <1>5 DEF Sorted
  <2>2. CASE i < n /\ j < n
    BY <2>2, <1>7, <1>10 DEF Sorted
  <2>3. CASE i < n /\ j = n
    BY <2>3, <1>7, <2>1
  <2>4. CASE i < n /\ j > n
    <3>1. m[i] = l[i] /\ m[j] = l[j - 1] /\ i \in 1 .. Len(l) /\ j - 1 \in 1 .. Len(l)
          /\ i <= j - 1
      BY <2>4, <1>2, <1>7
    <3> QED BY <3>1, <1>10 DEF Sorted
  <2>5. CASE i = n /\ j = n
    BY <2>5, <1>7
  <2>6. CASE i = n /\ j > n
    <3>1. m[i] = t /\ m[j] = l[j - 1] /\ j - 1 \in 1 .. Len(l) /\ j - 1 >= n
      BY <2>6, <1>2, <1>7
    <3> QED BY <3>1, <2>1
  <2>7. CASE i > n /\ j > n
    <3>1. m[i] = l[i - 1] /\ m[j] = l[j - 1] /\ i - 1 \in 1 .. Len(l) /\ j - 1 \in 1 .. Len(l)
          /\ i - 1 <= j - 1
      BY <2>7, <1>2, <1>7
    <3> QED BY <3>1, <1>10 DEF Sorted
  <2> QED BY <2>2, <2>3, <2>4, <2>5, <2>6, <2>7, <1>2
<1> QED BY <1>4, <1>5, <1>8, <1>9, <1>10

\* A list stays sorted if the priorities of its threads do not change.
LEMMA SortedSame ==
    ASSUME NEW l \in Seq(Thread), NEW p, NEW q, Sorted(l, p),
           \A t \in Thread : On(l, t) => q[t] = p[t]
    PROVE  Sorted(l, q)
<1>1. \A i \in 1 .. Len(l) : q[l[i]] = p[l[i]]
  BY Places
<1> QED BY <1>1 DEF Sorted

-----------------------------------------------------------------------------
(* What the operations on threads do.                                      *)

\* rt_schedule leaves a most urgent ready thread running.
LEMMA ScheduleOK ==
    ASSUME TypeOK, NEW p \in [Thread -> Nat], Schedule(p)
    PROVE  /\ prio' = p /\ prio' \in [Thread -> Nat] /\ cur' \in Thread \cup {None}
           /\ stale' \in BOOLEAN /\ Ready' /\ MostUrgentRuns'
<1> DEFINE best == Best(suspended', p)
<1>1. prio' = p /\ stale' = FALSE
      /\ cur' \in IF best = {} THEN {None} ELSE IF cur \in best THEN {cur} ELSE best
  BY DEF Schedule
<1>2. best \subseteq Thread /\ \A t \in best : ~suspended'[t]
  BY DEF Best
<1> HIDE DEF best
<1>3. (best = {} /\ cur' = None) \/ cur' \in best
  BY <1>1
<1>4. Ready'
  BY <1>2, <1>3 DEF Ready
<1>5. MostUrgentRuns'
  BY <1>1, <1>3 DEF MostUrgentRuns, best
<1> QED BY <1>1, <1>2, <1>3, <1>4, <1>5

\* The running thread that is not in a call owns what it likes and waits for
\* nothing.
LEMMA RunsFacts ==
    ASSUME IInv, Runs
    PROVE  /\ cur \in Thread /\ ~suspended[cur] /\ call[cur] = None /\ cur \notin granted
           /\ \A o \in Object : ~On(list[o], cur)
<1>1. cur \in Thread /\ call[cur] = None
  BY DEF Runs, IInv, WaitersExact, TypeOK
<1> QED BY <1>1 DEF Runs, IInv, WaitersExact, Ready, Waiting

\* What a list and the state of its threads say of each other.
WaitExact(l, c, susp) ==
    \A t \in Thread, o \in Object : On(l[o], t) <=> susp[t] /\ c[t] = o

\* rt_ipc_list_suspend puts the running thread on one list.
LEMMA SuspendOK ==
    ASSUME IInv, Runs, NEW o \in Object, NEW time, Suspend(o, time)
    PROVE  /\ list' \in [Object -> Seq(Thread)] /\ Lists'
           /\ suspended' \in [Thread -> BOOLEAN] /\ timer' \in [Thread -> BOOLEAN]
           /\ call' \in [Thread -> Object \cup {None}]
           /\ WaitExact(list', call', suspended')
           /\ \A t \in Thread : timer'[t] => suspended'[t]
           /\ \A t \in Thread : /\ suspended'[t] <=> suspended[t] \/ t = cur
                                /\ call'[t] = IF t = cur THEN o ELSE call[t]
           /\ \A b \in Object : b # o => list'[b] = list[b]
           /\ \A t \in Thread : On(list'[o], t) <=> On(list[o], t) \/ t = cur
           /\ o \notin Fifo /\ Sorted(list[o], prio) => Sorted(list'[o], prio)
<1>1. /\ cur \in Thread /\ ~suspended[cur] /\ call[cur] = None
      /\ \A b \in Object : ~On(list[b], cur)
  BY RunsFacts
<1>2. /\ TypeOK /\ WaitExact(list, call, suspended) /\ Lists
      /\ \A t \in Thread : timer[t] => suspended[t]
  BY DEF IInv, WaitersExact, WaitExact
<1>3. /\ list' = [list EXCEPT ![o] = Insert(o, cur)]
      /\ suspended' = [suspended EXCEPT ![cur] = TRUE]
      /\ timer' = [timer EXCEPT ![cur] = (time = "some")]
      /\ call' = [call EXCEPT ![cur] = o]
  BY DEF Suspend
<1>4. /\ list \in [Object -> Seq(Thread)] /\ suspended \in [Thread -> BOOLEAN]
      /\ timer \in [Thread -> BOOLEAN] /\ call \in [Thread -> Object \cup {None}]
      /\ prio \in [Thread -> Nat]
  BY <1>2 DEF TypeOK
<1> DEFINE l == Insert(o, cur)
<1>5. list[o] \in Seq(Thread) /\ Proper(list[o]) /\ ~On(list[o], cur)
  BY <1>1, <1>2, <1>4 DEF Lists
<1>6. /\ l \in Seq(Thread) /\ Proper(l) /\ \A u : On(l, u) <=> On(list[o], u) \/ u = cur
      /\ o \notin Fifo /\ Sorted(list[o], prio) => Sorted(l, prio)
  BY <1>1, <1>4, <1>5, ListInsert
<1> HIDE DEF l
<1>7. /\ list' \in [Object -> Seq(Thread)] /\ list'[o] = l
      /\ \A b \in Object : b # o => list'[b] = list[b]
  BY <1>3, <1>4, <1>6 DEF l
<1>8. \A t \in Thread : On(list'[o], t) <=> On(list[o], t) \/ t = cur
  BY <1>6, <1>7
<1>9. Lists'
  BY <1>2, <1>6, <1>7 DEF Lists
<1>10. /\ suspended' \in [Thread -> BOOLEAN] /\ call' \in [Thread -> Object \cup {None}]
       /\ \A t \in Thread : /\ suspended'[t] <=> suspended[t] \/ t = cur
                            /\ call'[t] = IF t = cur THEN o ELSE call[t]
  BY <1>1, <1>3, <1>4
<1>11. timer' \in [Thread -> BOOLEAN]
  <2>1. (time = "some") \in BOOLEAN
    OBVIOUS
  <2> QED BY <2>1, <1>3, <1>4
<1>12. \A t \in Thread : timer'[t] => suspended'[t]
  BY <1>1, <1>2, <1>3, <1>4, <1>10
<1>13. WaitExact(list', call', suspended')
  <2> SUFFICES ASSUME NEW t \in Thread, NEW b \in Object
               PROVE  On(list'[b], t) <=> suspended'[t] /\ call'[t] = b
    BY DEF WaitExact
  <2>1. CASE b = o
    BY <2>1, <1>1, <1>2, <1>8, <1>10 DEF WaitExact
  <2>2. CASE b # o
    <3>1. list'[b] = list[b]
      BY <2>2, <1>7
    <3> QED BY <2>2, <3>1, <1>1, <1>2, <1>10 DEF WaitExact
  <2> QED BY <2>1, <2>2
<1> QED BY <1>6, <1>7, <1>8, <1>9, <1>10, <1>11, <1>12, <1>13

\* rt_ipc_list_resume takes the first waiter from its list.
LEMMA ResumeOK ==
    ASSUME IInv, NEW o \in Object, list[o] # << >>, Resume(o, list[o][1])
    PROVE  LET t == list[o][1] IN
           /\ t \in Thread /\ suspended[t] /\ call[t] = o /\ On(list[o], t)
           /\ error[t] = "ok" /\ t \notin granted
           /\ list' \in [Object -> Seq(Thread)] /\ Lists'
           /\ suspended' \in [Thread -> BOOLEAN] /\ timer' \in [Thread -> BOOLEAN]
           /\ granted' = granted \cup {t}
           /\ WaitExact(list', call, suspended')
           /\ \A u \in Thread : timer'[u] => suspended'[u]
           /\ \A u \in Thread : suspended'[u] <=> suspended[u] /\ u # t
           /\ \A b \in Object : b # o => list'[b] = list[b]
           /\ \A u \in Thread : On(list'[o], u) <=> On(list[o], u) /\ u # t
           /\ \A p : Sorted(list[o], p) => Sorted(list'[o], p)
<1> DEFINE t == list[o][1]
           l == Without(list[o], t)
<1>1. /\ TypeOK /\ WaitExact(list, call, suspended) /\ Lists /\ Waiting
      /\ \A u \in Thread : timer[u] => suspended[u]
  BY DEF IInv, WaitersExact, WaitExact
<1>2. /\ list' = [list EXCEPT ![o] = Without(@, t)]
      /\ suspended' = [suspended EXCEPT ![t] = FALSE]
      /\ timer' = [timer EXCEPT ![t] = FALSE]
      /\ granted' = granted \cup {t}
  BY DEF Resume
<1>3. /\ list \in [Object -> Seq(Thread)] /\ suspended \in [Thread -> BOOLEAN]
      /\ timer \in [Thread -> BOOLEAN]
  BY <1>1 DEF TypeOK
<1>4. list[o] \in Seq(Thread) /\ Proper(list[o])
  BY <1>1, <1>3 DEF Lists
<1>5. t \in Thread /\ On(list[o], t)
  BY <1>4, Places
<1>6. /\ l \in Seq(Thread) /\ Proper(l) /\ \A u : On(l, u) <=> On(list[o], u) /\ u # t
      /\ \A p : Sorted(list[o], p) => Sorted(l, p)
  BY <1>4, ListWithout
<1>7. suspended[t] /\ call[t] = o /\ o # None
  BY <1>1, <1>5, IpcAssumption DEF WaitExact
<1>8. error[t] = "ok" /\ t \notin granted
  BY <1>1, <1>5, <1>7 DEF Waiting
<1>9. list' \in [Object -> Seq(Thread)] /\ list'[o] = l
  <2> HIDE DEF t
  <2> QED BY <1>2, <1>3, <1>6
<1>10. \A b \in Object : b # o => list'[b] = list[b]
  BY <1>2, <1>3
<1> HIDE DEF l, t
<1>11. Lists'
  BY <1>1, <1>6, <1>9, <1>10 DEF Lists
<1>12. /\ suspended' \in [Thread -> BOOLEAN] /\ timer' \in [Thread -> BOOLEAN]
       /\ \A u \in Thread : suspended'[u] <=> suspended[u] /\ u # t
       /\ \A u \in Thread : timer'[u] => suspended'[u]
  BY <1>1, <1>2, <1>3, <1>5
<1>13. WaitExact(list', call, suspended')
  <2> SUFFICES ASSUME NEW u \in Thread, NEW b \in Object
               PROVE  On(list'[b], u) <=> suspended'[u] /\ call[u] = b
    BY DEF WaitExact
  <2>1. CASE b = o
    BY <2>1, <1>1, <1>6, <1>9, <1>12 DEF WaitExact
  <2>2. CASE b # o
    <3>1. list'[b] = list[b]
      BY <2>2, <1>10
    <3> QED BY <2>2, <3>1, <1>1, <1>7, <1>12 DEF WaitExact
  <2> QED BY <2>1, <2>2
<1> QED
  BY <1>2, <1>5, <1>6, <1>7, <1>8, <1>9, <1>10, <1>11, <1>12, <1>13 DEF t

-----------------------------------------------------------------------------
(* The invariant, action by action.                                        *)

\* All threads are ready and nothing is taken.
LEMMA InitIInv == Init => IInv
<1> SUFFICES ASSUME Init PROVE IInv
  OBVIOUS
<1>1. /\ cur \in Thread /\ \A u \in Thread : Base[cur] <= Base[u]
      /\ prio = Base /\ error = [t \in Thread |-> "ok"]
      /\ suspended = [t \in Thread |-> FALSE] /\ timer = [t \in Thread |-> FALSE]
      /\ call = [t \in Thread |-> None]
      /\ value = [o \in Object |-> IF o \in Mutex THEN 1 ELSE SemInit]
      /\ list = [o \in Object |-> << >>]
      /\ owner = [m \in Mutex |-> None] /\ hold = [m \in Mutex |-> 0]
      /\ original = [m \in Mutex |-> NoPrio]
      /\ granted = {} /\ owned = [t \in Thread |-> << >>]
      /\ nested = {} /\ stale = FALSE
  BY DEF Init
<1>2. Mutex \subseteq Object /\ None \notin Thread /\ None \notin Object
      /\ \A t \in Thread : Base[t] \in Nat
  BY IpcAssumption DEF Object
<1>3. value \in [Object -> 0 .. SemMax \cup {1}]
  BY <1>1, IpcAssumption
<1>4. /\ list \in [Object -> Seq(Thread)] /\ owned \in [Thread -> Seq(Mutex)]
      /\ hold \in [Mutex -> 0 .. HoldMax] /\ original \in [Mutex -> Nat \cup {NoPrio}]
      /\ owner \in [Mutex -> Thread \cup {None}]
  BY <1>1, IpcAssumption
<1>5. TypeOK
  BY <1>1, <1>3, <1>4, IpcAssumption DEF TypeOK, Error
<1>6. \A o \in Object : \A t : ~On(list[o], t)
  BY <1>1 DEF On
<1>7. \A t \in Thread : \A m : ~On(owned[t], m)
  BY <1>1 DEF On
<1>8. WaitersExact
  BY <1>1, <1>2, <1>5, <1>6 DEF WaitersExact
<1>9. Lists /\ MutexOK /\ Waiting /\ TakeReturnsTruth
  BY <1>1, <1>2 DEF Lists, Proper, MutexOK, Waiting, TakeReturnsTruth
<1>10. Owned /\ NestedOK /\ FirstIsBase
  BY <1>1, <1>2, <1>7 DEF Owned, Proper, NestedOK, FirstIsBase
<1>11. Ordered /\ Lends
  BY <1>1, <1>2, <1>6 DEF Ordered, Sorted, Lends
<1>12. Ready /\ MostUrgentRuns
  BY <1>1 DEF Ready, MostUrgentRuns, Best
<1> QED BY <1>8, <1>9, <1>10, <1>11, <1>12 DEF IInv

\* Every conjunct by name.
LEMMA Parts ==
    ASSUME IInv
    PROVE  /\ TypeOK /\ WaitersExact /\ WaitExact(list, call, suspended) /\ Lists /\ MutexOK
           /\ Waiting /\ TakeReturnsTruth /\ Owned /\ NestedOK /\ Ordered /\ Lends
           /\ FirstIsBase /\ Ready /\ MostUrgentRuns
           /\ \A o \in Object : value[o] > 0 => list[o] = << >>
           /\ \A m \in Mutex : /\ value[m] = 1 <=> owner[m] = None
                               /\ value[m] = 1 <=> hold[m] = 0
           /\ Mutex \subseteq Object /\ Sem \subseteq Object /\ Mutex \cap Sem = {}
           /\ None \notin Thread /\ None \notin Object
BY IpcAssumption DEF IInv, WaitersExact, WaitExact, Object

\* rt_sem_take of a semaphore that has a value only counts it down.
LEMMA SemTakeNowKeeps ==
    ASSUME IInv, NEW s \in Sem, Runs, value[s] > 0,
           value' = [value EXCEPT ![s] = @ - 1],
           UNCHANGED <<cur, stale, threadVars, list, mutexVars, history>>
    PROVE  IInv'
<1> USE DEF threadVars, mutexVars, history
<1>1. value \in [Object -> 0 .. SemMax \cup {1}] /\ s \in Object /\ s \notin Mutex /\ SemMax \in Nat
  BY Parts, IpcAssumption DEF TypeOK
<1>2. value' \in [Object -> 0 .. SemMax \cup {1}]
  BY <1>1
<1>3. TypeOK'
  BY <1>2, Parts DEF TypeOK
<1>4. /\ \A o \in Object : value'[o] > 0 => list[o] = << >>
      /\ \A m \in Mutex : value'[m] = value[m]
  BY <1>1, Parts
<1>5. WaitersExact'
  BY <1>3, <1>4, Parts DEF WaitersExact, WaitExact
<1>6. Lists' /\ MutexOK' /\ Waiting' /\ TakeReturnsTruth' /\ Owned' /\ NestedOK'
  BY <1>4, Parts DEF Lists, MutexOK, Waiting, TakeReturnsTruth, Owned, NestedOK
<1>7. Ordered' /\ Lends' /\ FirstIsBase' /\ Ready' /\ MostUrgentRuns'
  BY Parts DEF Ordered, Lends, FirstIsBase, Ready, MostUrgentRuns
<1> QED BY <1>5, <1>6, <1>7 DEF IInv

\* rt_sem_take that has to wait.
LEMMA SemTakeWaitKeeps ==
    ASSUME IInv, NEW s \in Sem, NEW time, Runs, value[s] = 0,
           error' = [error EXCEPT ![cur] = "ok"], Suspend(s, time), Schedule(prio),
           UNCHANGED <<value, mutexVars, history>>
    PROVE  IInv'
<1> USE DEF mutexVars, history
<1>1. s \in Object /\ s \notin Mutex /\ s # None /\ prio \in [Thread -> Nat]
  BY Parts DEF TypeOK
<1>2. /\ cur \in Thread /\ ~suspended[cur] /\ call[cur] = None /\ cur \notin granted
  BY RunsFacts
<1>3. error' \in [Thread -> Error]
      /\ \A t \in Thread : error'[t] = IF t = cur THEN "ok" ELSE error[t]
  BY <1>2, Parts DEF TypeOK, Error
<1>4. /\ list' \in [Object -> Seq(Thread)] /\ Lists'
      /\ suspended' \in [Thread -> BOOLEAN] /\ timer' \in [Thread -> BOOLEAN]
      /\ call' \in [Thread -> Object \cup {None}]
      /\ WaitExact(list', call', suspended')
      /\ \A t \in Thread : timer'[t] => suspended'[t]
      /\ \A t \in Thread : /\ suspended'[t] <=> suspended[t] \/ t = cur
                           /\ call'[t] = IF t = cur THEN s ELSE call[t]
      /\ \A b \in Object : b # s => list'[b] = list[b]
  BY <1>1, SuspendOK
<1>5. /\ prio' = prio /\ cur' \in Thread \cup {None} /\ stale' \in BOOLEAN /\ Ready'
      /\ MostUrgentRuns'
  BY <1>1, Parts, ScheduleOK
<1>6. TypeOK'
  BY <1>3, <1>4, <1>5, Parts DEF TypeOK
<1>7. \A o \in Object : value[o] > 0 => list'[o] = << >>
  BY <1>4, Parts
<1>8. WaitersExact'
  BY <1>4, <1>6, <1>7, Parts DEF WaitersExact, WaitExact
<1>9. owner' = owner /\ granted' = granted /\ nested' = nested /\ owned' = owned
  OBVIOUS
<1>10. \A t \in Thread : t # cur =>
          /\ suspended'[t] <=> suspended[t]
          /\ call'[t] = call[t] /\ error'[t] = error[t]
  BY <1>3, <1>4
<1>11. call'[cur] = s /\ suspended'[cur] /\ error'[cur] = "ok"
  BY <1>2, <1>3, <1>4
<1>12. Waiting'
  BY <1>1, <1>2, <1>9, <1>10, <1>11, Parts DEF Waiting
<1>13. TakeReturnsTruth'
  BY <1>1, <1>2, <1>9, <1>10, <1>11, Parts DEF TakeReturnsTruth
<1>14. MutexOK' /\ Owned' /\ FirstIsBase'
  BY <1>5, Parts DEF MutexOK, Owned, FirstIsBase
<1>15. NestedOK'
  BY <1>1, <1>9, <1>10, <1>11, Parts DEF NestedOK
<1>16. \A m \in Mutex : list'[m] = list[m]
  BY <1>1, <1>4, Parts
<1>17. Ordered' /\ Lends'
  BY <1>5, <1>16, Parts DEF Ordered, Lends
<1> QED BY <1>4, <1>5, <1>8, <1>12, <1>13, <1>14, <1>15, <1>17 DEF IInv

\* rt_sem_take, both ways.
LEMMA SemTakeKeeps ==
    ASSUME IInv, NEW s \in Sem, NEW time \in Times, SemTake(s, time) PROVE IInv'
BY SemTakeNowKeeps, SemTakeWaitKeeps DEF SemTake

\* rt_sem_release hands over or counts up.
LEMMA SemReleaseKeeps == ASSUME IInv, NEW s \in Sem, SemRelease(s) PROVE IInv'
<1>1. /\ s \in Object /\ s \notin Mutex /\ s # None /\ prio \in [Thread -> Nat]
      /\ value \in [Object -> 0 .. SemMax \cup {1}] /\ SemMax \in Nat
  BY Parts, IpcAssumption DEF TypeOK
<1>2. UNCHANGED <<error, call, owner, hold, original, owned, nested>>
  BY DEF SemRelease, mutexVars
<1>3. CASE /\ list[s] # << >> /\ Resume(s, list[s][1]) /\ Schedule(prio) /\ UNCHANGED value
  <2> DEFINE t == list[s][1]
  <2>1. /\ t \in Thread /\ suspended[t] /\ call[t] = s
        /\ error[t] = "ok" /\ t \notin granted
        /\ list' \in [Object -> Seq(Thread)] /\ Lists'
        /\ suspended' \in [Thread -> BOOLEAN] /\ timer' \in [Thread -> BOOLEAN]
        /\ granted' = granted \cup {t}
        /\ WaitExact(list', call, suspended')
        /\ \A u \in Thread : timer'[u] => suspended'[u]
        /\ \A u \in Thread : suspended'[u] <=> suspended[u] /\ u # t
        /\ \A b \in Object : b # s => list'[b] = list[b]
    BY <1>1, <1>3, ResumeOK
  <2> HIDE DEF t
  <2>2. /\ prio' = prio /\ cur' \in Thread \cup {None} /\ stale' \in BOOLEAN /\ Ready'
        /\ MostUrgentRuns'
    BY <1>1, <1>3, Parts, ScheduleOK
  <2>3. TypeOK'
    BY <1>2, <1>3, <2>1, <2>2, Parts DEF TypeOK
  <2>4. \A o \in Object : value[o] > 0 => list'[o] = << >>
    <3>1. ~(value[s] > 0)
      BY <1>1, <1>3, Parts
    <3> QED BY <2>1, <3>1, Parts
  <2>5. WaitersExact'
    BY <1>2, <1>3, <2>1, <2>3, <2>4, Parts DEF WaitersExact, WaitExact
  <2>6. Waiting' /\ TakeReturnsTruth'
    BY <1>1, <1>2, <2>1, Parts DEF Waiting, TakeReturnsTruth
  <2>7. MutexOK' /\ Owned' /\ FirstIsBase'
    BY <1>2, <1>3, <2>2, Parts DEF MutexOK, Owned, FirstIsBase
  <2>8. NestedOK'
    BY <1>2, <2>1, Parts DEF NestedOK
  <2>9. \A m \in Mutex : list'[m] = list[m]
    BY <1>1, <2>1, Parts
  <2>10. Ordered' /\ Lends'
    BY <1>2, <2>2, <2>9, Parts DEF Ordered, Lends
  <2> QED BY <2>1, <2>2, <2>5, <2>6, <2>7, <2>8, <2>10 DEF IInv
<1>4. CASE /\ list[s] = << >> /\ value[s] < SemMax
           /\ value' = [value EXCEPT ![s] = @ + 1]
           /\ UNCHANGED <<cur, stale, prio, list, suspended, timer, granted>>
  <2>1. value' \in [Object -> 0 .. SemMax \cup {1}]
    BY <1>1, <1>4
  <2>2. TypeOK'
    BY <1>2, <1>4, <2>1, Parts DEF TypeOK
  <2>3. /\ \A o \in Object : value'[o] > 0 => list[o] = << >>
        /\ \A m \in Mutex : value'[m] = value[m]
    BY <1>1, <1>4, Parts
  <2>4. WaitersExact'
    BY <1>2, <1>4, <2>2, <2>3, Parts DEF WaitersExact, WaitExact
  <2>5. Lists' /\ MutexOK' /\ Waiting' /\ TakeReturnsTruth' /\ Owned' /\ NestedOK'
    BY <1>2, <1>4, <2>3, Parts
       DEF Lists, MutexOK, Waiting, TakeReturnsTruth, Owned, NestedOK
  <2>6. Ordered' /\ Lends' /\ FirstIsBase' /\ Ready' /\ MostUrgentRuns'
    BY <1>2, <1>4, Parts DEF Ordered, Lends, FirstIsBase, Ready, MostUrgentRuns
  <2> QED BY <2>4, <2>5, <2>6 DEF IInv
<1> QED BY <1>3, <1>4 DEF SemRelease

\* rt_sem_control(RESET) takes every waiter off the list, with an error.
LEMMA SemResetKeeps == ASSUME IInv, NEW s \in Sem, SemReset(s) PROVE IInv'
<1> DEFINE w == {t \in Thread : On(list[s], t)}
<1>1. /\ s \in Object /\ s \notin Mutex /\ prio \in [Thread -> Nat]
      /\ list \in [Object -> Seq(Thread)] /\ value \in [Object -> 0 .. SemMax \cup {1}]
      /\ suspended \in [Thread -> BOOLEAN] /\ timer \in [Thread -> BOOLEAN]
      /\ error \in [Thread -> Error] /\ SemInit \in 0 .. SemMax
  BY Parts, IpcAssumption DEF TypeOK
<1>2. /\ list' = [list EXCEPT ![s] = << >>]
      /\ error' = [t \in Thread |-> IF t \in w THEN "error" ELSE error[t]]
      /\ suspended' = [t \in Thread |-> suspended[t] /\ t \notin w]
      /\ timer' = [t \in Thread |-> timer[t] /\ t \notin w]
      /\ value' = [value EXCEPT ![s] = SemInit]
      /\ Schedule(prio)
  BY DEF SemReset
<1>3. UNCHANGED <<call, owner, hold, original, granted, owned, nested>>
  BY DEF SemReset, mutexVars, history
<1>4. \A t \in Thread : t \in w <=> suspended[t] /\ call[t] = s
  BY <1>1, Parts DEF WaitExact
<1> HIDE DEF w
<1>5. /\ prio' = prio /\ cur' \in Thread \cup {None} /\ stale' \in BOOLEAN /\ Ready'
      /\ MostUrgentRuns'
  BY <1>1, <1>2, Parts, ScheduleOK
<1>6. /\ list' \in [Object -> Seq(Thread)] /\ list'[s] = << >>
      /\ \A o \in Object : o # s => list'[o] = list[o]
  BY <1>1, <1>2
<1>7. error' \in [Thread -> Error] /\ value' \in [Object -> 0 .. SemMax \cup {1}]
  BY <1>1, <1>2 DEF Error
<1>8. /\ suspended' \in [Thread -> BOOLEAN] /\ timer' \in [Thread -> BOOLEAN]
      /\ \A t \in Thread : suspended'[t] <=> suspended[t] /\ t \notin w
      /\ \A t \in Thread : timer'[t] <=> timer[t] /\ t \notin w
  BY <1>1, <1>2
<1>9. \A t \in Thread : error'[t] = IF t \in w THEN "error" ELSE error[t]
  BY <1>2
<1>10. TypeOK'
  BY <1>3, <1>5, <1>6, <1>7, <1>8, Parts DEF TypeOK
<1>11. WaitExact(list', call, suspended')
  <2> SUFFICES ASSUME NEW t \in Thread, NEW o \in Object
               PROVE  On(list'[o], t) <=> suspended'[t] /\ call[t] = o
    BY DEF WaitExact
  <2>1. CASE o = s
    <3>1. ~On(list'[o], t)
      BY <2>1, <1>6 DEF On
    <3> QED BY <3>1, <2>1, <1>4, <1>8
  <2>2. CASE o # s
    BY <2>2, <1>4, <1>6, <1>8, Parts DEF WaitExact
  <2> QED BY <2>1, <2>2
<1>12. /\ \A o \in Object : value'[o] > 0 => list'[o] = << >>
       /\ \A m \in Mutex : value'[m] = value[m]
  BY <1>1, <1>2, <1>6, Parts
<1>13. \A t \in Thread : timer'[t] => suspended'[t]
  BY <1>8, Parts DEF WaitersExact
<1>14. WaitersExact'
  BY <1>3, <1>10, <1>11, <1>12, <1>13, Parts DEF WaitersExact, WaitExact
<1>15. Lists'
  <2>1. Proper(<< >>)
    BY DEF Proper
  <2> QED BY <1>6, <2>1, Parts DEF Lists
<1>16. Waiting'
  BY <1>3, <1>4, <1>8, <1>9, Parts DEF Waiting
<1>17. TakeReturnsTruth'
  <2>1. ASSUME NEW t \in Thread, call[t] # None, ~suspended'[t]
        PROVE  /\ (error'[t] = "ok") <=> (t \in granted)
               /\ call[t] \in Mutex => ((t \in granted) <=> (owner[call[t]] = t))
    <3>1. CASE t \in w
      <4>1. error'[t] = "error" /\ t \notin granted /\ call[t] = s
        BY <2>1, <3>1, <1>4, <1>9, Parts DEF Waiting
      <4> QED BY <4>1, <1>1
    <3>2. CASE t \notin w
      <4>1. ~suspended[t] /\ error'[t] = error[t]
        BY <2>1, <3>2, <1>8, <1>9
      <4> QED BY <4>1, <2>1, Parts DEF TakeReturnsTruth
    <3> QED BY <3>1, <3>2
  <2> QED BY <2>1, <1>3, Parts DEF TakeReturnsTruth
<1>18. MutexOK' /\ Owned' /\ FirstIsBase' /\ NestedOK'
  BY <1>3, <1>5, <1>8, <1>12, Parts DEF MutexOK, Owned, FirstIsBase, NestedOK
<1>19. \A m \in Mutex : list'[m] = list[m]
  BY <1>1, <1>6, Parts
<1>20. Ordered' /\ Lends'
  BY <1>3, <1>5, <1>19, Parts DEF Ordered, Lends
<1> QED BY <1>5, <1>14, <1>15, <1>16, <1>17, <1>18, <1>20 DEF IInv

\* rt_mutex_take by the owner, and a rt_mutex_release that is not the last,
\* only count.
LEMMA CountKeeps ==
    ASSUME IInv, NEW m \in Mutex, TakeAgain(m) \/ ReleaseOne(m) PROVE IInv'
<1>1. /\ cur \in Thread /\ owner[m] = cur /\ hold \in [Mutex -> 0 .. HoldMax]
      /\ HoldMax \in Nat /\ hold[m] # 0
  BY RunsFacts, Parts, IpcAssumption DEF TakeAgain, ReleaseOne, TypeOK
<1>2. UNCHANGED <<cur, prio, error, suspended, timer, call, value, list, owner, original,
                  granted, owned, nested, stale>>
  BY DEF TakeAgain, ReleaseOne, threadVars, history
<1>3. hold' \in [Mutex -> 0 .. HoldMax] /\ hold'[m] # 0
      /\ \A n \in Mutex : n # m => hold'[n] = hold[n]
  <2>1. CASE TakeAgain(m)
    BY <2>1, <1>1 DEF TakeAgain
  <2>2. CASE ReleaseOne(m)
    BY <2>2, <1>1 DEF ReleaseOne
  <2> QED BY <2>1, <2>2
<1>4. TypeOK'
  BY <1>2, <1>3, Parts DEF TypeOK
<1>5. WaitersExact'
  BY <1>1, <1>2, <1>3, <1>4, Parts DEF WaitersExact
<1>6. Lists' /\ MutexOK' /\ Waiting' /\ TakeReturnsTruth' /\ Owned' /\ NestedOK'
  BY <1>2, Parts DEF Lists, MutexOK, Waiting, TakeReturnsTruth, Owned, NestedOK
<1>7. Ordered' /\ Lends' /\ FirstIsBase' /\ Ready' /\ MostUrgentRuns'
  BY <1>2, Parts DEF Ordered, Lends, FirstIsBase, Ready, MostUrgentRuns
<1> QED BY <1>5, <1>6, <1>7 DEF IInv

\* rt_mutex_take and rt_sem_take return.
LEMMA TakeReturnKeeps == ASSUME IInv, TakeReturn PROVE IInv'
<1>1. /\ cur # None /\ call[cur] # None
      /\ call' = [call EXCEPT ![cur] = None]
      /\ error' = [error EXCEPT ![cur] = "ok"]
      /\ granted' = granted \ {cur}
      /\ UNCHANGED <<cur, prio, suspended, timer, value, list, owner, hold, original,
                     owned, nested, stale>>
  BY DEF TakeReturn, mutexVars
<1>2. /\ cur \in Thread /\ ~suspended[cur] /\ call \in [Thread -> Object \cup {None}]
      /\ error \in [Thread -> Error]
  BY <1>1, Parts DEF TypeOK, Ready
<1>3. /\ call' \in [Thread -> Object \cup {None}] /\ error' \in [Thread -> Error]
      /\ call'[cur] = None
      /\ \A t \in Thread : t # cur => call'[t] = call[t] /\ error'[t] = error[t]
  BY <1>1, <1>2 DEF Error
<1>4. TypeOK'
  BY <1>1, <1>3, Parts DEF TypeOK
<1>5. \A t \in Thread, o \in Object : On(list[o], t) <=> suspended[t] /\ call'[t] = o
  BY <1>2, <1>3, Parts DEF WaitExact
<1>6. WaitersExact'
  BY <1>1, <1>4, <1>5, Parts DEF WaitersExact
<1>7. Waiting'
  BY <1>1, <1>2, <1>3, Parts DEF Waiting
<1>8. TakeReturnsTruth'
  BY <1>1, <1>2, <1>3, Parts DEF TakeReturnsTruth
<1>9. NestedOK'
  BY <1>1, <1>2, <1>3, Parts DEF NestedOK
<1>10. Lists' /\ MutexOK' /\ Owned' /\ FirstIsBase' /\ Ready' /\ MostUrgentRuns'
  BY <1>1, Parts DEF Lists, MutexOK, Owned, FirstIsBase, Ready, MostUrgentRuns
<1>11. Ordered' /\ Lends'
  BY <1>1, Parts DEF Ordered, Lends
<1> QED BY <1>6, <1>7, <1>8, <1>9, <1>10, <1>11 DEF IInv

\* rt_thread_sleep: the thread is suspended and on no list.
LEMMA SleepKeeps == ASSUME IInv, Sleep PROVE IInv'
<1>1. /\ suspended' = [suspended EXCEPT ![cur] = TRUE]
      /\ timer' = [timer EXCEPT ![cur] = TRUE]
      /\ Schedule(prio) /\ Runs
      /\ UNCHANGED <<error, call, value, list, owner, hold, original, granted, owned, nested>>
  BY DEF Sleep, mutexVars, history
<1>2. cur \in Thread /\ ~suspended[cur] /\ call[cur] = None
  BY <1>1, RunsFacts
<1>3. /\ suspended \in [Thread -> BOOLEAN] /\ timer \in [Thread -> BOOLEAN]
      /\ prio \in [Thread -> Nat]
  BY Parts DEF TypeOK
<1>4. /\ prio' = prio /\ cur' \in Thread \cup {None} /\ stale' \in BOOLEAN /\ Ready'
      /\ MostUrgentRuns'
  BY <1>1, <1>3, Parts, ScheduleOK
<1>5. /\ suspended' \in [Thread -> BOOLEAN] /\ timer' \in [Thread -> BOOLEAN]
      /\ suspended'[cur]
      /\ \A t \in Thread : t # cur => (suspended'[t] <=> suspended[t]) /\ (timer'[t] <=> timer[t])
  BY <1>1, <1>2, <1>3
<1>6. TypeOK'
  BY <1>1, <1>4, <1>5, Parts DEF TypeOK
<1>7. \A t \in Thread : timer'[t] => suspended'[t]
  BY <1>5, Parts DEF WaitersExact
<1>8. \A t \in Thread, o \in Object : On(list[o], t) <=> suspended'[t] /\ call[t] = o
  BY <1>2, <1>5, Parts DEF WaitExact
<1>9. WaitersExact'
  BY <1>1, <1>6, <1>7, <1>8, Parts DEF WaitersExact
<1>10. Waiting'
  BY <1>1, <1>2, <1>5, Parts DEF Waiting
<1>11. TakeReturnsTruth'
  BY <1>1, <1>2, <1>5, Parts DEF TakeReturnsTruth
<1>12. NestedOK'
  BY <1>1, <1>2, <1>5, Parts DEF NestedOK
<1>13. Lists' /\ MutexOK' /\ Owned' /\ FirstIsBase' /\ Ordered' /\ Lends'
  BY <1>1, <1>4, Parts DEF Lists, MutexOK, Owned, FirstIsBase, Ordered, Lends
<1> QED BY <1>4, <1>9, <1>10, <1>11, <1>12, <1>13 DEF IInv

\* rt_thread_timeout: a take that was not granted fails.
LEMMA TimeoutKeeps == ASSUME IInv, NEW t \in Thread, Timeout(t) PROVE IInv'
<1>1. /\ timer[t]
      /\ timer' = [timer EXCEPT ![t] = FALSE]
      /\ error' = [error EXCEPT ![t] = IF call[t] = None THEN "ok" ELSE "timeout"]
      /\ list' = [o \in Object |-> Without(list[o], t)]
      /\ suspended' = [suspended EXCEPT ![t] = FALSE]
      /\ Schedule(prio)
      /\ UNCHANGED <<call, value, owner, hold, original, granted, owned, nested>>
  BY DEF Timeout, mutexVars, history
<1>2. /\ suspended \in [Thread -> BOOLEAN] /\ timer \in [Thread -> BOOLEAN]
      /\ prio \in [Thread -> Nat] /\ error \in [Thread -> Error]
      /\ list \in [Object -> Seq(Thread)] /\ suspended[t]
  BY <1>1, Parts DEF TypeOK, WaitersExact
<1>3. /\ prio' = prio /\ cur' \in Thread \cup {None} /\ stale' \in BOOLEAN /\ Ready'
      /\ MostUrgentRuns'
  BY <1>1, <1>2, Parts, ScheduleOK
<1>4. /\ suspended' \in [Thread -> BOOLEAN] /\ timer' \in [Thread -> BOOLEAN]
      /\ error' \in [Thread -> Error]
      /\ ~suspended'[t] /\ ~timer'[t]
      /\ error'[t] = IF call[t] = None THEN "ok" ELSE "timeout"
      /\ \A u \in Thread : u # t => /\ suspended'[u] <=> suspended[u]
                                    /\ timer'[u] <=> timer[u] /\ error'[u] = error[u]
  BY <1>1, <1>2 DEF Error
<1>5. ASSUME NEW o \in Object
      PROVE  /\ list'[o] \in Seq(Thread) /\ Proper(list'[o])
             /\ \A u : On(list'[o], u) <=> On(list[o], u) /\ u # t
             /\ \A p : Sorted(list[o], p) => Sorted(list'[o], p)
             /\ list[o] = << >> => list'[o] = << >>
  <2>1. list[o] \in Seq(Thread) /\ Proper(list[o]) /\ list'[o] = Without(list[o], t)
    BY <1>1, <1>2, Parts DEF Lists
  <2>2. /\ list'[o] \in Seq(Thread) /\ Proper(list'[o])
        /\ \A u : On(list'[o], u) <=> On(list[o], u) /\ u # t
        /\ \A p : Sorted(list[o], p) => Sorted(list'[o], p)
    BY <2>1, ListWithout
  <2>3. ASSUME list[o] = << >> PROVE list'[o] = << >>
    <3>1. \A u : ~On(list[o], u)
      BY <2>3 DEF On
    <3>2. \A u : ~On(list'[o], u)
      BY <2>2, <3>1
    <3> QED BY <2>2, <3>2, Places
  <2> QED BY <2>2, <2>3
<1>6. list' \in [Object -> Seq(Thread)]
  BY <1>1, <1>5
<1>7. TypeOK'
  BY <1>1, <1>3, <1>4, <1>6, Parts DEF TypeOK
<1>8. \A u \in Thread : timer'[u] => suspended'[u]
  BY <1>4, Parts DEF WaitersExact
<1>9. \A u \in Thread, o \in Object : On(list'[o], u) <=> suspended'[u] /\ call[u] = o
  BY <1>4, <1>5, Parts DEF WaitExact
<1>10. \A o \in Object : value[o] > 0 => list'[o] = << >>
  BY <1>5, Parts
<1>11. WaitersExact'
  BY <1>1, <1>7, <1>8, <1>9, <1>10, Parts DEF WaitersExact
<1>12. Waiting'
  BY <1>1, <1>4, Parts DEF Waiting
<1>13. TakeReturnsTruth'
  <2>1. call[t] # None => t \notin granted /\ (call[t] \in Mutex => owner[call[t]] # t)
    BY <1>2, Parts DEF Waiting
  <2> QED BY <2>1, <1>1, <1>4, Parts DEF TakeReturnsTruth
<1>14. NestedOK'
  BY <1>1, <1>4, Parts DEF NestedOK
<1>15. Lists' /\ MutexOK' /\ Owned' /\ FirstIsBase'
  BY <1>1, <1>3, <1>5, Parts DEF Lists, MutexOK, Owned, FirstIsBase
<1>16. Ordered' /\ Lends'
  BY <1>1, <1>3, <1>5, Parts DEF Ordered, Lends
<1> QED BY <1>3, <1>11, <1>12, <1>13, <1>14, <1>15, <1>16 DEF IInv

\* The end of a time slice changes the running thread only; so does nothing.
LEMMA YieldKeeps == ASSUME IInv, Yield \/ UNCHANGED vars PROVE IInv'
<1>1. /\ UNCHANGED <<prio, error, suspended, timer, call, value, list, owner, hold, original,
                     granted, owned, nested>>
      /\ \/ UNCHANGED <<cur, stale>>
         \/ cur' \in Best(suspended, prio) /\ stale' = FALSE
  BY DEF Yield, vars, threadVars, mutexVars, history
<1>2. cur' \in Thread \cup {None} /\ stale' \in BOOLEAN /\ Ready'
  BY <1>1, Parts DEF TypeOK, Ready, Best
<1>3. MostUrgentRuns'
  BY <1>1, Parts DEF MostUrgentRuns
<1>4. TypeOK'
  BY <1>1, <1>2, Parts DEF TypeOK
<1>5. WaitersExact'
  BY <1>1, <1>4, Parts DEF WaitersExact
<1>6. Lists' /\ MutexOK' /\ Waiting' /\ TakeReturnsTruth' /\ Owned' /\ NestedOK'
  BY <1>1, Parts DEF Lists, MutexOK, Waiting, TakeReturnsTruth, Owned, NestedOK
<1>7. Ordered' /\ Lends' /\ FirstIsBase'
  BY <1>1, Parts DEF Ordered, Lends, FirstIsBase
<1> QED BY <1>2, <1>3, <1>5, <1>6, <1>7 DEF IInv

\* The mutexes on owned[t] are owned by t.
LEMMA OwnedFacts ==
    ASSUME IInv, NEW t \in Thread
    PROVE  /\ owned[t] \in Seq(Mutex) /\ Proper(owned[t])
           /\ \A m \in Mutex : On(owned[t], m) <=> owner[m] = t
           /\ owned[t] # << >> => owned[t][1] \in Mutex /\ owner[owned[t][1]] = t
<1>1. owned[t] \in Seq(Mutex) /\ Proper(owned[t])
      /\ \A m \in Mutex : On(owned[t], m) <=> owner[m] = t
  BY Parts DEF TypeOK, Owned
<1>2. owned[t] # << >> => owned[t][1] \in Mutex /\ On(owned[t], owned[t][1])
  BY <1>1, Places
<1> QED BY <1>1, <1>2

\* rt_mutex_take of a mutex that is available.
LEMMA TakeFreeKeeps == ASSUME IInv, NEW m \in Mutex, TakeFree(m) PROVE IInv'
<1>1. /\ Runs /\ value[m] > 0
      /\ value' = [value EXCEPT ![m] = @ - 1]
      /\ owner' = [owner EXCEPT ![m] = cur]
      /\ original' = [original EXCEPT ![m] = prio[cur]]
      /\ hold' = [hold EXCEPT ![m] = @ + 1]
      /\ owned' = [owned EXCEPT ![cur] = Append(@, m)]
      /\ nested' = Nested(m)
      /\ UNCHANGED <<cur, prio, error, suspended, timer, call, list, granted, stale>>
  BY DEF TakeFree, threadVars
<1>2. /\ cur \in Thread /\ ~suspended[cur] /\ call[cur] = None /\ cur \notin granted
  BY <1>1, RunsFacts
<1>3. /\ value \in [Object -> 0 .. SemMax \cup {1}] /\ hold \in [Mutex -> 0 .. HoldMax]
      /\ owner \in [Mutex -> Thread \cup {None}] /\ original \in [Mutex -> Nat \cup {NoPrio}]
      /\ owned \in [Thread -> Seq(Mutex)] /\ prio \in [Thread -> Nat]
      /\ nested \subseteq Mutex /\ m \in Object
      /\ HoldMax \in Nat /\ HoldMax # 0 /\ SemMax \in Nat
  BY Parts, IpcAssumption DEF TypeOK
<1>4. value[m] = 1 /\ owner[m] = None /\ hold[m] = 0 /\ list[m] = << >>
  BY <1>1, <1>3, Parts DEF MutexOK
<1>5. \A t \in Thread : ~(suspended[t] /\ call[t] = m) /\ ~On(list[m], t)
  <2>1. \A t \in Thread : ~On(list[m], t)
    BY <1>4 DEF On
  <2> QED BY <2>1, <1>3, Parts DEF WaitExact
<1>6. /\ value' \in [Object -> 0 .. SemMax \cup {1}] /\ hold' \in [Mutex -> 0 .. HoldMax]
      /\ value'[m] = 0 /\ hold'[m] = 1
      /\ \A o \in Object : o # m => value'[o] = value[o]
      /\ \A n \in Mutex : n # m => hold'[n] = hold[n]
  BY <1>1, <1>3, <1>4
<1>7. /\ owner' \in [Mutex -> Thread \cup {None}] /\ original' \in [Mutex -> Nat \cup {NoPrio}]
      /\ owner'[m] = cur /\ original'[m] = prio[cur] /\ prio[cur] \in Nat
      /\ \A n \in Mutex : n # m => owner'[n] = owner[n] /\ original'[n] = original[n]
  BY <1>1, <1>2, <1>3
<1> DEFINE l == Append(owned[cur], m)
<1>8. /\ l \in Seq(Mutex) /\ l # << >> /\ Proper(l)
      /\ \A u : On(l, u) <=> On(owned[cur], u) \/ u = m
      /\ l[1] = IF owned[cur] = << >> THEN m ELSE owned[cur][1]
  <2>1. ~On(owned[cur], m)
    BY <1>2, <1>4, OwnedFacts, Parts
  <2> QED BY <2>1, <1>2, OwnedFacts, ListAppend
<1>9. owned' = [owned EXCEPT ![cur] = l]
  BY <1>1
<1> HIDE DEF l
<1>10. /\ owned' \in [Thread -> Seq(Mutex)] /\ owned'[cur] = l
       /\ \A t \in Thread : t # cur => owned'[t] = owned[t]
  BY <1>2, <1>3, <1>8, <1>9
<1>11. /\ nested \subseteq nested' /\ nested' \subseteq Mutex
       /\ \A n \in Mutex : owner[n] = cur => n \in nested' /\ m \in nested'
  BY <1>1, <1>3 DEF Nested, Others
<1>12. TypeOK'
  BY <1>1, <1>6, <1>7, <1>10, <1>11, Parts DEF TypeOK
<1>13. WaitersExact'
  BY <1>1, <1>2, <1>4, <1>6, <1>7, <1>12, Parts DEF WaitersExact, WaitExact
<1>14. MutexOK'
  BY <1>2, <1>6, <1>7, Parts DEF MutexOK
<1>15. Waiting'
  BY <1>1, <1>5, <1>7, Parts DEF Waiting
<1>16. \A n \in Mutex : owner'[n] # None => On(owned'[owner'[n]], n)
  <2> SUFFICES ASSUME NEW n \in Mutex, owner'[n] # None PROVE On(owned'[owner'[n]], n)
    OBVIOUS
  <2>1. CASE n = m
    BY <2>1, <1>7, <1>8, <1>10
  <2>2. CASE n # m
    <3>1. owner'[n] = owner[n] /\ owner[n] \in Thread
      BY <2>2, <1>3, <1>7
    <3>2. On(owned[owner[n]], n)
      BY <3>1, OwnedFacts
    <3> QED BY <3>1, <3>2, <1>8, <1>10
  <2> QED BY <2>1, <2>2
<1>17. \A t \in Thread : call[t] # None /\ ~suspended[t] =>
           /\ (error[t] = "ok") <=> (t \in granted)
           /\ call[t] \in Mutex => ((t \in granted) <=> (owner'[call[t]] = t))
  <2> SUFFICES ASSUME NEW t \in Thread, call[t] # None, ~suspended[t]
               PROVE  /\ (error[t] = "ok") <=> (t \in granted)
                      /\ call[t] \in Mutex => ((t \in granted) <=> (owner'[call[t]] = t))
    OBVIOUS
  <2>1. /\ (error[t] = "ok") <=> (t \in granted)
        /\ call[t] \in Mutex => ((t \in granted) <=> (owner[call[t]] = t))
    BY Parts DEF TakeReturnsTruth
  <2>2. t # cur
    BY <1>2
  <2>3. CASE call[t] = m
    BY <2>1, <2>2, <2>3, <1>4, <1>7, Parts
  <2>4. CASE call[t] # m
    BY <2>1, <2>4, <1>7
  <2> QED BY <2>3, <2>4
<1>18. TakeReturnsTruth'
  BY <1>1, <1>16, <1>17 DEF TakeReturnsTruth
<1>19. Owned'
  <2> SUFFICES ASSUME NEW t \in Thread
               PROVE  /\ Proper(owned'[t])
                      /\ \A n \in Mutex : On(owned'[t], n) <=> owner'[n] = t
    BY DEF Owned
  <2>1. CASE t = cur
    BY <2>1, <1>2, <1>7, <1>8, <1>10, OwnedFacts
  <2>2. CASE t # cur
    <3>1. owned'[t] = owned[t] /\ Proper(owned[t])
          /\ \A n \in Mutex : On(owned[t], n) <=> owner[n] = t
      BY <2>2, <1>10, OwnedFacts
    <3>2. \A n \in Mutex : owner'[n] = t <=> owner[n] = t
      BY <2>2, <1>4, <1>7, Parts
    <3> QED BY <3>1, <3>2
  <2> QED BY <2>1, <2>2
<1>20. NestedOK'
  <2> SUFFICES ASSUME NEW t \in Thread, NEW a \in Mutex, NEW b \in Mutex, a # b,
                      owner'[a] = t, owner'[b] = t \/ (suspended[t] /\ call[t] = b)
               PROVE  a \in nested' /\ b \in nested'
    BY <1>1 DEF NestedOK
  <2>1. CASE a = m
    BY <2>1, <1>2, <1>7, <1>11
  <2>2. CASE b = m
    BY <2>2, <1>2, <1>5, <1>7, <1>11
  <2>3. CASE a # m /\ b # m
    BY <2>3, <1>7, <1>11, Parts DEF NestedOK
  <2> QED BY <2>1, <2>2, <2>3
<1>21. Ordered'
  BY <1>1, <1>11, Parts DEF Ordered
<1>22. Lends'
  BY <1>1, <1>5, <1>7, <1>11, Parts DEF Lends
<1>23. FirstIsBase'
  <2> SUFFICES ASSUME InOrder, NEW t \in Thread
               PROVE  IF owned'[t] = << >> THEN prio[t] = Base[t]
                      ELSE original'[owned'[t][1]] = Base[t]
    BY <1>1 DEF FirstIsBase
  <2>1. IF owned[t] = << >> THEN prio[t] = Base[t]
        ELSE /\ original[owned[t][1]] = Base[t]
             /\ owned[t][1] \in Mutex /\ owner[owned[t][1]] = t
    BY OwnedFacts, Parts DEF FirstIsBase
  <2>2. owned[t] # << >> => original'[owned[t][1]] = original[owned[t][1]]
    BY <2>1, <1>4, <1>7, Parts
  <2>3. CASE t = cur
    BY <2>1, <2>2, <2>3, <1>7, <1>8, <1>10
  <2>4. CASE t # cur
    BY <2>1, <2>2, <2>4, <1>10
  <2> QED BY <2>3, <2>4
<1>24. Lists' /\ Ready' /\ MostUrgentRuns'
  BY <1>1, Parts DEF Lists, Ready, MostUrgentRuns
<1> QED BY <1>13, <1>14, <1>15, <1>18, <1>19, <1>20, <1>21, <1>22, <1>23, <1>24 DEF IInv

\* rt_mutex_take of another thread's mutex: its owner inherits.
LEMMA TakeWaitKeeps ==
    ASSUME IInv, NEW m \in Mutex, NEW time \in Times, TakeWait(m, time) PROVE IInv'
<1> DEFINE h == owner[m]
           p == IF prio[cur] < prio[h] THEN [prio EXCEPT ![h] = prio[cur]] ELSE prio
<1>1. /\ Runs /\ h # cur /\ value[m] = 0
      /\ error' = [error EXCEPT ![cur] = "ok"]
      /\ Suspend(m, time)
      /\ Schedule(p)
      /\ nested' = Nested(m)
      /\ UNCHANGED <<value, owner, hold, original, granted, owned>>
  BY DEF TakeWait, mutexVars
<1>2. /\ cur \in Thread /\ ~suspended[cur] /\ call[cur] = None /\ cur \notin granted
  BY <1>1, RunsFacts
<1>3. /\ m \in Object /\ m # None /\ prio \in [Thread -> Nat] /\ error \in [Thread -> Error]
      /\ owner \in [Mutex -> Thread \cup {None}] /\ nested \subseteq Mutex
  BY Parts DEF TypeOK
<1>4. h \in Thread
  BY <1>1, <1>3, Parts
<1>5. /\ p \in [Thread -> Nat] /\ p[h] <= prio[h] /\ p[h] <= prio[cur]
      /\ \A t \in Thread : t # h => p[t] = prio[t]
  <2>1. prio[cur] \in Nat /\ prio[h] \in Nat
    BY <1>2, <1>3, <1>4
  <2>2. CASE prio[cur] < prio[h]
    BY <2>1, <2>2, <1>2, <1>3, <1>4
  <2>3. CASE ~(prio[cur] < prio[h])
    BY <2>1, <2>3, <1>2, <1>3, <1>4
  <2> QED BY <2>2, <2>3
<1> HIDE DEF p
<1>6. /\ prio' = p /\ prio' \in [Thread -> Nat] /\ cur' \in Thread \cup {None}
      /\ stale' \in BOOLEAN /\ Ready' /\ MostUrgentRuns'
  BY <1>1, <1>5, Parts, ScheduleOK
<1>7. error' \in [Thread -> Error] /\ error'[cur] = "ok"
      /\ \A t \in Thread : t # cur => error'[t] = error[t]
  BY <1>1, <1>2, <1>3 DEF Error
<1>8. /\ list' \in [Object -> Seq(Thread)] /\ Lists'
      /\ suspended' \in [Thread -> BOOLEAN] /\ timer' \in [Thread -> BOOLEAN]
      /\ call' \in [Thread -> Object \cup {None}]
      /\ WaitExact(list', call', suspended')
      /\ \A t \in Thread : timer'[t] => suspended'[t]
      /\ \A t \in Thread : /\ suspended'[t] <=> suspended[t] \/ t = cur
                           /\ call'[t] = IF t = cur THEN m ELSE call[t]
      /\ \A b \in Object : b # m => list'[b] = list[b]
      /\ \A t \in Thread : On(list'[m], t) <=> On(list[m], t) \/ t = cur
      /\ m \notin Fifo /\ Sorted(list[m], prio) => Sorted(list'[m], prio)
  BY <1>1, <1>3, SuspendOK
<1>9. /\ call'[cur] = m /\ suspended'[cur]
      /\ \A t \in Thread : t # cur => /\ suspended'[t] <=> suspended[t]
                                      /\ call'[t] = call[t] /\ error'[t] = error[t]
  BY <1>2, <1>7, <1>8
<1>10. /\ nested \subseteq nested' /\ nested' \subseteq Mutex
       /\ \A n \in Mutex : owner[n] = cur => n \in nested' /\ m \in nested'
  BY <1>1, <1>3 DEF Nested, Others
<1>11. TypeOK'
  BY <1>1, <1>6, <1>7, <1>8, <1>10, Parts DEF TypeOK
<1>12. \A o \in Object : value[o] > 0 => list'[o] = << >>
  BY <1>1, <1>8, Parts
<1>13. WaitersExact'
  BY <1>1, <1>8, <1>11, <1>12, Parts DEF WaitersExact, WaitExact
<1>14. MutexOK' /\ Owned'
  BY <1>1, Parts DEF MutexOK, Owned
<1>15. Waiting'
  BY <1>1, <1>2, <1>3, <1>7, <1>9, Parts DEF Waiting
<1>16. TakeReturnsTruth'
  BY <1>1, <1>9, Parts DEF TakeReturnsTruth
<1>17. NestedOK'
  BY <1>1, <1>9, <1>10, Parts DEF NestedOK
<1>18. \A t \in Thread : On(list[m], t) => t # h
  BY <1>3, Parts DEF WaitExact, Waiting
<1>19. \A n \in Mutex, t \in Thread : n # m /\ n \notin nested' /\ On(list[n], t) => t # h
  BY <1>4, <1>10, Parts DEF WaitExact, NestedOK
<1>20. Ordered'
  <2> SUFFICES ASSUME NEW n \in Mutex, n \notin nested', n \notin Fifo
               PROVE  Sorted(list'[n], p)
    BY <1>6 DEF Ordered
  <2>1. Sorted(list[n], prio) /\ n \in Object
    BY <1>10, Parts DEF Ordered
  <2>2. Sorted(list'[n], prio)
    <3>1. CASE n = m
      BY <2>1, <3>1, <1>8
    <3>2. CASE n # m
      BY <2>1, <3>2, <1>8
    <3> QED BY <3>1, <3>2
  <2>3. \A t \in Thread : On(list'[n], t) => p[t] = prio[t]
    <3>1. CASE n = m
      BY <3>1, <1>1, <1>5, <1>8, <1>18
    <3>2. CASE n # m
      BY <2>1, <3>2, <1>5, <1>8, <1>19
    <3> QED BY <3>1, <3>2
  <2>4. list'[n] \in Seq(Thread)
    BY <2>1, <1>8
  <2> QED BY <2>2, <2>3, <2>4, SortedSame
<1>21. Lends'
  <2> SUFFICES ASSUME NEW n \in Mutex, n \notin nested', NEW t \in Thread, On(list'[n], t)
               PROVE  p[owner[n]] <= p[t]
    BY <1>1, <1>6 DEF Lends
  <2>1. p[t] \in Nat /\ prio[t] \in Nat /\ p[h] \in Nat /\ prio[h] \in Nat /\ n \in Object
    BY <1>3, <1>4, <1>5, Parts
  <2>2. CASE n = m /\ t = cur
    BY <2>1, <2>2, <1>1, <1>5
  <2>3. CASE n = m /\ t # cur
    <3>1. On(list[m], t) /\ t # h /\ m \notin nested
      BY <2>3, <1>8, <1>10, <1>18
    <3>2. prio[h] <= prio[t] /\ p[t] = prio[t]
      BY <3>1, <1>5, Parts DEF Lends
    <3> QED BY <3>2, <2>1, <2>3, <1>5
  <2>4. CASE n # m
    <3>1. On(list[n], t) /\ n \notin nested
      BY <2>1, <2>4, <1>8, <1>10
    <3>2. prio[owner[n]] <= prio[t] /\ p[t] = prio[t]
      BY <2>4, <3>1, <1>5, <1>19, Parts DEF Lends
    <3>3. owner[n] \in Thread
      <4>1. list[n] # << >>
        BY <3>1 DEF On
      <4>2. value[n] \in {0, 1} /\ ~(value[n] > 0)
        BY <2>1, <4>1, Parts DEF MutexOK
      <4> QED BY <4>2, <1>3, Parts
    <3>4. p[owner[n]] <= prio[owner[n]] /\ p[owner[n]] \in Nat /\ prio[owner[n]] \in Nat
      BY <3>3, <1>3, <1>5
    <3> QED BY <3>2, <3>4, <2>1
  <2> QED BY <2>2, <2>3, <2>4
<1>22. FirstIsBase'
  <2>1. owned[h] # << >>
    BY <1>4, OwnedFacts DEF On
  <2> QED BY <2>1, <1>1, <1>5, <1>6, Parts DEF FirstIsBase
<1> QED
  BY <1>6, <1>8, <1>13, <1>14, <1>15, <1>16, <1>17, <1>20, <1>21, <1>22 DEF IInv

\* What the stack of mutexes loses when its thread gives m away.
LEMMA Given ==
    ASSUME IInv, NEW m \in Mutex, cur \in Thread, owner[m] = cur,
           InOrder => owned[cur][Len(owned[cur])] = m
    PROVE  LET l == Without(owned[cur], m) IN
           /\ l \in Seq(Mutex) /\ Proper(l)
           /\ \A n \in Mutex : On(l, n) <=> owner[n] = cur /\ n # m
           /\ InOrder => IF l = << >> THEN original[m] = Base[cur]
                         ELSE /\ original[l[1]] = Base[cur]
                              /\ l[1] \in Mutex /\ owner[l[1]] = cur /\ l[1] # m
<1> DEFINE k == owned[cur]
           l == Without(k, m)
<1>1. /\ k \in Seq(Mutex) /\ Proper(k) /\ \A n \in Mutex : On(k, n) <=> owner[n] = cur
      /\ k # << >> => k[1] \in Mutex /\ owner[k[1]] = cur
  BY OwnedFacts
<1>2. On(k, m)
  BY <1>1
<1>3. /\ l \in Seq(Mutex) /\ Proper(l) /\ \A n : On(l, n) <=> On(k, n) /\ n # m
      /\ Len(l) = Len(k) - 1 /\ (k[1] # m => l[1] = k[1])
  BY <1>1, <1>2, ListWithout
<1> HIDE DEF k, l
<1>4. k # << >> /\ Len(k) \in Nat /\ Len(k) >= 1 /\ (l = << >> <=> Len(l) = 0)
  <2>1. PICK i \in 1 .. Len(k) : k[i] = m
    BY <1>2 DEF On
  <2>2. Len(k) \in Nat /\ (k = << >> <=> Len(k) = 0) /\ (l = << >> <=> Len(l) = 0)
    BY <1>1, <1>3, Places
  <2> QED BY <2>1, <2>2
<1>5. ASSUME InOrder
      PROVE  IF l = << >> THEN original[m] = Base[cur]
             ELSE /\ original[l[1]] = Base[cur]
                  /\ l[1] \in Mutex /\ owner[l[1]] = cur /\ l[1] # m
  <2>1. k[Len(k)] = m /\ original[k[1]] = Base[cur]
    BY <1>4, <1>5, Parts DEF k, FirstIsBase
  <2>2. CASE l = << >>
    <3>1. Len(k) = 1
      BY <1>3, <1>4, <2>2
    <3> QED BY <3>1, <2>1, <2>2
  <2>3. CASE l # << >>
    <3>1. Len(k) # 1
      BY <1>3, <1>4, <2>3
    <3>2. k[1] # m
      <4>1. 1 \in 1 .. Len(k) /\ Len(k) \in 1 .. Len(k)
        BY <1>4
      <4> QED BY <4>1, <3>1, <2>1, <1>1 DEF Proper
    <3> QED BY <3>2, <2>1, <2>3, <1>1, <1>3, <1>4
  <2> QED BY <2>2, <2>3
<1> QED BY <1>1, <1>3, <1>5 DEF k, l

\* A thread that is back from its call, or in none, and does not own m keeps
\* what it knows of m when m goes to another.
LEMMA TruthKept ==
    ASSUME IInv, NEW m \in Mutex, cur \in Thread, call[cur] = None, owner[m] = cur,
           NEW t \in Thread, call[t] # None, ~suspended[t]
    PROVE  /\ t # cur /\ ((error[t] = "ok") <=> (t \in granted))
           /\ call[t] = m => t \notin granted
           /\ call[t] \in Mutex => ((t \in granted) <=> (owner[call[t]] = t))
BY Parts DEF TakeReturnsTruth

\* rt_mutex_release of a mutex nobody waits for.
LEMMA ReleaseFreeKeeps == ASSUME IInv, NEW m \in Mutex, ReleaseFree(m) PROVE IInv'
<1>1. /\ Runs /\ owner[m] = cur /\ hold[m] = 1 /\ list[m] = << >>
      /\ hold' = [hold EXCEPT ![m] = 0]
      /\ prio' = [prio EXCEPT ![cur] = original[m]]
      /\ value' = [value EXCEPT ![m] = @ + 1]
      /\ owner' = [owner EXCEPT ![m] = None]
      /\ original' = [original EXCEPT ![m] = NoPrio]
      /\ Disown(m, None)
      /\ nested' = nested \ {m}
      /\ UNCHANGED <<cur, error, suspended, timer, call, list, granted>>
  BY DEF ReleaseFree
<1>2. stale' = (cur \notin Best(suspended, prio'))
  BY DEF ReleaseFree
<1>3. /\ cur \in Thread /\ ~suspended[cur] /\ call[cur] = None /\ cur \notin granted
  BY <1>1, RunsFacts
<1>4. /\ value \in [Object -> 0 .. SemMax \cup {1}] /\ hold \in [Mutex -> 0 .. HoldMax]
      /\ owner \in [Mutex -> Thread \cup {None}] /\ original \in [Mutex -> Nat \cup {NoPrio}]
      /\ owned \in [Thread -> Seq(Mutex)] /\ prio \in [Thread -> Nat]
      /\ nested \subseteq Mutex /\ m \in Object /\ HoldMax \in Nat
  BY Parts, IpcAssumption DEF TypeOK
<1>5. value[m] = 0 /\ original[m] \in Nat /\ cur # None
  BY <1>1, <1>3, Parts DEF MutexOK
<1>6. \A t \in Thread : ~(suspended[t] /\ call[t] = m) /\ ~On(list[m], t)
  <2>1. \A t \in Thread : ~On(list[m], t)
    BY <1>1 DEF On
  <2> QED BY <2>1, <1>4, Parts DEF WaitExact
<1>7. /\ value' \in [Object -> 0 .. SemMax \cup {1}] /\ hold' \in [Mutex -> 0 .. HoldMax]
      /\ value'[m] = 1 /\ hold'[m] = 0
      /\ \A o \in Object : o # m => value'[o] = value[o]
      /\ \A n \in Mutex : n # m => hold'[n] = hold[n]
  BY <1>1, <1>4, <1>5
<1>8. /\ owner' \in [Mutex -> Thread \cup {None}] /\ original' \in [Mutex -> Nat \cup {NoPrio}]
      /\ owner'[m] = None
      /\ \A n \in Mutex : n # m => owner'[n] = owner[n] /\ original'[n] = original[n]
  BY <1>1, <1>4
<1>9. /\ prio' \in [Thread -> Nat] /\ prio'[cur] = original[m]
      /\ \A t \in Thread : t # cur => prio'[t] = prio[t]
  BY <1>1, <1>3, <1>4, <1>5
<1> DEFINE l == Without(owned[cur], m)
<1>10. /\ l \in Seq(Mutex) /\ Proper(l)
       /\ \A n \in Mutex : On(l, n) <=> owner[n] = cur /\ n # m
       /\ InOrder => IF l = << >> THEN original[m] = Base[cur]
                     ELSE /\ original[l[1]] = Base[cur]
                          /\ l[1] \in Mutex /\ owner[l[1]] = cur /\ l[1] # m
  BY <1>1, <1>3, Given DEF Disown
<1>11. owned' = [u \in Thread |-> IF u = cur THEN l ELSE owned[u]]
  BY <1>1, Parts DEF Disown
<1> HIDE DEF l
<1>12. /\ owned' \in [Thread -> Seq(Mutex)] /\ owned'[cur] = l
       /\ \A t \in Thread : t # cur => owned'[t] = owned[t]
  BY <1>3, <1>4, <1>10, <1>11
<1>13. stale' \in BOOLEAN
  BY <1>2
<1>14. TypeOK'
  BY <1>1, <1>7, <1>8, <1>9, <1>12, <1>13, Parts DEF TypeOK
<1>15. WaitersExact'
  BY <1>1, <1>7, <1>8, <1>14, Parts DEF WaitersExact, WaitExact
<1>16. MutexOK'
  BY <1>7, <1>8, Parts DEF MutexOK
<1>17. Waiting'
  BY <1>1, <1>6, <1>8, Parts DEF Waiting
<1>18. ASSUME NEW n \in Mutex, owner'[n] # None PROVE On(owned'[owner'[n]], n)
  <2>1. n # m /\ owner'[n] = owner[n] /\ owner[n] \in Thread
    BY <1>18, <1>4, <1>8
  <2>2. On(owned[owner[n]], n)
    BY <2>1, OwnedFacts
  <2> QED BY <2>1, <2>2, <1>10, <1>12
<1>19. ASSUME NEW t \in Thread, call[t] # None, ~suspended[t]
       PROVE  /\ (error[t] = "ok") <=> (t \in granted)
              /\ call[t] \in Mutex => ((t \in granted) <=> (owner'[call[t]] = t))
  <2>1. /\ t # cur /\ ((error[t] = "ok") <=> (t \in granted))
        /\ call[t] = m => t \notin granted
        /\ call[t] \in Mutex => ((t \in granted) <=> (owner[call[t]] = t))
    BY <1>1, <1>3, <1>19, TruthKept
  <2>2. CASE call[t] = m
    BY <2>1, <2>2, <1>8, Parts
  <2>3. CASE call[t] # m
    BY <2>1, <2>3, <1>8
  <2> QED BY <2>2, <2>3
<1>20. TakeReturnsTruth'
  BY <1>1, <1>18, <1>19 DEF TakeReturnsTruth
<1>21. Owned'
  <2> SUFFICES ASSUME NEW t \in Thread
               PROVE  /\ Proper(owned'[t])
                      /\ \A n \in Mutex : On(owned'[t], n) <=> owner'[n] = t
    BY DEF Owned
  <2>1. CASE t = cur
    BY <2>1, <1>3, <1>5, <1>8, <1>10, <1>12
  <2>2. CASE t # cur
    <3>1. owned'[t] = owned[t] /\ Proper(owned[t])
          /\ \A n \in Mutex : On(owned[t], n) <=> owner[n] = t
      BY <2>2, <1>12, OwnedFacts
    <3>2. \A n \in Mutex : owner'[n] = t <=> owner[n] = t
      BY <2>2, <1>1, <1>8, Parts
    <3> QED BY <3>1, <3>2
  <2> QED BY <2>1, <2>2
<1>22. NestedOK'
  <2> SUFFICES ASSUME NEW t \in Thread, NEW a \in Mutex, NEW b \in Mutex, a # b,
                      owner'[a] = t, owner'[b] = t \/ (suspended[t] /\ call[t] = b)
               PROVE  a \in nested' /\ b \in nested'
    BY <1>1 DEF NestedOK
  <2>1. a # m /\ b # m
    BY <1>6, <1>8, Parts
  <2>2. a \in nested /\ b \in nested
    BY <2>1, <1>8, Parts DEF NestedOK
  <2> QED BY <2>1, <2>2, <1>1
<1>23. \A n \in Mutex, t \in Thread : On(list[n], t) => t # cur
  BY <1>3, Parts DEF WaitExact
<1>24. Ordered'
  <2> SUFFICES ASSUME NEW n \in Mutex, n \notin nested', n \notin Fifo
               PROVE  Sorted(list[n], prio')
    BY <1>1 DEF Ordered
  <2>1. CASE n = m
    BY <2>1, <1>1 DEF Sorted
  <2>2. CASE n # m
    <3>1. Sorted(list[n], prio) /\ list[n] \in Seq(Thread)
      BY <2>2, <1>1, Parts DEF Ordered, TypeOK
    <3>2. \A t \in Thread : On(list[n], t) => prio'[t] = prio[t]
      BY <1>9, <1>23
    <3> QED BY <3>1, <3>2, SortedSame
  <2> QED BY <2>1, <2>2
<1>25. Lends'
  <2> SUFFICES ASSUME NEW n \in Mutex, n \notin nested', NEW t \in Thread, On(list[n], t)
               PROVE  prio'[owner'[n]] <= prio'[t]
    BY <1>1 DEF Lends
  <2>1. n # m /\ n \notin nested /\ t # cur
    BY <1>1, <1>6, <1>23
  <2>2. prio[owner[n]] <= prio[t]
    BY <2>1, Parts DEF Lends
  <2>3. owner[n] # cur
    BY <2>1, <1>1, <1>3, Parts DEF NestedOK
  <2>4. owner[n] \in Thread
    <3>1. list[n] # << >> /\ n \in Object
      BY Parts DEF On
    <3>2. value[n] \in {0, 1} /\ ~(value[n] > 0)
      BY <3>1, Parts DEF MutexOK
    <3> QED BY <3>2, <1>4, Parts
  <2> QED BY <2>1, <2>2, <2>3, <2>4, <1>8, <1>9
<1>26. FirstIsBase'
  <2> SUFFICES ASSUME InOrder, NEW t \in Thread
               PROVE  IF owned'[t] = << >> THEN prio'[t] = Base[t]
                      ELSE original'[owned'[t][1]] = Base[t]
    BY <1>1 DEF FirstIsBase
  <2>1. CASE t = cur
    BY <2>1, <1>8, <1>9, <1>10, <1>12
  <2>2. CASE t # cur
    <3>1. owned'[t] = owned[t] /\ prio'[t] = prio[t]
      BY <2>2, <1>9, <1>12
    <3>2. IF owned[t] = << >> THEN prio[t] = Base[t]
          ELSE /\ original[owned[t][1]] = Base[t]
               /\ owned[t][1] \in Mutex /\ owner[owned[t][1]] = t
      BY OwnedFacts, Parts DEF FirstIsBase
    <3> QED BY <3>1, <3>2, <2>2, <1>1, <1>8
  <2> QED BY <2>1, <2>2
<1>27. MostUrgentRuns'
  BY <1>1, <1>2 DEF MostUrgentRuns
<1>28. Lists' /\ Ready'
  BY <1>1, Parts DEF Lists, Ready
<1> QED
  BY <1>15, <1>16, <1>17, <1>20, <1>21, <1>22, <1>24, <1>25, <1>26, <1>27, <1>28 DEF IInv

\* The most urgent of the threads on a list, by ReleaseTo's CHOOSE.
LEMMA TopOfList ==
    ASSUME NEW l \in Seq(Thread), l # << >>, prio \in [Thread -> Nat]
    PROVE  LET top == CHOOSE q \in {prio[l[i]] : i \in 1 .. Len(l)} :
                          \A i \in 1 .. Len(l) : q <= prio[l[i]]
           IN  top \in Nat /\ \A t \in Thread : On(l, t) => top <= prio[t]
<1> DEFINE S == {prio[l[i]] : i \in 1 .. Len(l)}
           top == CHOOSE q \in S : \A i \in 1 .. Len(l) : q <= prio[l[i]]
<1>1. 1 \in 1 .. Len(l) /\ \A i \in 1 .. Len(l) : l[i] \in Thread /\ prio[l[i]] \in Nat
  BY Places
<1>2. S \subseteq Nat /\ S # {}
  BY <1>1
<1>3. PICK q \in S : \A r \in S : q <= r
  BY <1>2, Smallest
<1>4. \A i \in 1 .. Len(l) : q <= prio[l[i]]
  BY <1>3
<1>5. top \in S /\ \A i \in 1 .. Len(l) : top <= prio[l[i]]
  BY <1>4
<1> HIDE DEF top, S
<1>6. \A t \in Thread : On(l, t) => top <= prio[t]
  BY <1>5 DEF On
<1> QED BY <1>2, <1>5, <1>6 DEF top, S

\* rt_mutex_release hands the mutex to its first waiter.
LEMMA ReleaseToKeeps == ASSUME IInv, NEW m \in Mutex, ReleaseTo(m) PROVE IInv'
<1> DEFINE t   == list[m][1]
           top == CHOOSE q \in {prio[list[m][i]] : i \in 1 .. Len(list[m])} :
                      \A i \in 1 .. Len(list[m]) : q <= prio[list[m][i]]
           p   == [prio EXCEPT ![cur] = original[m], ![t] = IF m \in Fifo THEN top ELSE @]
<1>1. /\ Runs /\ owner[m] = cur /\ hold[m] = 1 /\ list[m] # << >>
      /\ owner' = [owner EXCEPT ![m] = t]
      /\ original' = [original EXCEPT ![m] = prio[t]]
      /\ Resume(m, t)
      /\ Disown(m, t)
      /\ Schedule(p)
      /\ UNCHANGED <<hold, error, call, value, nested>>
  BY DEF ReleaseTo
<1>2. /\ cur \in Thread /\ ~suspended[cur] /\ call[cur] = None /\ cur \notin granted
      /\ cur # None
  BY <1>1, RunsFacts, Parts
<1>3. /\ m \in Object /\ m # None /\ prio \in [Thread -> Nat] /\ list[m] \in Seq(Thread)
      /\ owner \in [Mutex -> Thread \cup {None}] /\ original \in [Mutex -> Nat \cup {NoPrio}]
      /\ owned \in [Thread -> Seq(Mutex)] /\ nested \subseteq Mutex
  BY Parts DEF TypeOK
<1>4. /\ t \in Thread /\ suspended[t] /\ call[t] = m /\ On(list[m], t)
      /\ error[t] = "ok" /\ t \notin granted
      /\ list' \in [Object -> Seq(Thread)] /\ Lists'
      /\ suspended' \in [Thread -> BOOLEAN] /\ timer' \in [Thread -> BOOLEAN]
      /\ granted' = granted \cup {t}
      /\ WaitExact(list', call, suspended')
      /\ \A u \in Thread : timer'[u] => suspended'[u]
      /\ \A u \in Thread : suspended'[u] <=> suspended[u] /\ u # t
      /\ \A b \in Object : b # m => list'[b] = list[b]
      /\ \A u \in Thread : On(list'[m], u) <=> On(list[m], u) /\ u # t
      /\ \A q : Sorted(list[m], q) => Sorted(list'[m], q)
  BY <1>1, <1>3, ResumeOK
<1>5. t # cur /\ value[m] = 0 /\ original[m] \in Nat
  BY <1>1, <1>2, <1>3, <1>4, Parts DEF MutexOK
<1>6. top \in Nat /\ \A u \in Thread : On(list[m], u) => top <= prio[u]
  BY <1>1, <1>3, TopOfList
<1>7. m \notin Fifo /\ Sorted(list[m], prio) =>
          \A u \in Thread : On(list[m], u) => prio[t] <= prio[u]
  <2>1. Len(list[m]) \in Nat /\ 1 \in 1 .. Len(list[m])
    BY <1>1, <1>3, Places
  <2>2. ASSUME Sorted(list[m], prio), NEW i \in 1 .. Len(list[m])
        PROVE  prio[t] <= prio[list[m][i]]
    BY <2>1, <2>2 DEF Sorted
  <2> QED BY <2>2 DEF On
<1> HIDE DEF t, top
<1>8. /\ p \in [Thread -> Nat] /\ p[cur] = original[m]
      /\ p[t] = IF m \in Fifo THEN top ELSE prio[t]
      /\ \A u \in Thread : u # cur /\ u # t => p[u] = prio[u]
  BY <1>2, <1>3, <1>4, <1>5, <1>6
<1> HIDE DEF p
<1>9. /\ prio' = p /\ prio' \in [Thread -> Nat] /\ cur' \in Thread \cup {None}
      /\ stale' \in BOOLEAN /\ Ready' /\ MostUrgentRuns'
  BY <1>1, <1>8, Parts, ScheduleOK
<1>10. /\ owner' \in [Mutex -> Thread \cup {None}] /\ original' \in [Mutex -> Nat \cup {NoPrio}]
       /\ owner'[m] = t /\ original'[m] = prio[t] /\ prio[t] \in Nat
       /\ \A n \in Mutex : n # m => owner'[n] = owner[n] /\ original'[n] = original[n]
  BY <1>1, <1>3, <1>4
<1> DEFINE l == Without(owned[cur], m)
           k == Append(owned[t], m)
<1>11. /\ l \in Seq(Mutex) /\ Proper(l)
       /\ \A n \in Mutex : On(l, n) <=> owner[n] = cur /\ n # m
       /\ InOrder => IF l = << >> THEN original[m] = Base[cur]
                     ELSE /\ original[l[1]] = Base[cur]
                          /\ l[1] \in Mutex /\ owner[l[1]] = cur /\ l[1] # m
  BY <1>1, <1>2, Given DEF Disown
<1>12. /\ k \in Seq(Mutex) /\ k # << >> /\ Proper(k)
       /\ \A u : On(k, u) <=> On(owned[t], u) \/ u = m
       /\ k[1] = IF owned[t] = << >> THEN m ELSE owned[t][1]
  <2>1. ~On(owned[t], m)
    BY <1>1, <1>4, <1>5, OwnedFacts
  <2> QED BY <2>1, <1>4, OwnedFacts, ListAppend
<1>13. owned' = [u \in Thread |-> IF u = cur THEN l ELSE IF u = t THEN k ELSE owned[u]]
  BY <1>1 DEF Disown
<1> HIDE DEF l, k
<1>14. /\ owned' \in [Thread -> Seq(Mutex)] /\ owned'[cur] = l /\ owned'[t] = k
       /\ \A u \in Thread : u # cur /\ u # t => owned'[u] = owned[u]
  BY <1>2, <1>3, <1>4, <1>5, <1>11, <1>12, <1>13
<1>15. TypeOK'
  BY <1>1, <1>4, <1>9, <1>10, <1>14, Parts DEF TypeOK
<1>16. ASSUME NEW o \in Object, value[o] > 0 PROVE list'[o] = << >>
  <2>1. o # m /\ list[o] = << >>
    BY <1>5, <1>16, Parts
  <2> QED BY <2>1, <1>4
<1>17. WaitersExact'
  BY <1>1, <1>2, <1>4, <1>10, <1>15, <1>16, Parts DEF WaitersExact, WaitExact
<1>18. MutexOK'
  BY <1>1, <1>10, Parts DEF MutexOK
<1>19. Waiting'
  <2> SUFFICES ASSUME NEW u \in Thread
               PROVE  /\ suspended'[u] /\ call[u] # None =>
                             /\ error[u] = "ok" /\ u \notin granted'
                             /\ call[u] \in Mutex => owner'[call[u]] # u
                      /\ call[u] = None => u \notin granted'
    BY <1>1 DEF Waiting
  <2>1. u = t => ~suspended'[u] /\ call[u] # None
    BY <1>3, <1>4
  <2>2. u # t => (suspended'[u] <=> suspended[u]) /\ (u \in granted' <=> u \in granted)
    BY <1>4
  <2>3. u # t => owner'[m] # u
    BY <1>10
  <2> QED BY <2>1, <2>2, <2>3, <1>10, Parts DEF Waiting
<1>20. ASSUME NEW n \in Mutex, owner'[n] # None PROVE On(owned'[owner'[n]], n)
  <2>1. CASE n = m
    BY <2>1, <1>10, <1>12, <1>14
  <2>2. CASE n # m
    <3>1. owner'[n] = owner[n] /\ owner[n] \in Thread
      BY <1>20, <2>2, <1>3, <1>10
    <3>2. On(owned[owner[n]], n)
      BY <3>1, OwnedFacts
    <3> QED BY <3>1, <3>2, <2>2, <1>11, <1>12, <1>14
  <2> QED BY <2>1, <2>2
<1>21. ASSUME NEW u \in Thread, call[u] # None, ~suspended'[u]
       PROVE  /\ (error[u] = "ok") <=> (u \in granted')
              /\ call[u] \in Mutex => ((u \in granted') <=> (owner'[call[u]] = u))
  <2>1. CASE u = t
    BY <2>1, <1>4, <1>10
  <2>2. CASE u # t
    <3>1. ~suspended[u] /\ (u \in granted' <=> u \in granted)
      BY <2>2, <1>4, <1>21
    <3>2. /\ u # cur /\ ((error[u] = "ok") <=> (u \in granted))
          /\ call[u] = m => u \notin granted
          /\ call[u] \in Mutex => ((u \in granted) <=> (owner[call[u]] = u))
      BY <3>1, <1>1, <1>2, <1>21, TruthKept
    <3>3. CASE call[u] = m
      BY <3>1, <3>2, <3>3, <2>2, <1>10
    <3>4. CASE call[u] # m
      BY <3>1, <3>2, <3>4, <1>10
    <3> QED BY <3>3, <3>4
  <2> QED BY <2>1, <2>2
<1>22. TakeReturnsTruth'
  BY <1>1, <1>20, <1>21 DEF TakeReturnsTruth
<1>23. Owned'
  <2> SUFFICES ASSUME NEW u \in Thread
               PROVE  /\ Proper(owned'[u])
                      /\ \A n \in Mutex : On(owned'[u], n) <=> owner'[n] = u
    BY DEF Owned
  <2>1. CASE u = cur
    BY <2>1, <1>5, <1>10, <1>11, <1>14
  <2>2. CASE u = t
    <3>1. \A n \in Mutex : On(owned[t], n) <=> owner[n] = t
      BY <1>4, OwnedFacts
    <3> QED BY <3>1, <2>2, <1>10, <1>12, <1>14
  <2>3. CASE u # cur /\ u # t
    <3>1. owned'[u] = owned[u] /\ Proper(owned[u])
          /\ \A n \in Mutex : On(owned[u], n) <=> owner[n] = u
      BY <2>3, <1>14, OwnedFacts
    <3>2. \A n \in Mutex : owner'[n] = u <=> owner[n] = u
      BY <2>3, <1>1, <1>10
    <3> QED BY <3>1, <3>2
  <2> QED BY <2>1, <2>2, <2>3
<1>24. NestedOK'
  <2> SUFFICES ASSUME NEW u \in Thread, NEW a \in Mutex, NEW b \in Mutex, a # b,
                      owner'[a] = u, owner'[b] = u \/ (suspended'[u] /\ call[u] = b)
               PROVE  a \in nested /\ b \in nested
    BY <1>1 DEF NestedOK
  <2>1. CASE a = m
    <3>1. u = t /\ b # m /\ owner[b] = t
      BY <2>1, <1>4, <1>10
    <3> QED BY <3>1, <2>1, <1>4, Parts DEF NestedOK
  <2>2. CASE a # m
    <3>1. owner[a] = u /\ (owner[b] = u \/ (suspended[u] /\ call[u] = b))
      BY <2>2, <1>4, <1>10
    <3> QED BY <3>1, Parts DEF NestedOK
  <2> QED BY <2>1, <2>2
<1>25. \A n \in Mutex, u \in Thread : On(list'[n], u) => On(list[n], u) /\ u # cur /\ u # t
  <2> SUFFICES ASSUME NEW n \in Mutex, NEW u \in Thread, On(list'[n], u)
               PROVE  On(list[n], u) /\ u # cur /\ u # t
    OBVIOUS
  <2>1. suspended'[u] /\ call[u] = n
    BY Parts, <1>4 DEF WaitExact
  <2> QED BY <2>1, <1>2, <1>4, Parts DEF WaitExact
<1>26. Ordered'
  <2> SUFFICES ASSUME NEW n \in Mutex, n \notin nested, n \notin Fifo
               PROVE  Sorted(list'[n], p)
    BY <1>1, <1>9 DEF Ordered
  <2>1. Sorted(list[n], prio) /\ n \in Object
    BY Parts DEF Ordered
  <2>2. Sorted(list'[n], prio)
    <3>1. CASE n = m
      BY <2>1, <3>1, <1>4
    <3>2. CASE n # m
      BY <2>1, <3>2, <1>4
    <3> QED BY <3>1, <3>2
  <2>3. \A u \in Thread : On(list'[n], u) => p[u] = prio[u]
    BY <1>8, <1>25
  <2>4. list'[n] \in Seq(Thread)
    BY <2>1, <1>4
  <2> QED BY <2>2, <2>3, <2>4, SortedSame
<1>27. Lends'
  <2> SUFFICES ASSUME NEW n \in Mutex, n \notin nested, NEW u \in Thread, On(list'[n], u)
               PROVE  p[owner'[n]] <= p[u]
    BY <1>1, <1>9 DEF Lends
  <2>1. On(list[n], u) /\ p[u] = prio[u]
    BY <1>8, <1>25
  <2>2. CASE n = m
    <3>1. m \in Fifo => p[t] <= prio[u]
      BY <2>1, <2>2, <1>6, <1>8
    <3>2. m \notin Fifo => p[t] <= prio[u]
      BY <2>1, <2>2, <1>7, <1>8, Parts DEF Ordered
    <3> QED BY <3>1, <3>2, <2>1, <2>2, <1>10
  <2>3. CASE n # m
    <3>1. prio[owner[n]] <= prio[u]
      BY <2>1, Parts DEF Lends
    <3>2. owner[n] # cur /\ owner[n] # t
      BY <2>3, <1>1, <1>2, <1>4, Parts DEF NestedOK
    <3>3. owner[n] \in Thread
      <4>1. list[n] # << >> /\ n \in Object
        BY <2>1, Parts DEF On
      <4>2. value[n] \in {0, 1} /\ ~(value[n] > 0)
        BY <4>1, Parts DEF MutexOK
      <4> QED BY <4>2, <1>3, Parts
    <3> QED BY <3>1, <3>2, <3>3, <2>1, <2>3, <1>8, <1>10
  <2> QED BY <2>2, <2>3
<1>28. FirstIsBase'
  <2> SUFFICES ASSUME InOrder, NEW u \in Thread
               PROVE  IF owned'[u] = << >> THEN p[u] = Base[u]
                      ELSE original'[owned'[u][1]] = Base[u]
    BY <1>9 DEF FirstIsBase
  <2>1. IF owned[u] = << >> THEN prio[u] = Base[u]
        ELSE /\ original[owned[u][1]] = Base[u]
             /\ owned[u][1] \in Mutex /\ owner[owned[u][1]] = u
    BY OwnedFacts, Parts DEF FirstIsBase
  <2>2. CASE u = cur
    BY <2>2, <1>8, <1>10, <1>11, <1>14
  <2>3. CASE u # cur
    <3>1. owned[u] # << >> => original'[owned[u][1]] = original[owned[u][1]]
      BY <2>1, <2>3, <1>1, <1>10
    <3>2. CASE u = t
      BY <2>1, <3>1, <3>2, <1>10, <1>12, <1>14
    <3>3. CASE u # t
      BY <2>1, <2>3, <3>1, <3>3, <1>8, <1>14
    <3> QED BY <3>2, <3>3
  <2> QED BY <2>2, <2>3
<1> QED
  BY <1>4, <1>9, <1>17, <1>18, <1>19, <1>22, <1>23, <1>24, <1>26, <1>27, <1>28 DEF IInv

\* Every step of a thread, an interrupt or the tick.
LEMMA NextIInv == IInv /\ [Next]_vars => IInv'
<1> SUFFICES ASSUME IInv, [Next]_vars PROVE IInv'
  OBVIOUS
<1>1. CASE \E m \in Mutex, time \in Times : TakeWait(m, time)
  BY <1>1, TakeWaitKeeps
<1>2. CASE \E m \in Mutex : TakeAgain(m) \/ ReleaseOne(m)
  BY <1>2, CountKeeps
<1>3. CASE \E m \in Mutex : TakeFree(m) \/ ReleaseFree(m) \/ ReleaseTo(m)
  BY <1>3, TakeFreeKeeps, ReleaseFreeKeeps, ReleaseToKeeps
<1>4. CASE \E s \in Sem : \/ SemRelease(s) \/ SemReset(s)
                          \/ \E time \in Times : SemTake(s, time)
  BY <1>4, SemReleaseKeeps, SemResetKeeps, SemTakeKeeps
<1>5. CASE TakeReturn \/ Sleep \/ Yield \/ UNCHANGED vars
  BY <1>5, TakeReturnKeeps, SleepKeeps, YieldKeeps
<1>6. CASE \E t \in Thread : Timeout(t)
  BY <1>6, TimeoutKeeps
<1> QED BY <1>1, <1>2, <1>3, <1>4, <1>5, <1>6 DEF Next

\* IInv holds throughout.
LEMMA Invariance == Spec => []IInv
BY InitIInv, NextIInv, PTL DEF Spec

-----------------------------------------------------------------------------
(* The theorems.                                                           *)

\* A suspended thread is on the list of the one object it waits for; what is
\* available has no waiters; a mutex is available iff it has no owner, however
\* timeouts, releases, resets and sleeps fall.
THEOREM ListsMatchThreads == Spec => []WaitersExact
<1>1. IInv => WaitersExact
  BY DEF IInv
<1> QED BY <1>1, Invariance, PTL

\* rt_sem_take and rt_mutex_take return RT_EOK iff a release granted them, and
\* then the mutex is the thread's own.
THEOREM TakesTellTheTruth == Spec => []TakeReturnsTruth
<1>1. IInv => TakeReturnsTruth
  BY DEF IInv
<1> QED BY <1>1, Invariance, PTL

\* Priority inheritance, wherever mutexes are not nested.
THEOREM OwnersInherit == Spec => []OwnerInherits
<1>1. ASSUME IInv PROVE OwnerInherits
  <2> SUFFICES ASSUME NEW m \in Mutex, m \notin nested, NEW i \in 1 .. Len(list[m])
               PROVE  prio[owner[m]] <= prio[list[m][i]]
    BY DEF OwnerInherits
  <2>1. list[m] \in Seq(Thread)
    BY <1>1, Parts DEF TypeOK
  <2>2. list[m][i] \in Thread /\ On(list[m], list[m][i])
    BY <2>1, Places
  <2> QED BY <2>2, <1>1, Parts DEF Lends
<1> QED BY <1>1, Invariance, PTL

\* What is lent is given back when mutexes are released in the reverse order.
THEOREM LentPriorityReturns == Spec => []PriorityComesBack
<1>1. ASSUME IInv PROVE PriorityComesBack
  <2> SUFFICES ASSUME InOrder, NEW t \in Thread, Others(t) = {} PROVE prio[t] = Base[t]
    BY DEF PriorityComesBack
  <2>1. owned[t] = << >>
    BY <1>1, OwnedFacts DEF Others
  <2> QED BY <2>1, <1>1, Parts DEF FirstIsBase
<1> QED BY <1>1, Invariance, PTL

\* rt_schedule's choice stands until a priority is lowered without it.
THEOREM UrgentRuns == Spec => []MostUrgentRuns
<1>1. IInv => MostUrgentRuns
  BY DEF IInv
<1> QED BY <1>1, Invariance, PTL
=============================================================================
