-------------------------------- MODULE Ipc --------------------------------
(***************************************************************************)
(* Semaphores and mutexes of RT-Thread (ipc.c): their lists of suspended   *)
(* threads, timeouts, the direct hand-over of a mutex to its first waiter  *)
(* and the priority its owner inherits meanwhile. rt_schedule is the       *)
(* choice of a most urgent ready thread (ContextSwitch shows that it is).  *)
(*                                                                         *)
(* A smaller number is a more urgent priority. ipc.c disables interrupts   *)
(* in each call up to its rt_schedule: a call is one step, and one that    *)
(* suspends its thread a second one when the thread runs again.            *)
(***************************************************************************)
EXTENDS Integers, Sequences, FiniteSets

CONSTANTS
    Thread, Mutex, Sem,
    None,        \* no thread, no object
    Base,        \* the priority each thread was created with
    Fifo,        \* the objects created with RT_IPC_FLAG_FIFO
    SemInit,     \* the semaphores' first value
    SemMax,      \* RT_SEM_VALUE_MAX
    HoldMax,     \* RT_MUTEX_HOLD_MAX
    InOrder,     \* do threads release mutexes in the reverse order of taking?
    Times        \* the waiting times asked for: some ticks, for ever

Object == Mutex \cup Sem
NoPrio == -1     \* original_priority of a free mutex

ASSUME IpcAssumption ==
    /\ Mutex \cap Sem = {} /\ None \notin Thread /\ None \notin Object
    /\ Base \in [Thread -> Nat] /\ Fifo \subseteq Object
    /\ SemMax \in Nat /\ HoldMax \in Nat \ {0} /\ SemInit \in 0 .. SemMax
    /\ InOrder \in BOOLEAN /\ Times \subseteq {"some", "ever"}

VARIABLES
    cur,                      \* rt_current_thread
    prio, error, suspended,   \* the fields of each thread
    timer,                    \* is its thread_timer started?
    call,                     \* the object whose take it is in, waiting
    value, list,              \* the fields of each object
    owner, hold, original,    \* and of each mutex
    \* history: threads whose take was granted by a release; the mutexes each
    \* thread owns, in order; mutexes whose owner or a waiter had another
    \* one; was a priority lowered without rt_schedule?
    granted, owned, nested, stale

threadVars == <<prio, error, suspended, timer, call>>
mutexVars  == <<owner, hold, original>>
history    == <<granted, owned, nested>>
vars       == <<cur, threadVars, value, list, mutexVars, history, stale>>

\* rt_sem_init, rt_mutex_init; the threads are started
Init ==
    /\ cur \in {t \in Thread : \A u \in Thread : Base[t] <= Base[u]}
    /\ prio = Base /\ error = [t \in Thread |-> "ok"]
    /\ suspended = [t \in Thread |-> FALSE] /\ timer = [t \in Thread |-> FALSE]
    /\ call = [t \in Thread |-> None]
    /\ value = [o \in Object |-> IF o \in Mutex THEN 1 ELSE SemInit]
    /\ list = [o \in Object |-> << >>]
    /\ owner = [m \in Mutex |-> None] /\ hold = [m \in Mutex |-> 0]
    /\ original = [m \in Mutex |-> NoPrio]
    /\ granted = {} /\ owned = [t \in Thread |-> << >>]
    /\ nested = {} /\ stale = FALSE

-----------------------------------------------------------------------------
(* Threads and lists.                                                      *)

On(l, t) == \E i \in 1 .. Len(l) : l[i] = t

Without(l, t) ==
    IF ~On(l, t) THEN l
    ELSE LET n == CHOOSE i \in 1 .. Len(l) : l[i] = t
         IN  [i \in 1 .. Len(l) - 1 |-> IF i < n THEN l[i] ELSE l[i + 1]]

\* the most urgent of the ready threads
Best(susp, p) ==
    {t \in Thread : ~susp[t] /\ \A u \in Thread : ~susp[u] => p[t] <= p[u]}

\* rt_schedule, once the priorities are p and the rest of the step is done
Schedule(p) ==
    LET best == Best(suspended', p) IN
    /\ prio' = p
    /\ cur' \in IF best = {} THEN {None} ELSE IF cur \in best THEN {cur} ELSE best
    /\ stale' = FALSE

\* Mutant: the list of a priority-ordered object is kept in order of arrival.
InsertLast(o, t) == Append(list[o], t)

\* rt_ipc_list_suspend's place for thread t in the list of o
Insert(o, t) ==
    LET l    == list[o]
        less == {i \in 1 .. Len(l) : o \notin Fifo /\ prio[t] < prio[l[i]]}
        n    == IF less = {} THEN Len(l) + 1
                ELSE CHOOSE i \in less : \A j \in less : i <= j
    IN  [i \in 1 .. Len(l) + 1 |->
            IF i < n THEN l[i] ELSE IF i = n THEN t ELSE l[i - 1]]

\* rt_ipc_list_suspend of the current thread, and its thread timer
Suspend(o, time) ==
    /\ list' = [list EXCEPT ![o] = Insert(o, cur)]
    /\ suspended' = [suspended EXCEPT ![cur] = TRUE]
    /\ timer' = [timer EXCEPT ![cur] = (time = "some")]
    /\ call' = [call EXCEPT ![cur] = o]

\* rt_ipc_list_resume: rt_thread_resume of the first thread, t
Resume(o, t) ==
    /\ list' = [list EXCEPT ![o] = Without(@, t)]
    /\ suspended' = [suspended EXCEPT ![t] = FALSE]
    /\ timer' = [timer EXCEPT ![t] = FALSE]
    /\ granted' = granted \cup {t}

Runs == cur # None /\ call[cur] = None

-----------------------------------------------------------------------------
(* Semaphores.                                                             *)

\* rt_sem_take; without a waiting time one that has to wait changes nothing
SemTake(s, time) ==
    /\ Runs
    /\ \/ /\ value[s] > 0
          /\ value' = [value EXCEPT ![s] = @ - 1]
          /\ UNCHANGED <<cur, stale, threadVars, list>>
       \/ /\ value[s] = 0
          /\ error' = [error EXCEPT ![cur] = "ok"]
          /\ Suspend(s, time)
          /\ Schedule(prio)
          /\ UNCHANGED value
    /\ UNCHANGED <<mutexVars, history>>

\* Mutant: rt_schedule is not called.
SemReleaseSilent(s) ==
    /\ \/ /\ list[s] # << >>
          /\ Resume(s, list[s][1])
          /\ UNCHANGED <<cur, stale, prio, value>>
       \/ /\ list[s] = << >> /\ value[s] < SemMax
          /\ value' = [value EXCEPT ![s] = @ + 1]
          /\ UNCHANGED <<cur, stale, prio, list, suspended, timer, granted>>
    /\ UNCHANGED <<error, call, mutexVars, owned, nested>>

\* rt_sem_release, by a thread or in an interrupt
SemRelease(s) ==
    /\ \/ /\ list[s] # << >>
          /\ Resume(s, list[s][1])
          /\ Schedule(prio)
          /\ UNCHANGED value
       \/ /\ list[s] = << >> /\ value[s] < SemMax
          /\ value' = [value EXCEPT ![s] = @ + 1]
          /\ UNCHANGED <<cur, stale, prio, list, suspended, timer, granted>>
    /\ UNCHANGED <<error, call, mutexVars, owned, nested>>

\* rt_sem_control(RESET): every waiter returns with -RT_ERROR
SemReset(s) ==
    LET w == {t \in Thread : On(list[s], t)} IN
    /\ Runs
    /\ list' = [list EXCEPT ![s] = << >>]
    /\ error' = [t \in Thread |-> IF t \in w THEN "error" ELSE error[t]]
    /\ suspended' = [t \in Thread |-> suspended[t] /\ t \notin w]
    /\ timer' = [t \in Thread |-> timer[t] /\ t \notin w]
    /\ value' = [value EXCEPT ![s] = SemInit]
    /\ Schedule(prio)
    /\ UNCHANGED <<call, mutexVars, history>>

-----------------------------------------------------------------------------
(* Mutexes.                                                                *)

\* rt_mutex_take by the owner
TakeAgain(m) ==
    /\ Runs /\ owner[m] = cur /\ hold[m] < HoldMax
    /\ hold' = [hold EXCEPT ![m] = @ + 1]
    /\ UNCHANGED <<cur, threadVars, value, list, owner, original, history, stale>>

\* the mutexes thread t has
Others(t) == {m \in Mutex : owner[m] = t}

\* m and those are nested if the current thread has one and asks for m too
Nested(m) ==
    IF Others(cur) = {} THEN nested ELSE nested \cup Others(cur) \cup {m}

\* rt_mutex_take of a mutex that is available
TakeFree(m) ==
    /\ Runs /\ value[m] > 0
    /\ value' = [value EXCEPT ![m] = @ - 1]
    /\ owner' = [owner EXCEPT ![m] = cur]
    /\ original' = [original EXCEPT ![m] = prio[cur]]
    /\ hold' = [hold EXCEPT ![m] = @ + 1]
    /\ owned' = [owned EXCEPT ![cur] = Append(@, m)]
    /\ nested' = Nested(m)
    /\ UNCHANGED <<cur, threadVars, list, granted, stale>>

\* rt_mutex_take of another thread's mutex: the owner inherits the priority
\* of a more urgent thread, which waits
TakeWait(m, time) ==
    /\ Runs /\ owner[m] # cur /\ value[m] = 0
    /\ error' = [error EXCEPT ![cur] = "ok"]
    /\ Suspend(m, time)
    /\ Schedule(IF prio[cur] < prio[owner[m]]
                THEN [prio EXCEPT ![owner[m]] = prio[cur]] ELSE prio)
    /\ nested' = Nested(m)
    /\ UNCHANGED <<value, mutexVars, granted, owned>>

\* rt_mutex_take and rt_sem_take when the thread runs again: they return
\* thread->error
TakeReturn ==
    /\ cur # None /\ call[cur] # None
    /\ call' = [call EXCEPT ![cur] = None]
    /\ error' = [error EXCEPT ![cur] = "ok"]
    /\ granted' = granted \ {cur}
    /\ UNCHANGED <<cur, prio, suspended, timer, value, list, mutexVars,
                   owned, nested, stale>>

\* rt_mutex_release, but not the last one
ReleaseOne(m) ==
    /\ Runs /\ owner[m] = cur /\ hold[m] > 1
    /\ hold' = [hold EXCEPT ![m] = @ - 1]
    /\ UNCHANGED <<cur, threadVars, value, list, owner, original, history, stale>>

\* the last release of m by the current thread, to t if any
Disown(m, t) ==
    /\ owned' = [u \in Thread |-> IF u = cur THEN Without(owned[u], m)
                                  ELSE IF u = t THEN Append(owned[u], m)
                                  ELSE owned[u]]
    /\ InOrder => owned[cur][Len(owned[cur])] = m

\* Mutant: the priority is not restored.
ReleaseFreePlain(m) ==
    /\ Runs /\ owner[m] = cur /\ hold[m] = 1 /\ list[m] = << >>
    /\ hold' = [hold EXCEPT ![m] = 0]
    /\ value' = [value EXCEPT ![m] = @ + 1]
    /\ owner' = [owner EXCEPT ![m] = None]
    /\ original' = [original EXCEPT ![m] = NoPrio]
    /\ Disown(m, None)
    /\ nested' = nested \ {m}
    /\ UNCHANGED <<cur, threadVars, list, granted, stale>>

\* rt_mutex_release of a mutex nobody waits for: the original priority comes
\* back, but rt_schedule is not called
ReleaseFree(m) ==
    /\ Runs /\ owner[m] = cur /\ hold[m] = 1 /\ list[m] = << >>
    /\ hold' = [hold EXCEPT ![m] = 0]
    /\ prio' = [prio EXCEPT ![cur] = original[m]]
    /\ value' = [value EXCEPT ![m] = @ + 1]
    /\ owner' = [owner EXCEPT ![m] = None]
    /\ original' = [original EXCEPT ![m] = NoPrio]
    /\ Disown(m, None)
    /\ nested' = nested \ {m}
    /\ stale' = (cur \notin Best(suspended, prio'))
    /\ UNCHANGED <<cur, error, suspended, timer, call, list, granted>>

\* Mutant: the owner is set, but not the hold count.
ReleaseToPlain(m) ==
    LET t == list[m][1] IN
    /\ Runs /\ owner[m] = cur /\ hold[m] = 1 /\ list[m] # << >>
    /\ owner' = [owner EXCEPT ![m] = t]
    /\ original' = [original EXCEPT ![m] = prio[t]]
    /\ hold' = [hold EXCEPT ![m] = 0]
    /\ Resume(m, t)
    /\ Disown(m, t)
    /\ Schedule([prio EXCEPT ![cur] = original[m]])
    /\ UNCHANGED <<error, call, value, nested>>

\* rt_mutex_release of a mutex others wait for: the first waiter is its new
\* owner before it runs; in order of arrival, it inherits from those behind
ReleaseTo(m) ==
    LET t   == list[m][1]
        top == CHOOSE p \in {prio[list[m][i]] : i \in 1 .. Len(list[m])} :
                   \A i \in 1 .. Len(list[m]) : p <= prio[list[m][i]]
    IN
    /\ Runs /\ owner[m] = cur /\ hold[m] = 1 /\ list[m] # << >>
    /\ owner' = [owner EXCEPT ![m] = t]
    /\ original' = [original EXCEPT ![m] = prio[t]]
    /\ UNCHANGED hold
    /\ Resume(m, t)
    /\ Disown(m, t)
    /\ Schedule([prio EXCEPT ![cur] = original[m],
                            ![t] = IF m \in Fifo THEN top ELSE @])
    /\ UNCHANGED <<error, call, value, nested>>

-----------------------------------------------------------------------------
(* Everything else a thread or the tick does.                              *)

\* rt_thread_sleep
Sleep ==
    /\ Runs
    /\ suspended' = [suspended EXCEPT ![cur] = TRUE]
    /\ timer' = [timer EXCEPT ![cur] = TRUE]
    /\ Schedule(prio)
    /\ UNCHANGED <<error, call, value, list, mutexVars, history>>

\* Mutant: the thread stays on the list of the object it waited for.
TimeoutKeepsList(t) ==
    /\ timer[t]
    /\ timer' = [timer EXCEPT ![t] = FALSE]
    /\ error' = [error EXCEPT ![t] = IF call[t] = None THEN "ok" ELSE "timeout"]
    /\ suspended' = [suspended EXCEPT ![t] = FALSE]
    /\ Schedule(prio)
    /\ UNCHANGED <<call, value, list, mutexVars, history>>

\* rt_thread_timeout, in the tick interrupt; rt_thread_sleep clears the error
Timeout(t) ==
    /\ timer[t]
    /\ timer' = [timer EXCEPT ![t] = FALSE]
    /\ error' = [error EXCEPT ![t] = IF call[t] = None THEN "ok" ELSE "timeout"]
    /\ list' = [o \in Object |-> Without(list[o], t)]
    /\ suspended' = [suspended EXCEPT ![t] = FALSE]
    /\ Schedule(prio)
    /\ UNCHANGED <<call, value, mutexVars, history>>

\* the end of a time slice: rt_schedule, and a peer may follow
Yield ==
    /\ cur # None
    /\ cur' \in Best(suspended, prio)
    /\ stale' = FALSE
    /\ UNCHANGED <<threadVars, value, list, mutexVars, history>>

Next ==
    \/ \E m \in Mutex, time \in Times : TakeWait(m, time)
    \/ \E m \in Mutex : \/ TakeAgain(m) \/ TakeFree(m)
                        \/ ReleaseOne(m) \/ ReleaseFree(m) \/ ReleaseTo(m)
    \/ \E s \in Sem : \/ SemRelease(s) \/ SemReset(s)
                      \/ \E time \in Times : SemTake(s, time)
    \/ TakeReturn \/ Sleep \/ Yield \/ \E t \in Thread : Timeout(t)

Spec == Init /\ [][Next]_vars

-----------------------------------------------------------------------------
(* Properties.                                                             *)

Error == {"ok", "timeout", "error"}

\* Every variable keeps its type; no counter passes its limit.
TypeOK ==
    /\ cur \in Thread \cup {None}
    /\ prio \in [Thread -> Nat] /\ error \in [Thread -> Error]
    /\ suspended \in [Thread -> BOOLEAN] /\ timer \in [Thread -> BOOLEAN]
    /\ call \in [Thread -> Object \cup {None}]
    /\ value \in [Object -> 0 .. SemMax \cup {1}]
    /\ list \in [Object -> Seq(Thread)]
    /\ owner \in [Mutex -> Thread \cup {None}] /\ hold \in [Mutex -> 0 .. HoldMax]
    /\ original \in [Mutex -> Nat \cup {NoPrio}]
    /\ granted \subseteq Thread /\ owned \in [Thread -> Seq(Mutex)]
    /\ nested \subseteq Mutex /\ stale \in BOOLEAN

\* A suspended thread is on the list of the one object it waits for and on
\* no other; nobody waits for what is available; a mutex is available iff
\* it has no owner and no holds. A thread timer runs only while its thread
\* is suspended, which rt_thread_timeout asserts. Hold counts and values keep
\* their limits (TypeOK).
WaitersExact ==
    /\ TypeOK
    /\ \A t \in Thread : timer[t] => suspended[t]
    /\ \A t \in Thread, o \in Object :
           On(list[o], t) <=> suspended[t] /\ call[t] = o
    /\ \A o \in Object : value[o] > 0 => list[o] = << >>
    /\ \A m \in Mutex : /\ value[m] = 1 <=> owner[m] = None
                        /\ value[m] = 1 <=> hold[m] = 0

\* A take that waited returns RT_EOK iff a release granted it, however close
\* the timeout came, and then the mutex is its own; one that failed leaves
\* nothing behind.
TakeReturnsTruth ==
    /\ \A t \in Thread : call[t] # None /\ ~suspended[t] =>
           /\ (error[t] = "ok") <=> (t \in granted)
           /\ call[t] \in Mutex => ((t \in granted) <=> (owner[call[t]] = t))
    /\ \A m \in Mutex : owner[m] # None => On(owned[owner[m]], m)

\* The owner of a mutex is at least as urgent as every thread that waits for
\* it, through timeouts and hand-overs, unless owner or waiters have had
\* other mutexes at the same time.
OwnerInherits ==
    \A m \in Mutex \ nested :
        \A i \in 1 .. Len(list[m]) : prio[owner[m]] <= prio[list[m][i]]

\* A thread that owns nothing is back at its own priority, whoever lent it
\* another one, if mutexes are released in the reverse order.
PriorityComesBack ==
    InOrder => \A t \in Thread : Others(t) = {} => prio[t] = Base[t]

\* No ready thread is more urgent than the running one, except after a
\* release that lowered a priority without rt_schedule.
MostUrgentRuns ==
    ~stale /\ Best(suspended, prio) # {} => cur \in Best(suspended, prio)
=============================================================================
