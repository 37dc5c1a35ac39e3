SPECIFICATION FairSpec
CONSTANTS
    idle = idle
    a = a
    b = b
    urgent = urgent
    Nobody = nobody
    Idle = idle
    Thread <- MCThread
    Prio <- MCPrio
    Slice = 2
    MaxLock = 1
INVARIANTS ContextsOwn ReadyListsExact MostUrgentRuns
PROPERTY PeersTakeTurns
