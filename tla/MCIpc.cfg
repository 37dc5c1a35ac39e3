SPECIFICATION Spec
CONSTANTS
    low = low
    mid = mid
    high = high
    pm = pm
    fm = fm
    s = s
    None = none
    Thread <- MCThread
    Mutex <- MCMutex
    Sem <- MCSem
    Base <- MCBase
    Fifo <- MCFifo
    SemInit = 0
    SemMax = 1
    HoldMax = 2
    InOrder = TRUE
    Times = {"some", "ever"}
INVARIANTS WaitersExact TakeReturnsTruth OwnerInherits PriorityComesBack MostUrgentRuns
CHECK_DEADLOCK FALSE
