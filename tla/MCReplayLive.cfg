SPECIFICATION FairSpec
CONSTANTS
    b1 = b1
    b2 = b2
    Block <- MCBlock
    BlockSize = 2
    QueueSize = 4
    FrameSize = 1
    AubufSize = 1
    AubufLow = 0
    AppPrio = "equal"
    WriteSizes = {3}
    IndexSize = 4
    DmaValues = {FALSE, TRUE}
    MaxWords = 6
    MaxSessions = 1
PROPERTIES WriteReturns StopReturns QueuedIsHeard
CHECK_DEADLOCK FALSE
