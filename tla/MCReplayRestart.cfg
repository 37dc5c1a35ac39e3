SPECIFICATION FairSpec
CONSTANTS
    b1 = b1
    b2 = b2
    Block <- MCBlock
    BlockSize = 2
    QueueSize = 4
    FrameSize = 2
    AubufSize = 4
    AubufLow = 2
    AppPrio = "equal"
    WriteSizes = {1}
    IndexSize = 4
    DmaValues = {}
    MaxWords = 1
    MaxSessions = 2
PROPERTY StopReturns
CHECK_DEADLOCK FALSE
