SPECIFICATION Spec
CONSTANTS
    b1 = b1
    b2 = b2
    Block <- MCBlock
    BlockSize = 2
    QueueSize = 4
    FrameSize = 1
    AubufSize = 1
    AubufLow = 0
    AppPrio = "equal"
    WriteSizes = {3}
    IndexSize = 4
    DmaValues = {}
    MaxWords = 6
    MaxSessions = 2
INVARIANT OneOwner
CHECK_DEADLOCK FALSE
