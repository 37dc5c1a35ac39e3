SPECIFICATION Spec
CONSTANTS
    b1 = b1
    b2 = b2
    Block <- MCBlock
    BlockSize = 4
    QueueSize = 4
    FrameSize = 2
    AubufSize = 4
    AubufLow = 2
    AppPrio = "equal"
    WriteSizes = {5, 7}
    IndexSize = 8
    DmaValues = {FALSE, TRUE}
    MaxWords = 12
    MaxSessions = 1
INVARIANTS TypeOK NoAubufOverflow FrameInFifo
PROPERTY RefinesReplayStream
CHECK_DEADLOCK FALSE
