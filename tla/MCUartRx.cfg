SPECIFICATION FairSpec
CONSTANTS
    a = a
    b = b
    NoChar = NoChar
    Char <- MCChar
    BufSz = 3
    SemMax = 2
INVARIANT ReaderNotStranded
PROPERTIES SleeperWakes RefinesCharFifo
