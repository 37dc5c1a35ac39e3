SPECIFICATION FairSpec
CONSTANTS
    h = h
    s1 = s1
    s2 = s2
    thread = thread
    None = none
    Timer <- MCTimer
    Soft <- MCSoft
    ThreadTimer = thread
    M = 10
    Inits = {1, 2}
    MaxLate = 2
    MaxSlip = 1
INVARIANTS FlagsExact ListsSorted NoOversleep
PROPERTIES FiresOnTime SoftFires
