SPECIFICATION FairSpec
CONSTANTS
    W = 3
    Parts = 2
    Times = {2, 5}
    Cycles = {0, 1, 2}
    Divs = {1, 2}
    MaxOverflow = 4
INVARIANTS CountsTime CallsExact WrittenRuns ReadWithinPeriod
PROPERTY TimesOut
