SPECIFICATION FairSpec
CONSTANTS
    MaxBlks = 2
    StatusTries = 2
    MaxReqs = 2
    MaxLateReqs = 1
INVARIANTS RequestOkMeansDone NoStaleEvent
PROPERTY RequestReturns
CHECK_DEADLOCK FALSE
