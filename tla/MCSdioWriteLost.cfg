SPECIFICATION Spec
CONSTANTS
    MaxBlks = 2
    StatusTries = 2
    MaxReqs = 1
    MaxLateReqs = 1
INVARIANTS BlkOkMeansDone
CHECK_DEADLOCK FALSE
