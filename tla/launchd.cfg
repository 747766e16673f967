\* Once the job is removed and the clock at its bound, nothing is left to do.
CHECK_DEADLOCK FALSE
CONSTANTS
    SecondsPerMinute = 2
    MinutesPerYear = 2
    Horizon = 9
    Times = {3, 4}

SPECIFICATION FairSpec
INVARIANTS InItsTimeAndYear
PROPERTIES KeepsContract OthersKept Delivered RetriedRemovalFinishes
