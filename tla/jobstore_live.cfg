CONSTANTS
    Registrar = reg
    Executors = {e1}
    TimedRun = e1
    Removers = {r1, r2}
    Listers = {}
    NoOne = nobody
    WaitsForLock = TRUE
    Mortals <- AllButTimedRun
    DiskFails = FALSE

SPECIFICATION FairSpec
PROPERTIES RegisteredJobStarts
\* Once every process has ended nothing more happens.
CHECK_DEADLOCK FALSE
