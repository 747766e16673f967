CONSTANTS
    Registrar = reg
    Executors = {e1}
    TimedRun = e1
    Removers = {r1, r2}
    Listers = {l1}
    NoOne = nobody
    WaitsForLock = FALSE
    Mortals <- AnyWriter
    DiskFails = TRUE

SPECIFICATION Spec
INVARIANTS UntouchedLineIsTrue
\* Once every process has ended nothing more happens.
CHECK_DEADLOCK FALSE
