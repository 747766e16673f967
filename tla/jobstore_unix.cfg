CONSTANTS
    Registrar = reg
    Executors = {e1, e2}
    TimedRun = e1
    Removers = {r1, r2}
    Listers = {}
    NoOne = nobody
    WaitsForLock = TRUE
    Mortals <- AnyWriter
    DiskFails = TRUE

SPECIFICATION Spec
INVARIANTS TypeOK OnceOnly TaskHasPayload
PROPERTIES CancelExcludesStart RunningJobKept SuccessMeansArmed KeepsPromise
\* Once every process has ended nothing more happens.
CHECK_DEADLOCK FALSE
