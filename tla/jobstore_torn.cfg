CONSTANTS
    Registrar = reg
    Executors = {e1, e2}
    TimedRun = e1
    Removers = {r1}
    Listers = {}
    NoOne = nobody
    WaitsForLock = TRUE
    Mortals <- OnlyRemovers
    DiskFails = FALSE

SPECIFICATION Spec
PROPERTIES CancellationRetained
\* Once every process has ended nothing more happens.
CHECK_DEADLOCK FALSE
