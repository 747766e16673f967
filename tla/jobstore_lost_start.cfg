CONSTANTS
    Registrar = reg
    Executors = {e1}
    TimedRun = e1
    Removers = {}
    Listers = {}
    NoOne = nobody
    WaitsForLock = FALSE
    Mortals <- Nobody
    DiskFails = FALSE

SPECIFICATION Spec
INVARIANTS TimedRunNotTurnedAway
\* Once every process has ended nothing more happens.
CHECK_DEADLOCK FALSE
