\* agent-at exits.
CHECK_DEADLOCK FALSE

CONSTANTS Due = 4  Second = 2  Horizon = 5  MaxJumps = 1
SPECIFICATION FairSpec
INVARIANTS GroupEnded KilledOnce OutcomeTrue ConsoleRestored AnswerTrue
PROPERTIES LaunchedInTime TempDirRemoved CancelledStartsNothing TempDirLast WakeEnds ParentAnswered
