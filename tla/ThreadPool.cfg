SPECIFICATION FairSpec
CONSTANTS
    Task = {t1, t2}
    Delays = {0, 1}
    MinThreads = 1
    MaxThreads = 2
    MaxTime = 1
    MaxLate = 1
INVARIANTS EachTaskInOnePlace NothingRunsAfterJoin
PROPERTIES TasksRun BlockedCallsReturn
CHECK_DEADLOCK FALSE
