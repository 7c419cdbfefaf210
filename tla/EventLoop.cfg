SPECIFICATION LoopFairSpec
CONSTANTS
    Session = {s1}
    Interval = {1}
    Shift = {1}
    Dispatcher = {loop}
    MaxTime = 2
    MaxTimeout = 2
    Poster = {p1}
    IdleWait = 1
    TickLimit = 2
    MaxQueue = 2
INVARIANT QueueMatchesSessions
PROPERTY FiresOnlyWhenDue
PROPERTY ExitEndsLoop
PROPERTY TimersNotStarved
CHECK_DEADLOCK FALSE
