SPECIFICATION FairPoolSpec
CONSTANTS
    Waiter = {w1, w2}
    Stopper = {s1}
    Object = {o1}
    None = None
INVARIANT StopReleasesObjects
 
CHECK_DEADLOCK FALSE
