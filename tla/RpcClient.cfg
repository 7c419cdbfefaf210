SPECIFICATION FairSpec
CONSTANTS
    Call = {c1, c2}
    MaxAttempts = 2
    MaxBeats = 1
INVARIANTS OneLoop SentOnce KeepsTrying
PROPERTIES CallsFinish
CHECK_DEADLOCK FALSE
