SPECIFICATION FairSpec
CONSTANTS
    a = a
    b = b
    End <- MCEnd
    Other <- MCOther
    Sizes <- MCSizes
    Mss = 2
    SndWnd = 2
    RcvWnd = 2
    RmtWnd = 2
    FastResend = 1
    FastLimit = 1
    DeadLink = 3
    MaxNet = 2
    MaxProbes <- MCMaxProbes
    FrgMod = 256
INVARIANT BuffersBounded
INVARIANT AckedIsHeld
PROPERTY ImplementsChannel
PROPERTY SentArrives
CHECK_DEADLOCK FALSE
