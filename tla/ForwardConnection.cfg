SPECIFICATION Spec
CONSTANTS
    kMaxForwardCacheNums = 2
    BufferChunks = 2
    SpeedLimit = 1
    kMaxReconnectCnts = 2
    Preread = 1
    Tls = {TRUE, FALSE}
    MaxUp = 3
    MaxDown = 1
INVARIANTS NothingLostInside OneOperationEach
PROPERTIES SurvivingDirectionDelivers BothEndsTearDown
CHECK_DEADLOCK FALSE
