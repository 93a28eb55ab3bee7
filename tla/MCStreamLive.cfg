SPECIFICATION FairSpec
CONSTANTS
    Ends = {"a", "b"}
    RxWindow = 1
    RxWindowMax = 2
    Threshold = 2
    ChunkMax = 2
    MaxData = 1
    InboundQueue = 1
    LinkCap = 1
    Budget <- OneWayShort
    Faults <- EarlyDrop
    MaxFaults = 1
CHECK_DEADLOCK FALSE
PROPERTY
    ImplementsLedger
    EventuallyDelivered
