SPECIFICATION Spec
CONSTANTS
    Ends = {"a", "b"}
    RxWindow = 2
    RxWindowMax = 2
    Threshold = 2
    ChunkMax = 2
    MaxData = 2
    InboundQueue = 1
    LinkCap = 1
    Budget <- OneWay
    Faults <- AllFaults
    MaxFaults = 1
CHECK_DEADLOCK FALSE
INVARIANT
    EofIsComplete
