SPECIFICATION Spec
CONSTANTS
    Ends = {"a", "b"}
    RxWindow = 2
    RxWindowMax = 2
    Threshold = 2
    ChunkMax = 2
    MaxData = 1
    InboundQueue = 1
    LinkCap = 2
    Budget <- OneWay
    Faults <- EarlyDrop
    MaxFaults = 1
CHECK_DEADLOCK FALSE
INVARIANT
    PumpCanEnd
