SPECIFICATION Spec
CONSTANTS
    Ends = {"a", "b"}
    RxWindow = 3
    RxWindowMax = 3
    Threshold = 1
    ChunkMax = 3
    MaxData = 1
    InboundQueue = 1
    LinkCap = 1
    Budget <- BothWays
    Faults <- NoFaults
    MaxFaults = 1
CHECK_DEADLOCK FALSE
INVARIANT
    NoCircularWait
