SPECIFICATION Spec
CONSTANTS
    Ends = {"a", "b"}
    RxWindow = 2
    RxWindowMax = 2
    Threshold = 2
    ChunkMax = 2
    MaxData = 1
    InboundQueue = 1
    LinkCap = 1
    Budget <- OneWayShort
    Faults <- AllFaults
    MaxFaults = 1
CHECK_DEADLOCK FALSE
INVARIANTS
    CreditBalance
    InOrder
    FinIsComplete
    RegisteredWhileNeeded
