SPECIFICATION Spec
CONSTANTS
    RxWindow = 2
    RxWindowMax = 5
    ChunkMax = 4
    MaxData = 2
INVARIANTS
    TypeOK
    Conservation
    FlightBound
    NeverWedged
CHECK_DEADLOCK FALSE
