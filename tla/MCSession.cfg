SPECIFICATION Spec
CONSTANTS
    o1 = o1
    o2 = o2
    Openers = {o1, o2}
    MaxStreams = 1
    WriterCap = 2
    NetCap = 1
    BatchMax = 2
    Misses = 0
    Uses <- SafetyUses
INVARIANT AckHonest
INVARIANT ServerLimit
INVARIANT NoProtocolError
INVARIANT HandlersTold
INVARIANT WaitClosedResolves
CHECK_DEADLOCK FALSE
