SPECIFICATION FairSpec
CONSTANTS
    o1 = o1
    o2 = o2
    Openers = {o1}
    MaxStreams = 1
    WriterCap = 2
    NetCap = 1
    BatchMax = 2
    Misses = 1
    Uses <- WriterUses
PROPERTY WriterEnds
CHECK_DEADLOCK FALSE
