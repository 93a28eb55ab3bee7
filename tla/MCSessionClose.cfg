SPECIFICATION FairSpec
CONSTANTS
    o1 = o1
    o2 = o2
    Openers = {o1}
    MaxStreams = 1
    WriterCap = 2
    NetCap = 1
    BatchMax = 2
    Misses = 0
    Uses <- ClosingUses
PROPERTY PeerLearns
CHECK_DEADLOCK FALSE
