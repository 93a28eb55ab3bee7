SPECIFICATION Spec
CONSTANTS
    c1 = c1
    c2 = c2
    Clients = {c1, c2}
    ServerMode = "bidir"
    Setups <- Mixed
    Latency = 0
    Tolerance = 0
    MaxAge = 2
    MaxTime = 1
    MaxOps = 3
    MaxCrashes = 1
INVARIANTS OnlyUsersDelete
PROPERTIES NothingVanishes ConvergesOrStarves NewestSurvivesInPairs
