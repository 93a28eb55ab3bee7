SPECIFICATION Spec
CONSTANTS
    c1 = c1
    c2 = c2
    Clients = {c1}
    ServerMode = "bidir"
    Setups <- Disturbed
    Latency = 0
    Tolerance = 0
    MaxAge = 9
    MaxTime = 2
    MaxOps = 3
    MaxCrashes = 0
PROPERTY Converges
