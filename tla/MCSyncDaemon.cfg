CONSTANTS
    Sessions = {s1, s2}
    LocalCap = 1
    HubCap = 1
    BackoffCap = 2
    MaxTunnels = 2
    Budgets <- TwoChanges
SPECIFICATION Spec
INVARIANTS ActiveCount LocalWakeup
PROPERTIES RemoteChangesReach LocalChangesReach
