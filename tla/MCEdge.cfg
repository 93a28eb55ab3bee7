CONSTANTS
    Conns = {t, w}
    Tunnel = t
    MaxUnauth = 1
    MaxInits = 2
    Sources = {"app", "stray"}
    MaxGrams = 2
    Scenes <- MCScenes
SPECIFICATION Spec
INVARIANTS SlotsExact ProvenFirst ThroughInOrder ReplyHonest RouteRight OneClient
PROPERTIES SlotsReturn BridgeEnds Answered Carried AssociationEnds
CHECK_DEADLOCK FALSE
