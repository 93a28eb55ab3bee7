CONSTANTS
    Conns = {t, w}
    Tunnel = t
    MaxUnauth = 1
    MaxInits = 2
    Sources = {"app", "stray"}
    MaxGrams = 2
    Scenes <- MCScenes
SPECIFICATION Spec
PROPERTIES BridgeGone
CHECK_DEADLOCK FALSE
