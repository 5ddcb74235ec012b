CONSTANTS
    MaxConns = 2
    MaxSent = 2
    MaxUp = 1
    Strangers = {}
    EagerClient = TRUE
SPECIFICATION Spec
INVARIANT
    NoPacketLost
CHECK_DEADLOCK FALSE
