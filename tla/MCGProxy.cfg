CONSTANTS
    MaxConns = 3
    MaxSent = 2
    MaxUp = 2
    Strangers = {2}
    EagerClient = FALSE
SPECIFICATION FairSpec
INVARIANTS
    TypeOK
    BufferIsTheTail
    NothingDiscardedEarly
    StreamsAreReliable
PROPERTIES
    ImplementsStream
    ReconnectionWorks
CHECK_DEADLOCK FALSE
