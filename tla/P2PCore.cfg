SPECIFICATION Spec
CONSTANTS
    MaxId = 2
    MaxFd = 3
    MaxBacklog = 1
    Ops <- AllOps
    Addrs <- MCAddrs
    SelfAddrs <- MCSelfAddrs
    Incoming <- MCIncoming
    HastyUser = FALSE
INVARIANTS
    ReaderNodeLive
    LifeInv
    ActiveOwnsFd
    ForeignReadOnlyWhileJoined
    OnlyKnownStaleReads
    LostOnlyByReaper
PROPERTIES
    ImplementsLifecycle
\* The process may end, by exit or by a fatal signal.
CHECK_DEADLOCK FALSE
