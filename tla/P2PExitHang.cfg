SPECIFICATION FairSpec
CONSTANTS
    MaxId = 2
    MaxFd = 2
    MaxBacklog = 1
    Ops <- AllOps
    Addrs <- MCAddrs
    SelfAddrs <- MCSelfAddrs
    Incoming <- MCIncoming
    HastyUser = FALSE
PROPERTIES
    ExitCompletes
\* The process may end, by exit or by a fatal signal.
CHECK_DEADLOCK FALSE
