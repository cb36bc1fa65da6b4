SPECIFICATION FairSpec
CONSTANTS
    MaxId = 2
    MaxFd = 2
    MaxBacklog = 1
    Ops <- FewOps
    Addrs <- MCRemoteOnly
    SelfAddrs <- MCNoAddr
    Incoming <- MCIncoming
    HastyUser = FALSE
PROPERTIES
    PeerLeaveNoticed
\* The process may end, by exit or by a fatal signal.
CHECK_DEADLOCK FALSE
