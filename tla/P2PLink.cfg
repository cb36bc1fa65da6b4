SPECIFICATION FairSpec
CONSTANTS
    Buffer = 3
    Ops <- MCOps
    MaxSaid = 4
PROPERTIES
    ImplementsConversation
    SendReturns
    LeaveNoticed
\* Both processes may end.
CHECK_DEADLOCK FALSE
