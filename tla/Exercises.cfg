SPECIFICATION FairSpec
CONSTANTS
    EchoServers = {1, 2}
    EchoClients = {1, 2}
    MaxUnits = 3
    DgramServers = {1, 2}
    DgramClients = {1, 2}
    MaxLines = 2
    Workers = {1, 2}
    Dispatchers = {1, 2}
    MaxMsg = 1
    NUMBER_DATAS = 3
    Values = {1, 2}
    MaxWakeups = 2
    Writers = {1, 2}
    Readers = {3, 4}
    Increment = 2
    Initial = 5
    Lines = 3
    PipeSize = 2
    MaxTime = 2
    MaxRaised = 4
    MaxTyped = 2
    Makers = {1, 2}
    Buyers = {1, 2}
INVARIANTS
    StreamEchoes
    QueueFoundUnlessRemoved
    TotalsAreRight
    SigStuckOnlyAfterMiss
    MemoryReadsOneProduct
PROPERTIES
    StreamStartsUnlessHeld
    DgramAnswerIsOwn
    CondHandsOver
    RequestsAreServed
    ProgramsEnd
\* Programs end, and servers wait.
CHECK_DEADLOCK FALSE
