SPECIFICATION FairSpec
CONSTANTS
    BUFFER_SIZE = 2
    NUM_PRODUCERS = 2
    NUM_CONSUMERS = 3
    NUM_ITEMS = 2
    Items = {0, 1}
    MaxSpurious = 2
INVARIANTS NoLostWakeup OwnNumber
PROPERTIES ImplementsQueue Termination
