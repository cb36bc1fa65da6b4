SPECIFICATION FairSpec
CONSTANTS
    N = 4
    EarlyCtrlC = TRUE
    ForkMayFail = TRUE
INVARIANTS
    CleanShutdown
    StraySignals
PROPERTIES
    NoSurvivors
    CleanupEnds
\* The program ends.
CHECK_DEADLOCK FALSE
