SPECIFICATION FairSpec
CONSTANTS
    MaxMessages = 2
    Offered <- MCOffered
    MaxTurns = 2
    MaxCalls = 2
    MaxFaults = 2
INVARIANTS
    TypeOK
    HistoryComplete
    ToldIsDone
PROPERTIES
    EveryMessageAnswered
CHECK_DEADLOCK FALSE
