SPECIFICATION FairSpec
CONSTANTS
    Messages = 4
    Modes <- AllModes
    MaxRetries = 2
    FailureThreshold = 2
    MaxFaults = 1
INVARIANTS
    TypeOK
    BreakerTracksStreak
    RowPerMessage
PROPERTIES
    NeverStalls
CHECK_DEADLOCK FALSE
