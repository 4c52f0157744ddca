SPECIFICATION FairSpec
CONSTANTS
    Messages = 5
    Modes = {"backpressure"}
    MaxRetries = 2
    FailureThreshold = 2
    MaxFaults = 0
PROPERTY PauseEnds
CHECK_DEADLOCK FALSE
