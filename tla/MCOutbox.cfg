SPECIFICATION FairSpec
CONSTANTS
    r1 = r1
    r2 = r2
    r3 = r3
    g1 = g1
    g2 = g2
    Requests = {r1, r2, r3}
    Gateways = {g1, g2}
    Host <- MCHost
    Limit = 2
    Lossy <- Unacknowledged
    Oversized <- TooLarge
    MaxFaults = 1
INVARIANTS
    TypeOK
    NoPhantom
    MarkedReachedTopic
    DuplicatesBounded
PROPERTIES
    ImplementsFeed
    EventReachesTopic
CHECK_DEADLOCK FALSE
