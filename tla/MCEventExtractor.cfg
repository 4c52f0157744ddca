SPECIFICATION FairSpec
CONSTANTS
    g1 = g1
    g2 = g2
    spot = spot
    spread = spread
    Urls = {u1, u2}
    Mentions = {u1, u2}
    Linkable <- MayLink
    Limit = 2
    MaxFaults = 1
INVARIANTS
    TypeOK
    OnlyLateSkipped
    TellingBounded
PROPERTIES
    EventuallyScanned
CHECK_DEADLOCK FALSE
