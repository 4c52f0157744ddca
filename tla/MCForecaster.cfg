SPECIFICATION FairSpec
CONSTANTS
    g1 = g1
    g2 = g2
    spot = spot
    hedge = hedge
    Goals = {g1, g2}
    Indicators = {spot, hedge}
    Linkable <- MayLink
    MinReadings = 2
    MaxReadings = 4
    MaxFaults = 2
INVARIANTS
    TypeOK
PROPERTIES
    ForecastGrounded
    EventuallyCurrent
CHECK_DEADLOCK FALSE
