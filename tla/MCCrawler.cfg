SPECIFICATION FairSpec
CONSTANTS
    i1 = i1
    i2 = i2
    w1 = w1
    j1 = j1
    j2 = j2
    good = good
    bad = bad
    Instances = {i1, i2}
    FirstOwner = i1
    Nobody = Nobody
    Workers = {w1}
    Jobs = {j1, j2}
    UrlsOf <- Posts
    Invalid = {bad}
    MaxFaults = 1
INVARIANTS
    TypeOK
    DeliveryBounded
PROPERTIES
    EventuallyQuiet
CHECK_DEADLOCK FALSE
