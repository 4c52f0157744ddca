SPECIFICATION FairSpec
CONSTANTS
    i1 = i1
    i2 = i2
    a = a
    b = b
    Nobody = Nobody
    Instances = {i1, i2}
    FirstOwner = i1
    Pages <- ThreePages
    MaxFaults = 2
INVARIANTS
    TypeOK
    CachedIsStored
    DeliveryBounded
PROPERTIES
    EventuallyDrained
CHECK_DEADLOCK FALSE
