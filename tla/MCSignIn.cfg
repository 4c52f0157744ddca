SPECIFICATION FairSpec
CONSTANTS
    ann = ann
    bob = bob
    acme = acme
    l1 = l1
    l2 = l2
    Emails <- People
    DomainOf <- Companies
    Links <- Tokens
    AddressOf <- Recipients
    Requests = {r1, r2, r3}
    MaxFaults = 1
INVARIANTS
    TypeOK
    IdentityHolds
    ConflictExcused
PROPERTIES
    EveryRequestEnds
CHECK_DEADLOCK FALSE
