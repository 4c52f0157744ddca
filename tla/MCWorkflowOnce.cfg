SPECIFICATION Spec
CONSTANTS
    w1 = w1
    w2 = w2
    tdi = tdi
    acme = acme
    price = price
    spread = spread
    NoIndicator = NoIndicator
    Workers = {w1, w2}
    Goals <- TwoGoals
    Topic <- TwoEvents
    FirstOwner = w1
    Deletable = {tdi}
    Editable <- PriceOfTdi
    MaxUnlinks = 1
    Entities <- MCEntities
    MaxFaults = 1
INVARIANT OneRunPerEvent
CHECK_DEADLOCK FALSE
