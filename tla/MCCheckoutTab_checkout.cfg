\* Two clicks of one buyer, under every regime.
SPECIFICATION FairSpec
CONSTANTS
    None = None
    c1 = c1
    c2 = c2
    o1 = o1
    o2 = o2
    o3 = o3
    Clicks = {c1, c2}
    Orders = {o1, o2, o3}
    Regimes <- AllRegimes
    MaxReloads = 1
    MaxTicks = 2
CHECK_DEADLOCK FALSE
INVARIANTS
    TypeOK
    OneOrderPerClick
    SuccessIsPaid

    
