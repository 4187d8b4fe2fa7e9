\* No fault: only a webhook that overlaps an expiry pass.
SPECIFICATION Spec
CONSTANTS
    o1 = o1
    o2 = o2
    t1 = t1
    r1 = r1
    r2 = r2
    Null = Null
    Orders = {o1, o2}
    Tickets <- OneTicket
    Stock <- StockOfOne
    MaxQuantity = 1
    Carts <- SingleSeat
    Refs = {r1, r2}
    Providers = {"KKIAPAY"}
    Chatty = {}
    MaxCopies = 1
    Faults = {}
CHECK_DEADLOCK FALSE
INVARIANTS
    NoSeatSoldTwice
