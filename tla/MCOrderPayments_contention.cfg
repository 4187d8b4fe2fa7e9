\* Two buyers and one seat; every interleaving up to the first late write.
SPECIFICATION TimelySpec
CONSTANTS
    o1 = o1
    o2 = o2
    t1 = t1
    r1 = r1
    r2 = r2
    Null = Null
    Orders = {o1, o2}
    Tickets <- OneTicket
    Stock <- StockOfOne
    MaxQuantity = 1
    Carts <- SingleSeat
    Refs = {r1, r2}
    Providers = {"KKIAPAY", "STRIPE"}
    Chatty = {}
    MaxCopies = 2
    Faults = {"init", "crash", "verification", "expiry"}
SYMMETRY OrderSymmetry
CHECK_DEADLOCK FALSE
INVARIANTS
    StockMatchesOrders
    NoSeatSoldTwice
    TicketMatchesStatus
PROPERTIES
    KeepsLedger
    PaidIsFinal
