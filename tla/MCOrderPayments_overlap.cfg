\* Every interleaving of the handlers of one order.
SPECIFICATION FairSpec
CONSTANTS
    o1 = o1
    o2 = o2
    t1 = t1
    r1 = r1
    r2 = r2
    Null = Null
    Orders = {o1}
    Tickets <- OneTicket
    Stock <- StockOfTwo
    MaxQuantity = 1
    Carts <- SingleSeat
    Refs = {r1, r2}
    Providers = {"KKIAPAY", "CINETPAY", "FEDAPAY", "STRIPE", "PAYPAL"}
    Chatty = {"FEDAPAY", "STRIPE"}
    MaxCopies = 2
    Faults = {"init", "crash", "verification", "expiry"}
CHECK_DEADLOCK FALSE
INVARIANTS
    TypeOK
    OneDeliveryPastGate
    TicketIsBacked
    OrphanAuditIsFounded
PROPERTIES
    PendingIsClosed
    ExpiryNeverTakesTicket
    MoneyIsAccountedFor
    OnlyLateWritesHarm
