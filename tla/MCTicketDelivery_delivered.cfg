\* An order of two seats, from its payment to the buyer's notification.
SPECIFICATION FairDelivery
CONSTANTS
    o1 = o1
    t1 = t1
    r1 = r1
    b1 = b1
    b2 = b2
    b3 = b3
    Null = Null
    Orders = {o1}
    Tickets <- OneTicket
    Stock <- StockOfTwo
    MaxQuantity = 2
    Carts <- TwoSeats
    Refs = {r1}
    Providers = {"STRIPE"}
    Chatty = {}
    MaxCopies = 1
    Faults = {}
    Slots = 3
    Attempts = 2
    Browsers = {b1, b2, b3}
    WorkerFaults = {"browser", "throw", "worker"}
CHECK_DEADLOCK FALSE
INVARIANTS
    DeliveryTypeOK
    ReadyOrdersAreTold
PROPERTIES
    BuyerIsTold
