\* Two guests, a phone, and the desk at the other door; three calls.
SPECIFICATION Spec
CONSTANTS
    g1 = g1
    g2 = g2
    p1 = p1
    Desk = Desk
    NoList = NoList
    Asked = Asked
    Guests = {g1, g2}
    Late = {g2}
    Phones = {p1}
    MaxCalls = 3
CHECK_DEADLOCK FALSE
INVARIANTS
    TypeOK
    MarksAreReal
PROPERTIES
    DoorsAgree
