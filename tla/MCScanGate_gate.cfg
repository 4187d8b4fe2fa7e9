\* Two scans of one ticket, while the organiser edits days, tickets and agents, and
\* one thing goes wrong.
SPECIFICATION Spec
CONSTANTS
    t1 = t1
    i1 = i1
    u1 = u1
    k1 = k1
    a1 = a1
    s1 = s1
    s2 = s2
    Null = Null
    Dates = {1, 2, 3}
    LastDate = 2
    DayLists <- ShiftedWeekend
    Tickets = {t1}
    Items = {i1}
    Updates = {u1}
    Creations = {k1}
    Agents = {a1}
    Scans = {s1, s2}
    Troubles = 1
CHECK_DEADLOCK FALSE
SYMMETRY GateSymmetry
INVARIANTS
    TypeOK
    OneEntryPerTicket
    SoldTicketOpensADay
    JournalIsTraceable
    RefusedOnlyIfUsed
PROPERTIES
    PolicyIsLocked
