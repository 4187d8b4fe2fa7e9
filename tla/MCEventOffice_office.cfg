\* An organiser of two events at most, two providers, three calls.
SPECIFICATION Spec
CONSTANTS
    e1 = e1
    e2 = e2
    e3 = e3
    p1 = p1
    p2 = p2
    r1 = r1
    r2 = r2
    r3 = r3
    None = None
    Events = {e1, e2, e3}
    First = e1
    Providers = {p1, p2}
    Requests = {r1, r2, r3}
    Quota = 2
SYMMETRY OfficeSymmetry
CHECK_DEADLOCK FALSE
INVARIANTS
    TypeOK
    AppliedEverywhere

PROPERTIES
    OneActiveProvider
