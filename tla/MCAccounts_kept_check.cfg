\* A login, a verified number, then another number, one call after the other.
SPECIFICATION Spec
CONSTANTS
    u1 = u1
    n1 = n1
    n2 = n2
    r1 = r1
    r2 = r2
    r3 = r3
    r4 = r4
    None = None
    Users = {u1}
    Numbers = {n1, n2}
    Requests = {r1, r2, r3, r4}
    MaxAgents = 1
SYMMETRY AccountSymmetry
CHECK_DEADLOCK FALSE
INVARIANTS
    VerifiedIsProven
