\* Two sessions edit one page and save once each, in every interleaving; one of
\* them comes and goes with a network that fails.
SPECIFICATION FairSpec
CONSTANTS
    e1 = e1
    e2 = e2
    NoData = NoData
    Asked = Asked
    Editors = {e1, e2}
    MaxEdits = 1
    MaxSaves <- OneEach
    Steady = {e2}
CHECK_DEADLOCK FALSE
INVARIANTS
    TypeOK
PROPERTIES
    OthersEditsStay
    RefusedIsReloaded
