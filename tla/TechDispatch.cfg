CONSTANTS
    l1 = l1
    l2 = l2
    t1 = t1
    t2 = t2
    k1 = k1
    k2 = k2
    c1 = c1
    c2 = c2
    Null = Null
    Line = {l1, l2}
    Tech = {t1, t2}
    Ticket = {k1, k2}
    Caller = {c1, c2}
    MaxEntries = 3
    MaxBegun = 4
    MaxTime = 2
SPECIFICATION DispatchSpec
SYMMETRY DispatchSymmetry
CHECK_DEADLOCK FALSE
INVARIANTS
    DispatchIsCoherent
PROPERTIES
    TicketsCloseForGood
