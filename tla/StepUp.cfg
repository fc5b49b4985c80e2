CONSTANTS
    Txn = {t1, t2}
    Person = {p1, p2}
    Op = {o1, o2}
    Callback = {c1, c2}
    Request = {r1, r2}
    None = None
SPECIFICATION Spec
INVARIANTS
    GrantsAreEarned
PROPERTIES
    ImplementsOneUseGrant
    EveryStepUpEnds
CHECK_DEADLOCK FALSE
