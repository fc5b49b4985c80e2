CONSTANTS
    v1 = v1
    v2 = v2
    a1 = a1
    a2 = a2
    e1 = e1
    e2 = e2
    e3 = e3
    d1 = d1
    None = None
    Vehicle = {v1, v2}
    Appt = {a1, a2}
    Entry = {e1, e2, e3}
    Deal = {d1}
SPECIFICATION Spec
SYMMETRY IntakeSymmetry
CHECK_DEADLOCK FALSE
INVARIANTS
    IntakeAgrees
PROPERTIES
    LapsedHoldsAndClosedEntries
