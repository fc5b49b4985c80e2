SPECIFICATION Spec
CONSTANTS
    r1 = r1
    l1 = l1
    l2 = l2
    RO = {r1}
    Line = {l1, l2}
    LineRO <- MCLineRO
    Terms = {free, priced}
    NoCharge = free
    NotQuoted = NotQuoted
    LineStatusInput = {"proposed", "completed"}
    NoChange = NoChange
    MaxVersion = 2
    MaxAuths = 2
SYMMETRY MCSymmetry
INVARIANTS
    DecisionsStand
    WorkHasEvidence
PROPERTIES
    AnswersAreFinal
