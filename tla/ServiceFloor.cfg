SPECIFICATION MCSpec
CHECK_DEADLOCK FALSE
CONSTANTS
    RO = {1, 2}
    Line = {"l1", "l2"}
    LineRO <- MCLineRO
    Terms = {"free", "priced"}
    NoCharge = "free"
    NotQuoted = NotQuoted
    LineStatusInput = {"proposed", "completed"}
    NoChange = NoChange
    MaxVersion = 2
    MaxAuths = 2
    Tech = {"ted", "tom"}
    Supervisor = {"sam"}
    ItemKey = {"brakes", "tires"}
    Result <- MCResult
    SlaQueue = {"in_repair"}
    SlaTarget = 0
    Location = {"north"}
    LocationOf <- MCLocationOf
    Window = 5
    Milli = 2
    MaxObserved = 2
    MaxBoot = 2
    MaxHistory = 3
    Clerk = {"c1", "c2"}
    Nobody = Nobody
    MaxInspection = 2
    MaxTask = 2
    MaxRow = 5
    MaxPart = 2
    MaxComeback = 2
    MaxDay = 2
INVARIANTS
    BoardCountsTheWork
    FindingsAreRecommendedOnce
    MetricsAddUp
PROPERTIES
    DoneStaysDone
    ComebacksAreAnswered
    DrainedQueuesAreForgotten
