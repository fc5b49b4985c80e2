----------------------------- MODULE MCServiceFloor -----------------------------
(* Bounded instance of the service floor for TLC: two repair orders with one line  *)
(* each.  The environment plays one scene at a time: a repair order is inspected;  *)
(* it moves over the board, from check-in on or with its work done; parts come in; *)
(* and finished repair orders come back, in both directions at once.               *)
EXTENDS ServiceMetrics, TLC

VARIABLE scene

MCLineRO == [l \in Line |-> IF l = "l1" THEN 1 ELSE 2]
MCLocationOf == [r \in RO |-> "north"]
MCResult ==
    {[status |-> "pass", severity |-> Nobody], [status |-> "attention", severity |-> Nobody],
     [status |-> "attention", severity |-> "info"], [status |-> "fail", severity |-> "safety"],
     [status |-> "fail", severity |-> "maintenance"]}

\* The line of r quoted, approved and worked on.
Worked(l, status) ==
    [status |-> status, auth |-> "approved", terms |-> "priced", est |-> 1, ref |-> IF l = "l1" THEN 1 ELSE 2]
Quoted(r) == [l \in Line |-> IF LineRO[l] = r THEN "priced" ELSE NotQuoted]
Approval(r) ==
    [ro |-> r, est |-> 1, status |-> "approved", approved |-> {l \in Line : LineRO[l] = r},
     declined |-> {}, snapshot |-> Quoted(r)]

Ordered(l) == [line |-> l, status |-> "ordered", received |-> 0, created |-> 1]

MCInit ==
    /\ scene \in {"inspection", "board", "parts", "comeback", "gauges", "arrivals", "quality"}
    /\ today = 1
    /\ ro \in CASE scene = "inspection" -> {<<"checked_in", "draft">>}
                [] scene = "board" -> {<<"in_repair", "draft">>}
                [] scene = "parts" -> {<<"in_repair", "authorized">>}
                [] scene = "gauges" -> {<<"in_repair", "draft">>}
                [] scene = "arrivals" -> {<<"in_repair", "in_repair">>}
                [] scene = "quality" -> {<<"qc", "closed">>}
                [] scene = "comeback" -> {<<"closed", "closed">>, <<"closed", "ready_for_pickup">>, <<"closed", "checked_in">>}
    /\ line = [l \in Line |->
            IF ro[LineRO[l]] = "checked_in" /\ scene = "comeback" THEN [NoLine EXCEPT !.status = "proposed", !.terms = "priced"]
            ELSE IF ro[LineRO[l]] \in {"checked_in", "draft"} THEN NoLine
            ELSE Worked(l, IF ro[LineRO[l]] \in {"qc", "closed", "ready_for_pickup"} THEN "completed" ELSE "approved")]
    /\ est = [r \in RO |->
            IF ro[r] \in {"checked_in", "draft"} THEN <<>> ELSE <<[status |-> "approved", quoted |-> Quoted(r)]>>]
    /\ auths = IF scene = "inspection" THEN <<>>
               ELSE IF est[2] = <<>> THEN <<Approval(1)>> ELSE <<Approval(1), Approval(2)>>
    /\ queue = [r \in RO |-> [q \in QUEUE_TYPES |-> IF q \in RO_STATUS_QUEUE(ro[r]) THEN 1 ELSE 0]]
    /\ quoting = [r \in RO |-> NoQuote]
    /\ inspections = <<>> /\ recommendations = <<>> /\ tasks = <<>> /\ sublets = <<>>
    /\ parts = IF scene = "arrivals" THEN <<Ordered("l1"), Ordered("l2")>> ELSE <<>>
    /\ claims = [r \in RO |-> 0] /\ comebacks = <<>>
    /\ board = syncRows(syncRows(<<>>, 1, ro[1]), 2, ro[2])
    /\ opening = [p \in Clerk |-> NoRequest]
    /\ history = <<>> /\ arriving = [k \in 1..MaxPart |-> NoUpdate] /\ observed = [k \in 1..MaxPart |-> 0]
    /\ gauges = [g \in {GROUPS[i] : i \in DOMAIN GROUPS} |-> {}]
    /\ pass = NoPass /\ highWater = 0 /\ boots = 1

\* What each scene leaves out.
InspectionScene ==
    /\ ro'[2] = "draft" /\ ro'[1] \in {"checked_in", "inspection_in_progress"} /\ line' = line /\ est' = est
    /\ \A n \in DOMAIN inspections' :
        /\ inspections'[n].tech = IF n = 1 THEN "ted" ELSE "tom"
        /\ inspections'[n].results["tires"] \in {NoResult, [status |-> "fail", severity |-> "safety"]}
        /\ n = 2 => inspections'[n].results["tires"].status = "none" /\ inspections'[n].results["brakes"].severity # "maintenance"
    /\ \A k \in DOMAIN tasks' : tasks'[k].status \in {"created", "viewed", "completed"}
BoardScene ==
    /\ ro'[2] = "draft" /\ line' = line /\ est' = est
    /\ ro'[1] \notin {"sublet_in_progress"}
    /\ Len(board') <= 3
    /\ Cardinality({n \in DOMAIN board' : board'[n].priority = "p0"}) <= 1
    /\ \A n \in DOMAIN board' : board'[n].reasons \/ board'[n].assigned = "tom" => n = 1
PartsScene == ro' = ro /\ est' = est /\ Len(parts') <= 1 /\ Len(sublets') <= 1 /\ claims'[1] <= 1 /\ claims'[2] = 0
ComebackScene ==
    /\ \A r \in RO : ro'[r] # ro[r] => ro'[r] \in {"closed", "comeback", "estimate_pending", "awaiting_authorization"}
    /\ \A n \in DOMAIN comebacks' : comebacks'[n].status \in {"open", "resolved"}
    /\ \A l \in Line : line'[l].status = line[l].status \/ line'[l].status = "declined"


GaugesNext ==
    \/ nextDay /\ UNCHANGED metricsVars
    \/ transitionAndRecord(1, "waiting_parts", FALSE)
    \/ \E n \in DOMAIN board :
        /\ updateServiceQueueItemStatus("sam", n, "done", FALSE) \/ (~Open(board[n]) /\ escalateServiceQueueItem(n))
        /\ UNCHANGED metricsVars
ArrivalsNext ==
    \/ nextDay /\ UNCHANGED metricsVars
    \/ \E k \in DOMAIN parts :
        \/ commitPartUpdate(k)
        \/ beginPartUpdate(k, "received")
        \/ beginPartUpdate(1, "backordered")
QualityNext ==
    \/ \E r \in RO, to \in {"in_repair", "qc", "closed"} : transitionAndRecord(r, to, FALSE)
    \/ /\ ComebackNext
       /\ comebacks' \in {<<>>, <<[original |-> 2, new |-> 1, status |-> "open"]>>} /\ opening'["c2"] = NoRequest
       /\ UNCHANGED metricsVars

\* In these scenes the other groups' queries fail.
OnlyGroup(g) == \A q \in Query : pass'.read[q] # Nobody => q \in QueriesOf(g)

FloorScenes ==
    /\ \/ scene = "inspection" /\ (InspectionNext \/ RepairOrderNext) /\ InspectionScene
       \/ scene = "board" /\ (BoardNext \/ RepairOrderNext) /\ BoardScene
       \/ scene = "parts" /\ (PartsNext \/ RepairOrderNext) /\ PartsScene
       \/ scene = "comeback" /\ (ComebackNext \/ RepairOrderNext) /\ ComebackScene
    /\ UNCHANGED metricsVars

MCNext ==
    /\ \/ FloorScenes
       \/ scene = "gauges" /\ (GaugesNext \/ MetricsNext) /\ OnlyGroup("queues")
       \/ scene = "arrivals" /\ (ArrivalsNext \/ MetricsNext) /\ OnlyGroup("parts")
       \/ scene = "quality" /\ (QualityNext \/ MetricsNext) /\ OnlyGroup("quality")
    /\ scene' = scene
    /\ Len(board') <= MaxRow

\* Comebacks are answered in every scene; the pass runs for ever where the queries of the
\* queues are left to run.
MCSpec ==
    /\ MCInit
    /\ [][MCNext]_<<serviceVars, scene>>
    /\ FloorFairness
    /\ scene = "gauges" => MetricsFairness

=================================================================================
