----------------------------- MODULE ServiceMetrics -----------------------------
(***************************************************************************)
(* The service metrics: a pass over groups of queries that runs on a timer *)
(* in the API process, beside everything the service floor does, and the   *)
(* series it publishes.                                                    *)
(*                                                                         *)
(* Source: packages/fixed-ops/src/legacy/metrics-aggregator.ts.            *)
(*                                                                         *)
(* The queries of a group are separate statements: each sees the floor as  *)
(* it is when it runs.  A rate is kept as its numerator and denominator.   *)
(* Time is counted in the database's instants; the process keeps its mark  *)
(* as a JavaScript Date, which drops what is finer than a millisecond.     *)
(* The technician group, which reads the time entries of TechDispatch, and *)
(* the step-up ledger, which StepUp sweeps, are groups without series      *)
(* here; so is the capture rate of ServiceIntake's offers.                 *)
(***************************************************************************)
EXTENDS ServiceFloor

CONSTANTS
    Location, LocationOf, \* where a repair order is
    Window,               \* metricsWindowDays
    Milli,                \* the instants of one millisecond
    MaxBoot, MaxHistory,  \* bounds
    MaxObserved           \* bound: how often a part is observed

ASSUME MetricsAssumption ==
    /\ LocationOf \in [RO -> Location] /\ Window \in Nat
    /\ Milli \in Nat \ {0} /\ MaxObserved \in Nat

VARIABLES
    history,    \* ro_events 'status_changed'
    arriving,   \* part updates that have their NOW() and have not committed
    highWater,  \* partsWaitHighWater
    observed,   \* svcPartsWaitTime: how often each part was observed
    gauges,     \* the series published by each group
    pass,       \* the pass: the group it is at and the query results it holds
    boots       \* how often the process was started

metricsVars == <<history, arriving, highWater, observed, gauges, pass, boots>>
serviceVars == <<allVars, metricsVars>>

GROUPS == <<"parts", "quality", "technicians", "queues", "conversion", "reauth_ledger">>
Query == {"backorder", "arrivals", "qc", "closings", "comebacks", "depth", "sla", "presented"}
QueriesOf(g) ==
    CASE g = "parts" -> {"backorder", "arrivals"}
      [] g = "quality" -> {"qc", "closings", "comebacks"}
      [] g = "queues" -> {"depth", "sla"}
      [] g = "conversion" -> {"presented"}
      [] OTHER -> {}
\* The first query of a group; closings and comebacks are then read side by side.
First == {"backorder", "qc", "depth", "presented"}

NoRead == [q \in Query |-> Nobody]
NoPass == [group |-> 0, read |-> NoRead]
NoUpdate == [status |-> "none", at |-> 0]

--------------------------------------------------------------------------------
(* What a query returns *)

Recent(day) == day + Window > today

Share(some, all) == <<Cardinality(some), Cardinality(all)>>

PartsAt(loc) == {k \in DOMAIN parts : LocationOf[LineRO[parts[k].line]] = loc /\ Recent(parts[k].created)}
Backorder ==
    [loc \in Location |-> Share({k \in PartsAt(loc) : parts[k].status = "backordered"}, PartsAt(loc))]

\* What is left of an instant once it is a Date.
Date(t) == t - (t % Milli)

\* Parts received after the mark, the instant they were received against the mark's Date.
NewArrivals == {k \in DOMAIN parts : parts[k].received # 0 /\ parts[k].received > highWater}

Moves(loc) == {i \in DOMAIN history : LocationOf[history[i].ro] = loc /\ Recent(history[i].at)}
QcFailures ==
    [loc \in Location |-> Share({i \in Moves(loc) : history[i].from = "qc" /\ history[i].to = "in_repair"},
                                {i \in Moves(loc) : history[i].to = "qc"})]

ClosedRecently(loc) == {history[i].ro : i \in {j \in Moves(loc) : history[j].to = "closed"}}
Closings == [loc \in Location |-> Cardinality(ClosedRecently(loc))]
\* Every case of a repair order closed in the window, whenever it was opened.
Comebacks ==
    [loc \in Location |-> Cardinality({n \in DOMAIN comebacks : comebacks[n].original \in ClosedRecently(loc)})]

At(loc, q) == {n \in DOMAIN board : LocationOf[board[n].ro] = loc /\ board[n].queue = q}
Depth == [x \in Location \X QUEUE_TYPES |-> Cardinality({n \in At(x[1], x[2]) : Open(board[n])})]

\* A closed row is judged at its last update.
Breached(n) == board[n].due # 0 /\ board[n].due < IF Open(board[n]) THEN today ELSE board[n].updated
Sla ==
    [x \in Location \X QUEUE_TYPES |->
        LET rows == {n \in At(x[1], x[2]) : board[n].due # 0 /\ Recent(board[n].created)}
        IN  Share({n \in rows : Breached(n)}, rows)]

Presented ==
    [x \in Location \X QUEUE_PRIORITIES |->
        LET recs == {k \in DOMAIN recommendations :
                        /\ LocationOf[recommendations[k].ro] = x[1] /\ recommendations[k].priority = x[2]
                        /\ Recent(recommendations[k].created)
                        /\ recommendations[k].status \in {"sent_to_customer", "accepted", "declined", "expired"}}
        IN  Share({k \in recs : recommendations[k].status = "accepted"}, recs)]

Rows(q) ==
    CASE q = "backorder" -> Backorder
      [] q = "arrivals" -> NewArrivals
      [] q = "qc" -> QcFailures
      [] q = "closings" -> Closings
      [] q = "comebacks" -> Comebacks
      [] q = "depth" -> Depth
      [] q = "sla" -> Sla
      [] q = "presented" -> Presented

--------------------------------------------------------------------------------
(* What a group publishes *)

\* A rate without a denominator is not published.
ratio(series, rows) ==
    {[series |-> series, label |-> x, n |-> rows[x][1], d |-> rows[x][2]] : x \in {y \in DOMAIN rows : rows[y][2] # 0}}

Published(g, read) ==
    CASE g = "parts" -> ratio("backorder", read["backorder"])
      [] g = "quality" ->
            ratio("qc", read["qc"])
                \cup ratio("comeback", [loc \in Location |-> <<read["comebacks"][loc], read["closings"][loc]>>])
      [] g = "queues" ->
            ratio("sla", read["sla"])
                \cup {[series |-> "depth", label |-> x, n |-> read["depth"][x], d |-> 1] :
                        x \in {y \in DOMAIN read["depth"] : read["depth"][y] # 0}}
      [] g = "conversion" -> ratio("conversion", read["presented"])
      [] OTHER -> {}

--------------------------------------------------------------------------------
(* The pass *)

\* The interval fires; while a pass is under way it does nothing.
tick ==
    /\ pass.group = 0
    /\ pass' = [NoPass EXCEPT !.group = 1]
    /\ UNCHANGED <<allVars, history, arriving, highWater, observed, gauges, boots>>

\* The groups without series here are passed over.
NextGroup ==
    LET later == {i \in DOMAIN GROUPS : i > pass.group /\ QueriesOf(GROUPS[i]) # {}}
    IN  [NoPass EXCEPT !.group = IF later = {} THEN 0 ELSE CHOOSE i \in later : \A j \in later : i <= j]

\* Mutant of the mark: it is left where the process started.
MarkStays == highWater

\* The mark once the new arrivals are observed: the largest of their Dates.
Mark ==
    LET seen == {Date(parts[k].received) : k \in NewArrivals} \cup {highWater}
    IN  CHOOSE m \in seen : \A n \in seen : n <= m

\* One query answers; the waiting times of new arrivals are observed at once, and the mark
\* moves up to them.
readGroup(q) ==
    /\ pass.group # 0 /\ q \in QueriesOf(GROUPS[pass.group]) /\ pass.read[q] = Nobody
    /\ q \in First \/ \A f \in First \cap QueriesOf(GROUPS[pass.group]) : pass.read[f] # Nobody
    /\ pass' = [pass EXCEPT !.read[q] = Rows(q)]
    /\ IF q = "arrivals"
       THEN /\ \A k \in NewArrivals : observed[k] < MaxObserved
            /\ observed' = [k \in DOMAIN observed |-> IF k \in NewArrivals THEN observed[k] + 1 ELSE observed[k]]
            /\ highWater' = Mark
       ELSE UNCHANGED <<observed, highWater>>
    /\ UNCHANGED <<allVars, history, arriving, gauges, boots>>

\* Mutant of publishGroup: the series are set and never cleared.
publishWithoutReset ==
    /\ pass.group # 0 /\ \A q \in QueriesOf(GROUPS[pass.group]) : pass.read[q] # Nobody
    /\ LET g == GROUPS[pass.group] new == Published(g, pass.read)
       IN  gauges' = [gauges EXCEPT ![g] =
                {x \in @ : \A y \in new : <<x.series, x.label>> # <<y.series, y.label>>} \cup new]
    /\ pass' = NextGroup
    /\ UNCHANGED <<allVars, history, arriving, highWater, observed, boots>>

\* Everything the group read: its series are cleared and published together.
publishGroup ==
    /\ pass.group # 0 /\ \A q \in QueriesOf(GROUPS[pass.group]) : pass.read[q] # Nobody
    /\ gauges' = [gauges EXCEPT ![GROUPS[pass.group]] = Published(GROUPS[pass.group], pass.read)]
    /\ pass' = NextGroup
    /\ UNCHANGED <<allVars, history, arriving, highWater, observed, boots>>

\* A query fails: the group keeps the series it had, and the next group is tried.
failGroup ==
    /\ pass.group # 0
    /\ \E q \in QueriesOf(GROUPS[pass.group]) : pass.read[q] = Nobody
    /\ pass' = NextGroup
    /\ UNCHANGED <<allVars, history, arriving, highWater, observed, gauges, boots>>

\* The API process is started again: what it counted is gone and the mark is now.
restart ==
    /\ boots < MaxBoot /\ boots' = boots + 1
    /\ highWater' = Date(today) /\ observed' = [k \in DOMAIN observed |-> 0]
    /\ gauges' = [g \in DOMAIN gauges |-> {}] /\ pass' = NoPass
    /\ UNCHANGED <<allVars, history, arriving>>

--------------------------------------------------------------------------------
(* The floor, as far as the metrics see it *)

\* Only transitionRO records the event the rates are computed from.
transitionAndRecord(r, to, stepUp) ==
    /\ Len(history) < MaxHistory
    /\ TransitionStep(r, to, stepUp)
    /\ history' = Append(history, [ro |-> r, from |-> ro[r], to |-> to, at |-> today])
    /\ UNCHANGED <<arriving, highWater, observed, gauges, pass, boots>>

\* updatePartLine, which takes its NOW() and commits later.
beginPartUpdate(k, status) ==
    /\ arriving[k] = NoUpdate
    /\ arriving' = [arriving EXCEPT ![k] = [status |-> status, at |-> today]]
    /\ UNCHANGED <<allVars, history, highWater, observed, gauges, pass, boots>>

commitPartUpdate(k) ==
    /\ arriving[k] # NoUpdate
    /\ parts' = [parts EXCEPT ![k] = WithPartStatus(@, arriving[k].status, arriving[k].at)]
    /\ arriving' = [arriving EXCEPT ![k] = NoUpdate]
    /\ UNCHANGED <<vars, inspections, recommendations, tasks, sublets, claims, comebacks, board, opening, today>>
    /\ UNCHANGED <<history, highWater, observed, gauges, pass, boots>>

MetricsNext == tick \/ publishGroup \/ failGroup \/ restart \/ \E q \in Query : readGroup(q)

\* Repair orders fresh from createRO or checkIn, and an API process started today or before.
ServiceInit ==
    /\ Init /\ today = 1
    /\ board = SetToSeq({createServiceQueueItem(r, "waiting_checkin") : r \in {x \in RO : ro[x] = "checked_in"}})
    /\ inspections = <<>> /\ recommendations = <<>> /\ tasks = <<>> /\ parts = <<>> /\ sublets = <<>>
    /\ claims = [r \in RO |-> 0] /\ comebacks = <<>> /\ opening = [p \in Clerk |-> NoRequest]
    /\ history = <<>> /\ arriving = [k \in 1..MaxPart |-> NoUpdate] /\ observed = [k \in 1..MaxPart |-> 0]
    /\ gauges = [g \in {GROUPS[i] : i \in DOMAIN GROUPS} |-> {}]
    /\ pass = NoPass /\ boots = 1 /\ highWater \in {Date(t) : t \in 0..today}

\* The floor and the pass, interleaved.
ServiceNext ==
    \/ (BoardNext \/ InspectionNext \/ PartsNext \/ ComebackNext \/ QuoteNext) /\ UNCHANGED metricsVars
    \/ \E r \in RO, to \in RO_STATUSES, stepUp \in BOOLEAN : transitionAndRecord(r, to, stepUp)
    \/ \E k \in DOMAIN parts : commitPartUpdate(k) \/ \E status \in PART_STATUSES : beginPartUpdate(k, status)
    \/ MetricsNext

ServiceSpec == ServiceInit /\ [][ServiceNext]_serviceVars

\* The interval fires for as long as the process runs, a query is answered or fails, and
\* those of the queues, repeated for ever, do not fail for ever.
MetricsFairness ==
    /\ WF_serviceVars(tick) /\ WF_serviceVars(publishGroup)
    /\ WF_serviceVars(failGroup \/ \E q \in Query : readGroup(q))
    /\ \A q \in QueriesOf("queues") : SF_serviceVars(readGroup(q))

--------------------------------------------------------------------------------
(* What must hold *)

\* The published shares are shares: of the parts, of the rows with a target and of the
\* recommendations in the window, never more than there are, though rows are opened, closed
\* and put on backorder while the pass runs; and the mark has reached the millisecond of
\* every part observed since the process started, so that a part received in an earlier
\* millisecond than the mark's is not observed again, however often it is updated, the
\* pass repeated or a late update committed (refreshPartsMetrics, refreshQueueMetrics).
MetricsAddUp ==
    /\ \A g \in DOMAIN gauges : \A x \in gauges[g] : x.series \in {"backorder", "sla", "conversion"} => x.n <= x.d
    /\ \A k \in DOMAIN observed : observed[k] > 0 =>
        k \in DOMAIN parts /\ parts[k].received # 0 /\ Date(parts[k].received) <= highWater

Reported(x) == {y.n : y \in {z \in gauges["queues"] : z.series = "depth" /\ z.label = x}}

\* Queues that drained stop being reported, though passes fail and the process is
\* restarted, and whatever the last pass had read of them (refreshAggregatedMetrics: clear
\* and publish together).
DrainedQueuesAreForgotten ==
    <>[](\A x \in DOMAIN Depth : Depth[x] = 0) => <>[](\A x \in DOMAIN Depth : Reported(x) = {})

--------------------------------------------------------------------------------
(* Stated by the source and refuted by TLC; see the README. *)

\* "an item that is closed and was never overdue while open cannot become overdue
\* afterwards" (refreshQueueMetrics): escalateServiceQueueItem and a second closing status
\* move updated_at of a closed row.
ClosedInTimeStays ==
    [][\A n \in DOMAIN board : ~Open(board[n]) /\ ~Breached(n) => ~Breached(n)']_serviceVars

\* The cohort was chosen because the other one "can report more comebacks than there were
\* closures" (refreshQualityMetrics): a repair order that came back twice counts twice.
ComebacksAreAShare == \A x \in gauges["quality"] : x.series = "comeback" => x.n <= x.d

\* "Observed once per part" (refreshPartsMetrics): the mark's Date is earlier than the
\* instant of the last arrival, which every pass reads and observes again.
ArrivalsAreObservedOnce == \A k \in DOMAIN observed : observed[k] <= 1

\* The mark follows what was read so that no part should "never be observed at all"
\* (refreshPartsMetrics): one whose update began earlier and committed later is not.
ArrivalsAreObserved ==
    [][\A k \in DOMAIN parts : parts[k].received = 0 /\ parts'[k].received # 0 => parts'[k].received > highWater]_serviceVars

================================================================================
