------------------------------ MODULE ServiceFloor ------------------------------
(***************************************************************************)
(* Around a repair order on the service floor: inspections and what they   *)
(* recommend, the customer's portal tasks, parts, sublets and warranty     *)
(* claims, comebacks, and the rows of the work board whose number is all   *)
(* that module RepairOrder knows of.                                       *)
(*                                                                         *)
(* Source: packages/fixed-ops/src/legacy/service-cockpit-service.ts.       *)
(*                                                                         *)
(* Every step of a repair order here is one of RepairOrder's, carried out  *)
(* on the board as well.  A comeback locks two repair orders one after the *)
(* other and is a process; whatever else needs one of those rows waits.    *)
(* Texts, evidence, references and times other than a part's arrival are   *)
(* left out.                                                               *)
(***************************************************************************)
EXTENDS RepairOrder, SequencesExt

CONSTANTS
    Tech, Supervisor,  \* users: technicians, and managers and advisors
    ItemKey,           \* what an inspection looks at
    Result,            \* the readings callers report: status and severity
    SlaQueue,          \* queues with a configured target
    SlaTarget,         \* that target, in days
    Clerk,             \* comeback requests that may run at once
    Nobody,
    MaxInspection, MaxTask, MaxRow, MaxPart, MaxComeback, MaxDay \* bounds

VARIABLES
    inspections,      \* mpi_sessions with their mpi_results
    recommendations,  \* service_recommendations
    tasks,            \* service_portal_tasks
    parts, sublets,   \* ro_parts_lines, ro_sublet_jobs
    claims,           \* warranty_claims: how many, by repair order
    comebacks,        \* comeback_cases
    board,            \* service_queue_items
    opening,          \* comeback requests: what they ask for and the rows they hold
    today             \* the date

floorVars == <<inspections, recommendations, tasks, parts, sublets, claims, comebacks, board, opening, today>>
allVars == <<vars, floorVars>>

User == Tech \cup Supervisor
MPI_RESULT_STATUSES == {"pass", "attention", "fail"}
MPI_SEVERITIES == {"info", "maintenance", "safety"}
PART_STATUSES == {"requested", "ordered", "backordered", "received", "picked", "installed", "canceled"}
SUBLET_STATUSES == {"requested", "sent", "in_progress", "returned", "verified", "canceled"}
COMEBACK_STATUSES == {"open", "in_progress", "resolved", "canceled"}
QUEUE_STATUSES == {"queued", "in_progress", "blocked", "done", "canceled"}
QUEUE_PRIORITIES == {"p0", "p1", "p2"}
PORTAL_TASK_STATUSES == {"created", "viewed", "completed", "expired", "canceled"}

ASSUME FloorAssumption ==
    /\ RO \subseteq Nat \* their ids sort
    /\ IsFiniteSet(RO) /\ IsFiniteSet(ItemKey)
    /\ Tech \cap Supervisor = {}
    /\ Result \subseteq [status : MPI_RESULT_STATUSES, severity : MPI_SEVERITIES \cup {Nobody}]
    /\ SlaTarget \in Nat /\ MaxPart \in Nat /\ MaxDay \in Nat \ {0}

\* A repair order's row is free of an open generateEstimate and of comebacks.
Free(r) == ~Locked(r) /\ \A p \in Clerk : r \notin opening[p].held

--------------------------------------------------------------------------------
(* The board *)

Open(row) == row.status \notin {"done", "canceled"}
OpenRows(rows, r, q) == {n \in DOMAIN rows : rows[n].ro = r /\ rows[n].queue = q /\ Open(rows[n])}

\* 0: no target, no due date.
resolveSlaDueAt(q) == IF q \in SlaQueue THEN today + SlaTarget ELSE 0
createServiceQueueItem(r, q) ==
    [ro |-> r, queue |-> q, status |-> "queued", assigned |-> Nobody, priority |-> "p1",
     due |-> resolveSlaDueAt(q), reasons |-> FALSE, created |-> today, updated |-> today]

\* The rows of work the repair order has moved past.
Passed(rows, r, s) ==
    [n \in DOMAIN rows |->
        IF rows[n].ro = r /\ Open(rows[n]) /\ rows[n].queue \notin RO_STATUS_QUEUE(s)
        THEN [rows[n] EXCEPT !.status = "done", !.updated = today] ELSE rows[n]]

\* Mutant of syncRows: a row is opened and none is closed.
syncRowsOpensOnly(rows, r, s) ==
    rows \o SetToSeq({createServiceQueueItem(r, q) : q \in {x \in RO_STATUS_QUEUE(s) : OpenRows(rows, r, x) = {}}})

\* syncQueueForRO on the rows: close what was passed, open a row where none is.
syncRows(rows, r, s) ==
    Passed(rows, r, s)
        \o SetToSeq({createServiceQueueItem(r, q) : q \in {x \in RO_STATUS_QUEUE(s) : OpenRows(rows, r, x) = {}}})

\* What a step of RepairOrder on r does to the board.
FollowBoard(r) == board' = IF ro'[r] = ro[r] THEN board ELSE syncRows(board, r, ro'[r])

\* Claims an open row that nobody else has.
assignServiceQueueItem(u, n) ==
    /\ Open(board[n]) /\ board[n].assigned \in {Nobody, u}
    /\ board' = [board EXCEPT ![n].assigned = u, ![n].status = "in_progress", ![n].updated = today]
    /\ UNCHANGED <<vars, inspections, recommendations, tasks, parts, sublets, claims, comebacks, opening, today>>

maySetStatus(u, n) == u \in Supervisor \/ board[n].assigned \in {Nobody, u}

\* Reasons are kept when the row stays blocked, rewritten when supplied, cleared otherwise.
WithStatus(row, status, supplied) ==
    [row EXCEPT !.status = status, !.updated = today, !.reasons = supplied \/ (status = "blocked" /\ @)]

\* Mutant of updateServiceQueueItemStatus: only the owner's half of the rule.
updateAnyItemStatus(u, n, status, supplied) ==
    /\ maySetStatus(u, n)
    /\ board' = [board EXCEPT ![n] = WithStatus(@, status, supplied)]
    /\ IF Open(board[n]) /\ status \in {"done", "canceled"}
       THEN CloseQueueItem(board[n].ro, board[n].queue) ELSE UNCHANGED vars
    /\ UNCHANGED <<inspections, recommendations, tasks, parts, sublets, claims, comebacks, opening, today>>

\* A closed row may still change from one closed status to the other.
updateServiceQueueItemStatus(u, n, status, supplied) ==
    /\ maySetStatus(u, n) /\ (Open(board[n]) \/ status \in {"done", "canceled"})
    /\ board' = [board EXCEPT ![n] = WithStatus(@, status, supplied)]
    /\ IF Open(board[n]) /\ status \in {"done", "canceled"}
       THEN CloseQueueItem(board[n].ro, board[n].queue) ELSE UNCHANGED vars
    /\ UNCHANGED <<inspections, recommendations, tasks, parts, sublets, claims, comebacks, opening, today>>

\* A closed row is escalated like an open one.
escalateServiceQueueItem(n) ==
    /\ board' = [board EXCEPT ![n].priority = "p0", ![n].updated = today]
    /\ UNCHANGED <<vars, inspections, recommendations, tasks, parts, sublets, claims, comebacks, opening, today>>

--------------------------------------------------------------------------------
(* Steps of the repair order itself *)

TransitionStep(r, to, stepUp) ==
    /\ Free(r) /\ transitionRO(r, to, stepUp) /\ FollowBoard(r)
    /\ UNCHANGED <<inspections, recommendations, tasks, parts, sublets, claims, comebacks, opening, today>>

QuoteStep(r) ==
    /\ Free(r)
    /\ \/ \E v \in 1..Len(est[r]) :
            \/ sendEstimate(r, v)
            \/ \E approved, declined \in SUBSET LinesOf(r) :
                recordAuthorization(r, v, "portal", FALSE, approved, declined)
       \/ GenerateEstimateRead(r)
    /\ FollowBoard(r)
    /\ UNCHANGED <<inspections, recommendations, tasks, parts, sublets, claims, comebacks, opening, today>>

GenerateEstimateEnds(r) ==
    /\ GenerateEstimateCommit(r) \/ GenerateEstimateAbort(r)
    /\ FollowBoard(r)
    /\ UNCHANGED <<inspections, recommendations, tasks, parts, sublets, claims, comebacks, opening, today>>

LineStep(l) ==
    /\ (addLineItem(l) /\ Free(LineRO[l])) \/ \E s \in LineStatusInput : updateLineItem(l, s, NoChange)
    /\ UNCHANGED floorVars

--------------------------------------------------------------------------------
(* Inspections *)

NoResult == [status |-> "none", severity |-> Nobody]

\* Several inspections of one repair order may run at once.
startInspection(r, tech) ==
    /\ Free(r) /\ Len(inspections) < MaxInspection
    /\ startMPISession(r) /\ FollowBoard(r)
    /\ inspections' = Append(inspections,
            [ro |-> r, tech |-> tech, status |-> "started", results |-> [i \in ItemKey |-> NoResult]])
    /\ UNCHANGED <<recommendations, tasks, parts, sublets, claims, comebacks, opening, today>>

assertOwnMPISession(u, n) == u \in Supervisor \/ u = inspections[n].tech

\* A finding has a severity; a pass may do without.
Reading(x) == [x EXCEPT !.severity = IF @ = Nobody THEN "info" ELSE @]
ValidReading(x) == x.status # "pass" => x.severity # Nobody

\* Mutant of recordMPIResult: a submitted session still takes a reading.
recordResultAnytime(u, n, item, x) ==
    /\ assertOwnMPISession(u, n) /\ ValidReading(x)
    /\ inspections' = [inspections EXCEPT ![n].results[item] = Reading(x)]
    /\ UNCHANGED <<vars, recommendations, tasks, parts, sublets, claims, comebacks, board, opening, today>>

\* A later reading of an item replaces the earlier one.
recordMPIResult(u, n, item, x) ==
    /\ assertOwnMPISession(u, n) /\ ValidReading(x)
    /\ inspections[n].status \in {"started", "in_progress"}
    /\ inspections' = [inspections EXCEPT ![n].status = "in_progress", ![n].results[item] = Reading(x)]
    /\ UNCHANGED <<vars, recommendations, tasks, parts, sublets, claims, comebacks, board, opening, today>>

Finding(x) == x.status \in {"attention", "fail"}
priorityOf(x) == IF x.severity = "safety" THEN "p0" ELSE IF x.severity = "maintenance" THEN "p1" ELSE "p2"

\* Every finding becomes a recommendation to the customer.
submitMPISession(u, n) ==
    LET s == inspections[n] IN
    /\ assertOwnMPISession(u, n) /\ s.status \in {"started", "in_progress"}
    /\ inspections' = [inspections EXCEPT ![n].status = "submitted"]
    /\ recommendations' = recommendations \o SetToSeq(
            {[ro |-> s.ro, item |-> i, priority |-> priorityOf(s.results[i]), status |-> "proposed",
              created |-> today] :
                i \in {x \in ItemKey : Finding(s.results[x])}})
    /\ UNCHANGED <<vars, tasks, parts, sublets, claims, comebacks, board, opening, today>>

OpenTask(r) == {k \in DOMAIN tasks : tasks[k].ro = r /\ tasks[k].status \in {"created", "viewed"}}

\* An open task is used again.
sendRecommendationsToCustomer(r) ==
    /\ Free(r)
    /\ recommendations' = [k \in DOMAIN recommendations |->
            IF recommendations[k].ro = r /\ recommendations[k].status = "proposed"
            THEN [recommendations[k] EXCEPT !.status = "sent_to_customer"] ELSE recommendations[k]]
    /\ \/ OpenTask(r) # {} /\ UNCHANGED tasks
       \/ OpenTask(r) = {} /\ Len(tasks) < MaxTask /\ tasks' = Append(tasks, [ro |-> r, status |-> "created"])
    /\ UNCHANGED <<vars, inspections, parts, sublets, claims, comebacks, board, opening, today>>

\* No status is refused: a task that was closed may be opened again.
updatePortalTaskStatus(k, status) ==
    /\ tasks' = [tasks EXCEPT ![k].status = status]
    /\ UNCHANGED <<vars, inspections, recommendations, parts, sublets, claims, comebacks, board, opening, today>>

--------------------------------------------------------------------------------
(* Parts, sublets and claims.  Each row's foreign key waits for the repair order's lock. *)

OnLine(l) == line[l].status # "absent" /\ Free(LineRO[l])

requestPart(l) ==
    /\ OnLine(l) /\ Len(parts) < MaxPart
    /\ parts' = Append(parts, [line |-> l, status |-> "requested", received |-> 0, created |-> today])
    /\ UNCHANGED <<vars, inspections, recommendations, tasks, sublets, claims, comebacks, board, opening, today>>

Arrived == {"received", "picked", "installed"}

\* The arrival is stamped once, whatever status comes later; `at` is the statement's NOW().
WithPartStatus(part, status, at) ==
    [part EXCEPT !.status = status, !.received = IF status \in Arrived /\ @ = 0 THEN at ELSE @]

updatePartLine(k, status) ==
    /\ parts' = [parts EXCEPT ![k] = WithPartStatus(@, status, today)]
    /\ UNCHANGED <<vars, inspections, recommendations, tasks, sublets, claims, comebacks, board, opening, today>>

createSubletJob(l) ==
    /\ OnLine(l) /\ Len(sublets) < MaxPart
    /\ sublets' = Append(sublets, [line |-> l, status |-> "requested"])
    /\ UNCHANGED <<vars, inspections, recommendations, tasks, parts, claims, comebacks, board, opening, today>>

updateSubletJob(k, status) ==
    /\ sublets' = [sublets EXCEPT ![k].status = status]
    /\ UNCHANGED <<vars, inspections, recommendations, tasks, parts, claims, comebacks, board, opening, today>>

createWarrantyClaim(r) ==
    /\ Free(r) /\ claims[r] < MaxPart
    /\ claims' = [claims EXCEPT ![r] = @ + 1]
    /\ UNCHANGED <<vars, inspections, recommendations, tasks, parts, sublets, comebacks, board, opening, today>>

--------------------------------------------------------------------------------
(* Comebacks *)

NoRequest == [original |-> 0, other |-> 0, held |-> {}]

openComeback(p, original, other) ==
    /\ opening[p] = NoRequest /\ original # other
    /\ opening' = [opening EXCEPT ![p] = [original |-> original, other |-> other, held |-> {}]]
    /\ UNCHANGED <<vars, inspections, recommendations, tasks, parts, sublets, claims, comebacks, board, today>>

\* Mutant of NextToLock: the original first.
NextToLockAsGiven(q) == IF q.held = {} THEN q.original ELSE q.other

\* The two rows in the order of their ids, whichever is the original.
NextToLock(q) ==
    LET lower == IF q.original < q.other THEN q.original ELSE q.other
    IN  IF q.held = {} THEN lower ELSE q.original + q.other - lower

lockForComeback(p) ==
    LET q == opening[p] IN
    /\ q # NoRequest /\ Cardinality(q.held) < 2
    /\ Free(NextToLock(q))
    /\ opening' = [opening EXCEPT ![p].held = @ \cup {NextToLock(q)}]
    /\ UNCHANGED <<vars, inspections, recommendations, tasks, parts, sublets, claims, comebacks, board, today>>

\* Both rows held: the case and the flag, or a refusal.
openCase(p) ==
    LET q == opening[p] IN
    /\ Cardinality(q.held) = 2
    /\ opening' = [opening EXCEPT ![p] = NoRequest]
    /\ \/ /\ ro[q.original] = "closed" /\ Len(comebacks) < MaxComeback
          /\ createComebackCase(q.original) /\ FollowBoard(q.original)
          /\ comebacks' = Append(comebacks, [original |-> q.original, new |-> q.other, status |-> "open"])
       \/ (ro[q.original] # "closed" \/ Len(comebacks) = MaxComeback) /\ UNCHANGED <<vars, board, comebacks>>
    /\ UNCHANGED <<inspections, recommendations, tasks, parts, sublets, claims, today>>

updateComebackCase(n, status) ==
    /\ comebacks' = [comebacks EXCEPT ![n].status = status]
    /\ UNCHANGED <<vars, inspections, recommendations, tasks, parts, sublets, claims, board, opening, today>>

nextDay ==
    /\ today < MaxDay /\ today' = today + 1
    /\ UNCHANGED <<vars, inspections, recommendations, tasks, parts, sublets, claims, comebacks, board, opening>>

--------------------------------------------------------------------------------

BoardNext ==
    \E n \in DOMAIN board :
        \/ \E u \in User :
            \/ assignServiceQueueItem(u, n)
            \/ \E status \in QUEUE_STATUSES, supplied \in BOOLEAN : updateServiceQueueItemStatus(u, n, status, supplied)
        \/ escalateServiceQueueItem(n)

InspectionNext ==
    \/ \E r \in RO : sendRecommendationsToCustomer(r) \/ \E tech \in Tech : startInspection(r, tech)
    \/ \E n \in DOMAIN inspections, u \in User :
        \/ \E item \in ItemKey, x \in Result : recordMPIResult(u, n, item, x)
        \/ submitMPISession(u, n)
    \/ \E k \in DOMAIN tasks, status \in PORTAL_TASK_STATUSES : updatePortalTaskStatus(k, status)

PartsNext ==
    \/ \E l \in Line : requestPart(l) \/ createSubletJob(l)
    \/ \E k \in DOMAIN parts, status \in PART_STATUSES : updatePartLine(k, status)
    \/ \E k \in DOMAIN sublets, status \in SUBLET_STATUSES : updateSubletJob(k, status)
    \/ \E r \in RO : createWarrantyClaim(r)
    \/ nextDay

ComebackNext ==
    \/ \E p \in Clerk :
        \/ \E original, other \in RO : openComeback(p, original, other)
        \/ lockForComeback(p) \/ openCase(p)
    \/ \E n \in DOMAIN comebacks, status \in COMEBACK_STATUSES : updateComebackCase(n, status)

QuoteNext ==
    \/ \E r \in RO : QuoteStep(r) \/ GenerateEstimateEnds(r)
    \/ \E l \in Line : LineStep(l)

RepairOrderNext ==
    \/ \E r \in RO, to \in RO_STATUSES, stepUp \in BOOLEAN : TransitionStep(r, to, stepUp)
    \/ QuoteNext

\* A waiter gets the row in the end (PostgreSQL queues for a lock in order of arrival), and
\* a transaction that was begun is carried through or rolled back.
FloorFairness ==
    /\ \A p \in Clerk : SF_allVars(lockForComeback(p)) /\ WF_allVars(openCase(p))
    /\ \A r \in RO : WF_allVars(GenerateEstimateEnds(r))

--------------------------------------------------------------------------------
(* What must hold *)

FloorTypeOK ==
    /\ \A n \in DOMAIN board :
        /\ board[n].status \in QUEUE_STATUSES /\ board[n].assigned \in User \cup {Nobody}
        /\ board[n].queue \in QUEUE_TYPES /\ board[n].priority \in QUEUE_PRIORITIES
    /\ \A n \in DOMAIN inspections : inspections[n].status \in {"started", "in_progress", "submitted"}
    /\ \A k \in DOMAIN parts : parts[k].status \in PART_STATUSES /\ parts[k].received \in 0..MaxDay
    /\ \A k \in DOMAIN tasks : tasks[k].status \in PORTAL_TASK_STATUSES
    /\ \A p \in Clerk : opening[p].held \subseteq RO

\* The rows of the board are the items module RepairOrder counts: as many open ones of
\* each repair order in each queue, and one at most, in the queue its status names, through
\* claims, status changes and closings by hand (syncQueueForRO, updateServiceQueueItemStatus).
BoardCountsTheWork ==
    /\ FloorTypeOK /\ QueueFollowsStatus
    /\ \A r \in RO, q \in QUEUE_TYPES : Cardinality(OpenRows(board, r, q)) = queue[r][q]

\* A repair order has one recommendation for each finding of each submitted inspection,
\* with the priority of the last reading, however often a reading was corrected and
\* whoever recorded it meanwhile (recordMPIResult, submitMPISession).
FindingsAreRecommendedOnce ==
    \A r \in RO, i \in ItemKey, p \in QUEUE_PRIORITIES :
        Cardinality({k \in DOMAIN recommendations :
                        /\ recommendations[k].ro = r /\ recommendations[k].item = i
                        /\ recommendations[k].priority = p})
        = Cardinality({n \in DOMAIN inspections :
                        /\ inspections[n].ro = r /\ inspections[n].status = "submitted"
                        /\ Finding(inspections[n].results[i]) /\ priorityOf(inspections[n].results[i]) = p})

\* What is done stays done: a closed row of the board is not reopened, by its owner, a
\* supervisor, an escalation or the repair order's next move; a row that somebody claimed is
\* nobody else's; the day a part arrived does not change (assignServiceQueueItem,
\* updateServiceQueueItemStatus, syncQueueForRO, updatePartLine).
DoneStaysDone ==
    [][/\ \A n \in DOMAIN board :
            /\ ~Open(board[n]) => ~Open(board'[n])
            /\ board[n].assigned # Nobody => board'[n].assigned = board[n].assigned
       /\ \A k \in DOMAIN parts : parts[k].received # 0 => parts'[k].received = parts[k].received]_allVars

\* Every comeback request is answered: two that name the same pair of repair orders the
\* other way round do not wait for each other for ever (createComebackCase).
ComebacksAreAnswered == \A p \in Clerk : opening[p] # NoRequest ~> opening[p] = NoRequest

\* The customer has one task to review at a time.  Refuted: a task set back to an open status
\* stands beside the one that was created while it was closed (updatePortalTaskStatus).
OneOpenReviewTask == \A r \in RO : Cardinality(OpenTask(r)) <= 1

================================================================================
