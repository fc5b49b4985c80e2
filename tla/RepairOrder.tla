------------------------------ MODULE RepairOrder ------------------------------
(***************************************************************************)
(* The life of a repair order in the service cockpit: its status machine,  *)
(* its line items, the estimates put to the customer, the authorizations   *)
(* the customer gives, and its presence in the work queues.                *)
(*                                                                         *)
(* Source: packages/fixed-ops/src/legacy/service-cockpit-service.ts and    *)
(* packages/fixed-ops/src/domain/{state-machine,authorization}.ts.         *)
(*                                                                         *)
(* Every exported function runs in one READ COMMITTED transaction, and all *)
(* the ones that read-validate-write a repair order hold its row lock      *)
(* (assertRO with lock: true).  Such a function is one action here, except *)
(* generateEstimate, which reads the lines it totals without locking them  *)
(* and writes them in a later statement: updateLineItem takes no lock on   *)
(* the repair order and may commit between the two, so generateEstimate is *)
(* the pair GenerateEstimateRead / GenerateEstimateCommit.                 *)
(***************************************************************************)
EXTENDS Naturals, Sequences, FiniteSets

CONSTANTS
    RO,              \* repair orders
    Line,            \* line items; LineRO[l] is the repair order of line l
    LineRO,
    Terms,           \* commercial terms a line can carry (price_ref, sold_hours)
    NoCharge,        \* the terms that charge nothing
    NotQuoted,       \* marks a line absent from an estimate or a snapshot
    LineStatusInput, \* the statuses callers ask updateLineItem for
    NoChange,        \* a field absent from an updateLineItem request
    MaxVersion,      \* bound: estimates per repair order
    MaxAuths         \* bound: authorizations recorded

LINE_STATUSES ==
    {"proposed", "approved", "declined", "in_progress", "completed", "canceled"}

ASSUME LineROAssumption == LineRO \in [Line -> RO]
ASSUME TermsAssumption == NoCharge \in Terms /\ NotQuoted \notin Terms
ASSUME InputAssumption == LineStatusInput \subseteq LINE_STATUSES
ASSUME NoChangeAssumption == NoChange \notin Terms \cup LINE_STATUSES
ASSUME BoundAssumption == MaxVersion \in Nat /\ MaxAuths \in Nat

VARIABLES
    ro,       \* ro[r]: repair_orders.status
    line,     \* line[l]: the ro_line_items row, status "absent" before INSERT
    est,      \* est[r]: ro_estimates of r, indexed by version
    auths,    \* the ro_authorizations rows, in the order they were inserted
    queue,    \* queue[r][q]: open service_queue_items of r with queue_type q
    quoting   \* quoting[r]: lines and terms an open generateEstimate has read

vars == <<ro, line, est, auths, queue, quoting>>

--------------------------------------------------------------------------------
(* The status machine: domain/state-machine.ts *)

RO_STATUSES ==
    {"draft", "checked_in", "inspection_in_progress", "estimate_pending",
     "awaiting_authorization", "authorized", "in_repair", "waiting_parts",
     "sublet_in_progress", "qc", "ready_for_pickup", "closed", "canceled",
     "comeback"}

RO_TRANSITIONS(s) ==
    CASE s = "draft" -> {"checked_in", "canceled"}
      [] s = "checked_in" ->
            {"inspection_in_progress", "estimate_pending", "canceled"}
      [] s = "inspection_in_progress" ->
            {"estimate_pending", "awaiting_authorization", "authorized", "canceled"}
      [] s = "estimate_pending" -> {"awaiting_authorization", "canceled"}
      [] s = "awaiting_authorization" ->
            {"authorized", "estimate_pending", "canceled"}
      [] s = "authorized" ->
            {"in_repair", "waiting_parts", "sublet_in_progress", "canceled"}
      [] s = "in_repair" ->
            {"waiting_parts", "sublet_in_progress", "qc", "canceled"}
      [] s = "waiting_parts" -> {"in_repair", "canceled"}
      [] s = "sublet_in_progress" -> {"in_repair", "qc", "canceled"}
      [] s = "qc" -> {"ready_for_pickup", "in_repair", "canceled"}
      [] s = "ready_for_pickup" -> {"closed"}
      [] s = "closed" -> {"comeback"}
      [] s = "comeback" -> {"checked_in"}
      [] OTHER -> {}

STEP_UP_TRANSITIONS == {"authorized", "canceled"}
AUTHORIZATION_GATED_TRANSITIONS == {"authorized"}
STAFF_ASSERTED_METHODS == {"staff_attestation"}

--------------------------------------------------------------------------------
(* Work queues *)

QUEUE_TYPES ==
    {"waiting_checkin", "in_repair", "waiting_authorization", "waiting_parts",
     "qc", "ready_pickup", "comeback_review"}

\* The queues a repair order may be in while it has a given status: one or none.
RO_STATUS_QUEUE(s) ==
    CASE s = "checked_in" -> {"waiting_checkin"}
      [] s \in {"inspection_in_progress", "authorized", "in_repair",
                "sublet_in_progress"} -> {"in_repair"}
      [] s \in {"estimate_pending", "awaiting_authorization"} ->
            {"waiting_authorization"}
      [] s = "waiting_parts" -> {"waiting_parts"}
      [] s = "qc" -> {"qc"}
      [] s = "ready_for_pickup" -> {"ready_pickup"}
      [] s = "comeback" -> {"comeback_review"}
      [] OTHER -> {}

\* syncQueueForRO: items of other types are done; an open one of the target
\* type is kept, and one is created when there is none.
syncQueueForRO(open, s) ==
    [q \in QUEUE_TYPES |->
        IF q \notin RO_STATUS_QUEUE(s) THEN 0
        ELSE IF open[q] > 0 THEN open[q] ELSE 1]

\* A status write always carries its queue synchronisation.
MoveTo(r, s) ==
    /\ ro' = [ro EXCEPT ![r] = s]
    /\ queue' = [queue EXCEPT ![r] = syncQueueForRO(@, s)]

StayPut == UNCHANGED <<ro, queue>>

--------------------------------------------------------------------------------
(* Lines, estimates and authorizations *)

NoQuote == [l \in Line |-> NotQuoted]

\* The row lock is held across steps only by an open generateEstimate.
Locked(r) == quoting[r] # NoQuote

LinesOf(r) == {l \in Line : LineRO[l] = r /\ line[l].status # "absent"}

\* The lines generateEstimate puts to the customer (its SELECT and its UPDATE
\* state this predicate twice).
Quotable(r) ==
    {l \in LinesOf(r) : /\ line[l].auth = "not_required"
                        /\ line[l].status \notin {"canceled", "declined"}}

QUOTABLE_STATES ==
    {"checked_in", "inspection_in_progress", "estimate_pending", "authorized",
     "in_repair", "waiting_parts", "sublet_in_progress", "qc"}

WORK_STATES ==
    {"authorized", "in_repair", "waiting_parts", "sublet_in_progress", "qc"}

\* The gates of transitionRO.
OpenWork(r) ==
    {l \in LinesOf(r) : line[l].status \in {"proposed", "approved", "in_progress"}}

Undecided(r) ==
    {l \in LinesOf(r) :
        /\ line[l].status # "canceled"
        /\ \/ line[l].auth = "pending"
           \/ line[l].auth = "not_required" /\ line[l].terms # NoCharge}

ApprovedWork(r) ==
    {l \in LinesOf(r) : line[l].auth \in {"approved", "not_required"}}

\* Mutant of Evidence: any decision on the current estimate will do.
Evidence_AnyDecision(r) ==
    {a \in 1..Len(auths) : auths[a].ro = r /\ auths[a].est = Len(est[r])}

Evidence(r) ==
    {a \in 1..Len(auths) :
        /\ auths[a].ro = r
        /\ auths[a].status = "approved"
        /\ auths[a].approved # {}
        /\ auths[a].est = Len(est[r])}

deriveAuthorizationStatus(approved) ==
    IF approved # {} THEN "approved" ELSE "declined"

\* deriveEstimateStatus over the sets its three counts are counts of.
deriveEstimateStatus(approved, declined, undecided) ==
    IF approved = {}
    THEN IF undecided # {} THEN "partially_approved" ELSE "declined"
    ELSE IF declined = {} /\ undecided = {} THEN "approved"
                                            ELSE "partially_approved"

\* The status recordAuthorization derives for estimate v of r once the rows
\* are `rows`: over the lines tagged with v, where a line canceled while pending
\* is withdrawn; over every line of r when none carries the tag.
TalliedStatus(r, v, rows) ==
    LET all == LinesOf(r)
        own == {l \in all : rows[l].est = v}
        scope == IF own # {} THEN own ELSE all
        With(a) == {l \in scope : rows[l].auth = a}
        withdrawn == {l \in own : rows[l].status = "canceled"}
    IN  deriveEstimateStatus(With("approved"), With("declined"),
                             With("pending") \ withdrawn)

--------------------------------------------------------------------------------
(* Initial state: repair orders fresh from createRO ("draft", in no queue) or *)
(* from checkIn ("checked_in", synchronised), with no lines yet.              *)

NoLine == [status |-> "absent", auth |-> "not_required", terms |-> NoCharge,
           est |-> 0, ref |-> 0]

Init ==
    /\ ro \in [RO -> {"draft", "checked_in"}]
    /\ line = [l \in Line |-> NoLine]
    /\ est = [r \in RO |-> <<>>]
    /\ auths = <<>>
    /\ queue = [r \in RO |-> [q \in QUEUE_TYPES |->
                                IF q \in RO_STATUS_QUEUE(ro[r]) THEN 1 ELSE 0]]
    /\ quoting = [r \in RO |-> NoQuote]

--------------------------------------------------------------------------------
(* transitionRO.  stepUp is whether consumeSensitiveActionGrant finds a live  *)
(* grant bound to this caller, action and repair order; the grant is spent in *)
(* the same transaction, and its own life is the step-up component's.         *)

\* Mutant of WithdrawQuote: un-shows every line, the decided ones too.
WithdrawQuote_EveryLine(r) ==
    /\ est' = [est EXCEPT ![r] = [v \in DOMAIN @ |->
                    IF @[v].status \in {"sent", "partially_approved"}
                    THEN [@[v] EXCEPT !.status = "expired"] ELSE @[v]]]
    /\ line' = [l \in Line |-> IF l \in LinesOf(r)
                               THEN [line[l] EXCEPT !.auth = "not_required"] ELSE line[l]]

\* The re-quote edge: the outstanding estimates of r are withdrawn and the lines
\* the customer had not answered are un-shown.
WithdrawQuote(r) ==
    /\ est' = [est EXCEPT ![r] = [v \in DOMAIN @ |->
                    IF @[v].status \in {"sent", "partially_approved"}
                    THEN [@[v] EXCEPT !.status = "expired"] ELSE @[v]]]
    /\ line' = [l \in Line |->
                    IF l \in LinesOf(r) /\ line[l].auth = "pending"
                    THEN [line[l] EXCEPT !.auth = "not_required"] ELSE line[l]]

transitionRO(r, to, stepUp) ==
    /\ ~Locked(r)
    /\ to \in RO_TRANSITIONS(ro[r])
    /\ to \in STEP_UP_TRANSITIONS => stepUp
    /\ to = "ready_for_pickup" => OpenWork(r) = {} /\ Undecided(r) = {}
    /\ to = "in_repair" => ApprovedWork(r) # {}
    /\ to \in AUTHORIZATION_GATED_TRANSITIONS => Evidence(r) # {}
    /\ MoveTo(r, to)
    /\ IF to = "estimate_pending" THEN WithdrawQuote(r) ELSE UNCHANGED <<est, line>>
    /\ UNCHANGED <<auths, quoting>>

--------------------------------------------------------------------------------
(* Line items *)

\* The INSERT's foreign key takes KEY SHARE on the repair order, so it waits
\* for a transaction that holds the row FOR UPDATE.
addLineItem(l) ==
    /\ line[l].status = "absent"
    /\ ~Locked(LineRO[l])
    /\ line' = [line EXCEPT ![l] = [NoLine EXCEPT !.status = "proposed"]]
    /\ UNCHANGED <<ro, est, auths, queue, quoting>>

\* Mutant of Writable: the freeze ends with the decision.
Writable_FrozenWhilePendingOnly(l, s, t) ==
    /\ line[l].auth = "declined" => s \in {NoChange, "declined"}
    /\ line[l].auth = "pending" => t = NoChange

\* A declined line keeps its status; terms are frozen while the customer has the
\* line and for good once they approved it.
Writable(l, s, t) ==
    /\ line[l].auth = "declined" => s \in {NoChange, "declined"}
    /\ line[l].auth \in {"pending", "approved"} => t = NoChange

\* Takes the line's row lock only.  s and t are the requested status and
\* commercial terms, NoChange when the request leaves the field out.
updateLineItem(l, s, t) ==
    /\ line[l].status # "absent"
    /\ s # NoChange \/ t # NoChange
    /\ Writable(l, s, t)
    /\ line' = [line EXCEPT ![l].status = IF s = NoChange THEN @ ELSE s,
                            ![l].terms  = IF t = NoChange THEN @ ELSE t]
    /\ UNCHANGED <<ro, est, auths, queue, quoting>>

--------------------------------------------------------------------------------
(* Inspection, estimate, decision *)

startMPISession(r) ==
    /\ ~Locked(r)
    /\ ro[r] \in {"checked_in", "inspection_in_progress"}
    /\ IF ro[r] = "checked_in" THEN MoveTo(r, "inspection_in_progress") ELSE StayPut
    /\ UNCHANGED <<line, est, auths, quoting>>

\* generateEstimate up to the totals: the row lock, the guard, the SELECT.
GenerateEstimateRead(r) ==
    /\ ~Locked(r)
    /\ ro[r] \in QUOTABLE_STATES
    /\ Len(est[r]) < MaxVersion
    /\ Quotable(r) # {}
    /\ quoting' = [quoting EXCEPT ![r] =
            [l \in Line |-> IF l \in Quotable(r) THEN line[l].terms ELSE NotQuoted]]
    /\ UNCHANGED <<ro, line, est, auths, queue>>

\* The rest: the INSERT with the totals read above, the UPDATE that re-evaluates
\* the predicate on the lines as they now are, the status move, COMMIT.
GenerateEstimateCommit(r) ==
    /\ Locked(r)
    /\ est' = [est EXCEPT ![r] = Append(@, [status |-> "draft", quoted |-> quoting[r]])]
    /\ line' = [l \in Line |->
            IF l \in Quotable(r)
            THEN [line[l] EXCEPT !.auth = "pending", !.est = Len(est[r]) + 1]
            ELSE line[l]]
    /\ IF ro[r] \in {"inspection_in_progress", "checked_in"}
       THEN MoveTo(r, "estimate_pending") ELSE StayPut
    /\ quoting' = [quoting EXCEPT ![r] = NoQuote]
    /\ UNCHANGED auths

\* withTransaction rolls back: a statement failed or the connection was lost.
GenerateEstimateAbort(r) ==
    /\ Locked(r)
    /\ quoting' = [quoting EXCEPT ![r] = NoQuote]
    /\ UNCHANGED <<ro, line, est, auths, queue>>

sendEstimate(r, v) ==
    /\ ~Locked(r)
    /\ ro[r] \in WORK_STATES \cup {"estimate_pending"}
    /\ v \in 1..Len(est[r])
    /\ est[r][v].status = "draft"
    /\ est' = [est EXCEPT ![r][v].status = "sent"]
    /\ IF ro[r] = "estimate_pending" THEN MoveTo(r, "awaiting_authorization")
                                     ELSE StayPut
    /\ UNCHANGED <<line, auths, quoting>>

\* The decided lines' rows once authorization a approved and declined them.
Decided(approved, declined, a) ==
    [l \in Line |->
        IF l \in declined
        THEN [line[l] EXCEPT !.auth = "declined", !.status = "declined", !.ref = a]
        ELSE IF l \in approved THEN [line[l] EXCEPT !.auth = "approved", !.ref = a]
                               ELSE line[l]]

AwaitingDecision(lines) == \A l \in lines : line[l].auth = "pending"

recordAuthorization(r, v, method, stepUp, approved, declined) ==
    /\ ~Locked(r)
    /\ Len(auths) < MaxAuths
    /\ approved \cup declined # {}
    /\ approved \cap declined = {}
    /\ method \in STAFF_ASSERTED_METHODS => stepUp
    /\ v \in 1..Len(est[r])
    /\ est[r][v].status \in {"sent", "partially_approved"}
    /\ v = Len(est[r])
    /\ approved \cup declined \subseteq LinesOf(r)
    /\ AwaitingDecision(approved \cup declined)
    /\ auths' = Append(auths,
            [ro |-> r, est |-> v, status |-> deriveAuthorizationStatus(approved),
             approved |-> approved, declined |-> declined,
             snapshot |-> [l \in Line |->
                             IF l \in approved THEN line[l].terms ELSE NotQuoted]])
    /\ line' = Decided(approved, declined, Len(auths) + 1)
    /\ est' = [est EXCEPT ![r][v].status =
                    TalliedStatus(r, v, Decided(approved, declined, Len(auths) + 1))]
    /\ UNCHANGED <<ro, queue, quoting>>

--------------------------------------------------------------------------------
(* Comebacks and the work queue *)

\* The case also names the repair order of the new visit, which is locked (the
\* two in the order of their ids) but not written.
createComebackCase(original) ==
    /\ ~Locked(original)
    /\ ro[original] = "closed"
    /\ MoveTo(original, "comeback")
    /\ UNCHANGED <<line, est, auths, quoting>>

\* updateServiceQueueItemStatus with a closing status: a closed item stays closed.
CloseQueueItem(r, q) ==
    /\ queue[r][q] > 0
    /\ queue' = [queue EXCEPT ![r][q] = @ - 1]
    /\ UNCHANGED <<ro, line, est, auths, quoting>>

--------------------------------------------------------------------------------
Next ==
    \/ \E r \in RO, to \in RO_STATUSES, stepUp \in BOOLEAN : transitionRO(r, to, stepUp)
    \/ \E l \in Line : addLineItem(l)
    \/ \E l \in Line, s \in LineStatusInput \cup {NoChange}, t \in Terms \cup {NoChange} :
          updateLineItem(l, s, t)
    \/ \E r \in RO : \/ startMPISession(r)
                     \/ GenerateEstimateRead(r)
                     \/ GenerateEstimateCommit(r)
                     \/ GenerateEstimateAbort(r)
    \/ \E r \in RO, v \in 1..MaxVersion : sendEstimate(r, v)
    \/ \E r \in RO, v \in 1..MaxVersion, method \in {"portal", "staff_attestation"},
          stepUp \in BOOLEAN : \E approved, declined \in SUBSET LinesOf(r) :
             recordAuthorization(r, v, method, stepUp, approved, declined)
    \/ \E original \in RO : createComebackCase(original)
    \/ \E r \in RO, q \in QUEUE_TYPES : CloseQueueItem(r, q)

Spec == Init /\ [][Next]_vars

--------------------------------------------------------------------------------
(* Types *)

EST_STATUSES ==
    {"draft", "sent", "partially_approved", "approved", "declined", "expired"}

QuoteType == [Line -> Terms \cup {NotQuoted}]

\* The shape of every table.
TypeOK ==
    /\ ro \in [RO -> RO_STATUSES]
    /\ line \in [Line -> [status : LINE_STATUSES \cup {"absent"},
                          auth : {"not_required", "pending", "approved", "declined"},
                          terms : Terms, est : Nat, ref : Nat]]
    /\ est \in [RO -> Seq([status : EST_STATUSES, quoted : QuoteType])]
    /\ auths \in Seq([ro : RO, est : Nat, status : {"approved", "declined"},
                      approved : SUBSET Line, declined : SUBSET Line,
                      snapshot : QuoteType])
    /\ queue \in [RO -> [QUEUE_TYPES -> Nat]]
    /\ quoting \in [RO -> QuoteType]

--------------------------------------------------------------------------------
(* Safety *)

LineHasEvidence(l) ==
    /\ line[l].auth = "approved" =>
        /\ line[l].ref \in 1..Len(auths)
        /\ auths[line[l].ref].ro = LineRO[l]
        /\ l \in auths[line[l].ref].approved
        /\ auths[line[l].ref].snapshot[l] = line[l].terms
    /\ line[l].auth = "declined" =>
        /\ line[l].ref \in 1..Len(auths)
        /\ auths[line[l].ref].ro = LineRO[l]
        /\ l \in auths[line[l].ref].declined

\* A line marked approved cites an authorization of its own repair order that
\* approved it, on exactly the terms the line carries now; a declined line cites
\* one that declined it (recordAuthorization, updateLineItem's frozen terms).
DecisionHasEvidence == \A l \in Line : LineHasEvidence(l)

\* No line is decided by two authorizations: recordAuthorization accepts only
\* pending lines, and nothing returns a decided line to pending.
DecidedOnce ==
    \A a, b \in 1..Len(auths) :
        a # b => (auths[a].approved \cup auths[a].declined)
                    \cap (auths[b].approved \cup auths[b].declined) = {}

\* Work the customer declined is never back on the shop floor, whatever
\* updateLineItem is asked for afterwards.
DeclinedStaysDeclined ==
    \A l \in Line : line[l].auth = "declined" => line[l].status = "declined"

Underway == WORK_STATES \cup {"ready_for_pickup", "closed", "comeback"}

\* A repair order that reached the shop floor, the customer or the archive has
\* an authorization on file that approved something (transitionRO's gate on
\* "authorized", which every later status is behind).
WorkHasEvidence ==
    \A r \in RO : ro[r] \in Underway =>
        \E a \in 1..Len(auths) :
            /\ auths[a].ro = r
            /\ auths[a].status = "approved"
            /\ auths[a].approved # {}

\* A repair order is in at most the one queue its status names, with one open
\* item: every status write is followed by syncQueueForRO.
QueueFollowsStatus ==
    \A r \in RO, q \in QUEUE_TYPES :
        queue[r][q] <= (IF q \in RO_STATUS_QUEUE(ro[r]) THEN 1 ELSE 0)

\* What the customer decided stands on the record: no decision without an authorization
\* that says so on the line's present terms, no line decided twice, and nothing declined
\* back at work, however decisions, edits and re-quotes are ordered.
DecisionsStand == DecisionHasEvidence /\ DecidedOnce /\ DeclinedStaysDeclined

\* A customer's decision on a line is never withdrawn, rewritten or moved to
\* another authorization, by a re-quote or anything else.
DecisionIsFinal ==
    [][\A l \in Line : line[l].auth \in {"approved", "declined"} =>
            line'[l].auth = line[l].auth /\ line'[l].ref = line[l].ref]_vars

\* An estimate that was answered in full or withdrawn never becomes answerable
\* again, and one that was sent is never a draft again.
EstimateNeverReopens ==
    [][\A r \in RO : \A v \in 1..Len(est[r]) :
            /\ est[r][v].status \in {"approved", "declined", "expired"} =>
                 est'[r][v].status = est[r][v].status
            /\ est[r][v].status # "draft" => est'[r][v].status # "draft"]_vars

\* A customer's answer is given once: neither a decided line nor an answered or withdrawn
\* estimate changes again, whatever recordAuthorization, sendEstimate and transitionRO do.
AnswersAreFinal == DecisionIsFinal /\ EstimateNeverReopens

--------------------------------------------------------------------------------
(* What the source says of itself and the code does not guarantee: each of  *)
(* these is refuted by TLC; the README lists them with their traces.       *)

\* generateEstimate: "the lines marked pending are exactly the lines that were
\* totalled".  A line out with the customer carries the terms its estimate quoted.
PendingAsQuoted ==
    \A l \in Line : line[l].auth = "pending" =>
        est[LineRO[l]][line[l].est].quoted[l] = line[l].terms

\* transitionRO: "nothing may be handed back to the customer while work is still
\* open on the repair order", nor with a chargeable line undecided.
HandedBackFinished ==
    \A r \in RO : ro[r] \in {"ready_for_pickup", "closed"} =>
        OpenWork(r) = {} /\ Undecided(r) = {}

\* transitionRO: the approval "must belong to the estimate currently in front of
\* the customer": a repair order is not authorized on a withdrawn estimate.
AuthorizedOnLiveEstimate ==
    \A r \in RO : ro[r] = "authorized" => est[r][Len(est[r])].status # "expired"

\* recordAuthorization: counting cumulatively is what keeps a later decision from
\* reporting an estimate as declined and losing an approval already recorded.
DeclinedEstimateHasNoApproval ==
    \A a \in 1..Len(auths) : auths[a].status = "approved" =>
        est[auths[a].ro][auths[a].est].status # "declined"

================================================================================
