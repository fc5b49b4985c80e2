-------------------------- MODULE RepairOrderProofs --------------------------
(***************************************************************************)
(* Proofs about RepairOrder and the service floor around it, for every set *)
(* of repair orders, lines, users and clerks and every bound.              *)
(*                                                                         *)
(* The inductive invariant of RepairOrder is IInv: the types, the safety   *)
(* invariants, and the two facts they lean on: a line decided by an        *)
(* authorization cites that very authorization (AuthorizationsHold), and a *)
(* row that does not exist yet carries no decision (AbsentUndecided).      *)
(*                                                                         *)
(* The second half is about ServiceFloor and ServiceMetrics together.      *)
(* ServiceStep shows that every step keeps ServiceInv and is a step of     *)
(* RepairOrder or leaves it alone, so the floor implements RepairOrder.    *)
(* To the board every step is one of three (BoardStep), to the parts one   *)
(* of three (PartsStep); the counts and what stays done follow from those. *)
(***************************************************************************)
EXTENDS ServiceMetrics, FiniteSetTheorems, NaturalsInduction, WellFoundedInduction, TLAPS

\* What recordAuthorization wrote about a line is still what the line says.
AuthorizationHolds(a) ==
    /\ \A l \in auths[a].approved : line[l].auth = "approved" /\ line[l].ref = a
    /\ \A l \in auths[a].declined : line[l].auth = "declined" /\ line[l].ref = a

AuthorizationsHold == \A a \in 1..Len(auths) : AuthorizationHolds(a)

\* addLineItem only creates rows nobody has decided.
AbsentUndecided ==
    \A l \in Line : line[l].status = "absent" => line[l].auth = "not_required"

IInv ==
    /\ TypeOK
    /\ DecisionHasEvidence
    /\ AuthorizationsHold
    /\ AbsentUndecided
    /\ DeclinedStaysDeclined
    /\ WorkHasEvidence
    /\ QueueFollowsStatus

--------------------------------------------------------------------------------
(* Lemmas about the operators *)

LEMMA TransitionsAreStatuses ==
    \A s \in RO_STATUSES : RO_TRANSITIONS(s) \subseteq RO_STATUSES
  BY DEF RO_STATUSES, RO_TRANSITIONS

\* A queue vector that is synchronised holds one item at most, of the type the
\* new status names.
LEMMA SyncQueue ==
    ASSUME NEW open \in [QUEUE_TYPES -> Nat], NEW s \in RO_STATUSES,
           \A q \in QUEUE_TYPES : open[q] <= 1
    PROVE  /\ syncQueueForRO(open, s) \in [QUEUE_TYPES -> Nat]
           /\ \A q \in QUEUE_TYPES :
                 syncQueueForRO(open, s)[q] <= (IF q \in RO_STATUS_QUEUE(s) THEN 1 ELSE 0)
  BY DEF syncQueueForRO

\* The derived statuses are statuses.
LEMMA DerivedEstimateStatus ==
    ASSUME NEW r, NEW v, NEW rows
    PROVE  TalliedStatus(r, v, rows) \in EST_STATUSES \ {"draft", "sent", "expired"}
  BY DEF TalliedStatus, deriveEstimateStatus, EST_STATUSES

\* The only ways forward into the work states are from a work state, or through
\* the gate on "authorized".
LEMMA WorkIsBehindTheGate ==
    ASSUME NEW s \in RO_STATUSES, NEW to \in RO_TRANSITIONS(s), to \in Underway
    PROVE  s \in Underway \/ to = "authorized"
  BY DEF RO_STATUSES, RO_TRANSITIONS, Underway, WORK_STATES

--------------------------------------------------------------------------------
LineType ==
    [status : LINE_STATUSES \cup {"absent"},
     auth : {"not_required", "pending", "approved", "declined"},
     terms : Terms, est : Nat, ref : Nat]

LEMMA InitIInv == Init => IInv
  <1> SUFFICES ASSUME Init PROVE IInv
    OBVIOUS
  <1>1. TypeOK
    <2>1. NoLine \in LineType
      BY TermsAssumption DEF NoLine, LineType
    <2>2. line \in [Line -> LineType]
      BY <2>1 DEF Init
    <2>3. ro \in [RO -> RO_STATUSES] /\ queue \in [RO -> [QUEUE_TYPES -> Nat]]
      BY DEF Init, RO_STATUSES
    <2>4. quoting \in [RO -> QuoteType]
      BY DEF Init, QuoteType, NoQuote
    <2> QED
      BY <2>2, <2>3, <2>4 DEF Init, TypeOK, LineType
  <1>2. DecisionHasEvidence /\ AbsentUndecided /\ DeclinedStaysDeclined
    BY DEF Init, NoLine, DecisionHasEvidence, LineHasEvidence, AbsentUndecided, DeclinedStaysDeclined
  <1>3. AuthorizationsHold
    BY DEF Init, AuthorizationsHold, AuthorizationHolds
  <1>4. WorkHasEvidence
    BY DEF Init, WorkHasEvidence, Underway, WORK_STATES
  <1>5. QueueFollowsStatus
    BY DEF Init, QueueFollowsStatus
  <1> QED
    BY <1>1, <1>2, <1>3, <1>4, <1>5 DEF IInv

--------------------------------------------------------------------------------
(* Every step preserves the types *)

EstType == [status : EST_STATUSES, quoted : QuoteType]

AuthType ==
    [ro : RO, est : Nat, status : {"approved", "declined"},
     approved : SUBSET Line, declined : SUBSET Line, snapshot : QuoteType]

LEMMA EstimateRewrite ==
    ASSUME NEW x \in EstType, NEW s \in EST_STATUSES
    PROVE  [x EXCEPT !.status = s] \in EstType
  BY DEF EstType

\* Rewriting the status of one estimate keeps the table of estimates.
LEMMA EstimatesRewrite ==
    ASSUME NEW t \in [RO -> Seq(EstType)], NEW r \in RO, NEW v \in 1..Len(t[r]),
           NEW s \in EST_STATUSES
    PROVE  /\ [t EXCEPT ![r][v].status = s] \in [RO -> Seq(EstType)]
           /\ [t EXCEPT ![r][v].status = s][r] = [t[r] EXCEPT ![v] = [t[r][v] EXCEPT !.status = s]]
           /\ Len([t EXCEPT ![r][v].status = s][r]) = Len(t[r])
  <1>1. t[r][v] \in EstType
    OBVIOUS
  <1>2. [t[r][v] EXCEPT !.status = s] \in EstType
    BY <1>1, EstimateRewrite
  <1>3. [t[r] EXCEPT ![v] = [t[r][v] EXCEPT !.status = s]] \in Seq(EstType)
    BY <1>2
  <1> QED
    BY <1>3

LEMMA MoveToTypes ==
    ASSUME TypeOK, NEW r \in RO, NEW s \in RO_STATUSES, MoveTo(r, s) \/ StayPut
    PROVE  ro' \in [RO -> RO_STATUSES] /\ queue' \in [RO -> [QUEUE_TYPES -> Nat]]
  <1>1. CASE StayPut
    BY <1>1 DEF StayPut, TypeOK
  <1>2. CASE MoveTo(r, s)
    <2>1. syncQueueForRO(queue[r], s) \in [QUEUE_TYPES -> Nat]
      BY DEF TypeOK, syncQueueForRO
    <2> QED
      BY <1>2, <2>1 DEF MoveTo, TypeOK
  <1> QED
    BY <1>1, <1>2

LEMMA DecidedTypes ==
    ASSUME TypeOK, NEW approved \in SUBSET Line, NEW declined \in SUBSET Line, NEW a \in Nat
    PROVE  Decided(approved, declined, a) \in [Line -> LineType]
  <1>1. line \in [Line -> LineType]
    BY DEF TypeOK, LineType
  <1> SUFFICES ASSUME NEW l \in Line
               PROVE  Decided(approved, declined, a)[l] \in LineType
    BY DEF Decided
  <1>a. line[l] \in LineType
    BY <1>1
  <1>2. CASE l \notin declined /\ l \in approved
    <2>1. [line[l] EXCEPT !.auth = "approved", !.ref = a] \in LineType
      BY <1>a DEF LineType
    <2> QED
      BY <1>2, <2>1 DEF Decided
  <1>3. CASE l \in declined
    <2>1. [line[l] EXCEPT !.auth = "declined", !.status = "declined", !.ref = a] \in LineType
      BY <1>a DEF LineType, LINE_STATUSES
    <2> QED
      BY <1>3, <2>1 DEF Decided
  <1>4. CASE l \notin approved /\ l \notin declined
    BY <1>1, <1>4 DEF Decided
  <1> QED
    BY <1>2, <1>3, <1>4

LEMMA TypeStep == TypeOK /\ [Next]_vars => TypeOK'
  <1> SUFFICES ASSUME TypeOK, [Next]_vars PROVE TypeOK'
    OBVIOUS
  <1>0. /\ ro \in [RO -> RO_STATUSES]
        /\ line \in [Line -> LineType]
        /\ est \in [RO -> Seq(EstType)]
        /\ auths \in Seq(AuthType)
        /\ queue \in [RO -> [QUEUE_TYPES -> Nat]]
        /\ quoting \in [RO -> QuoteType]
        /\ NoQuote \in QuoteType
    BY DEF TypeOK, LineType, EstType, AuthType, NoQuote, QuoteType
  <1> DEFINE Goal == /\ ro' \in [RO -> RO_STATUSES]
                     /\ line' \in [Line -> LineType]
                     /\ est' \in [RO -> Seq(EstType)]
                     /\ auths' \in Seq(AuthType)
                     /\ queue' \in [RO -> [QUEUE_TYPES -> Nat]]
                     /\ quoting' \in [RO -> QuoteType]
  <1> SUFFICES Goal
    BY DEF TypeOK, LineType, EstType, AuthType
  <1>1. ASSUME NEW r \in RO, NEW to \in RO_STATUSES, NEW stepUp \in BOOLEAN,
               transitionRO(r, to, stepUp)
        PROVE  Goal
    <2>1. ro' \in [RO -> RO_STATUSES] /\ queue' \in [RO -> [QUEUE_TYPES -> Nat]]
      BY <1>1, MoveToTypes DEF transitionRO
    <2>2. CASE to # "estimate_pending"
      BY <1>0, <1>1, <2>1, <2>2 DEF transitionRO
    <2>3. CASE to = "estimate_pending"
      <3>1. line' \in [Line -> LineType]
        <4>1. line' = [l \in Line |->
                          IF l \in LinesOf(r) /\ line[l].auth = "pending"
                          THEN [line[l] EXCEPT !.auth = "not_required"] ELSE line[l]]
          BY <1>1, <2>3 DEF transitionRO, WithdrawQuote
        <4>2. \A l \in Line : [line[l] EXCEPT !.auth = "not_required"] \in LineType
          BY <1>0 DEF LineType
        <4> QED
          BY <1>0, <4>1, <4>2
      <3>2. est' \in [RO -> Seq(EstType)]
        <4>1. est[r] \in Seq(EstType)
          BY <1>0
        <4> DEFINE new == [v \in DOMAIN est[r] |->
                              IF est[r][v].status \in {"sent", "partially_approved"}
                              THEN [est[r][v] EXCEPT !.status = "expired"] ELSE est[r][v]]
        <4>2. \A v \in DOMAIN est[r] : new[v] \in EstType
          <5>1. \A v \in DOMAIN est[r] : est[r][v] \in EstType
            BY <4>1
          <5>2. "expired" \in EST_STATUSES
            BY DEF EST_STATUSES
          <5> QED
            BY <5>1, <5>2, EstimateRewrite
        <4>3. new \in Seq(EstType)
          <5>1. new \in [1..Len(est[r]) -> EstType]
            <6>1. DOMAIN est[r] = 1..Len(est[r])
              BY <4>1
            <6> QED
              BY <4>2, <6>1
          <5> HIDE DEF new
          <5> QED
            BY <4>1, <5>1
        <4>4. est' = [est EXCEPT ![r] = new]
          BY <1>1, <2>3, <1>0 DEF transitionRO, WithdrawQuote
        <4> QED
          BY <1>0, <4>3, <4>4
      <3> QED
        BY <1>0, <1>1, <2>1, <3>1, <3>2 DEF transitionRO
    <2> QED
      BY <2>2, <2>3
  <1>2. ASSUME NEW l \in Line, addLineItem(l)
        PROVE  Goal
    <2>1. [NoLine EXCEPT !.status = "proposed"] \in LineType
      BY TermsAssumption DEF NoLine, LineType, LINE_STATUSES
    <2> QED
      BY <1>0, <1>2, <2>1 DEF addLineItem
  <1>3. ASSUME NEW l \in Line, NEW s \in LineStatusInput \cup {NoChange},
               NEW t \in Terms \cup {NoChange}, updateLineItem(l, s, t)
        PROVE  Goal
    <2>1. line' \in [Line -> LineType]
      <3> DEFINE s2 == IF s = NoChange THEN line[l].status ELSE s
                 t2 == IF t = NoChange THEN line[l].terms ELSE t
      <3>1. s2 \in LINE_STATUSES /\ t2 \in Terms
        BY <1>0, <1>3, InputAssumption, NoChangeAssumption DEF updateLineItem, Writable, LineType
      <3>2. line' = [line EXCEPT ![l] = [line[l] EXCEPT !.status = s2, !.terms = t2]]
        BY <1>0, <1>3 DEF updateLineItem, Writable, LineType
      <3> HIDE DEF s2, t2
      <3>3. line[l] \in LineType
        BY <1>0
      <3>4. [line[l] EXCEPT !.status = s2, !.terms = t2] \in LineType
        BY <3>1, <3>3 DEF LineType
      <3> QED
        BY <1>0, <3>2, <3>4
    <2> QED
      BY <1>0, <1>3, <2>1 DEF updateLineItem, Writable
  <1>4. ASSUME NEW r \in RO, startMPISession(r)
        PROVE  Goal
    BY <1>0, <1>4, MoveToTypes DEF startMPISession, RO_STATUSES
  <1>5. ASSUME NEW r \in RO, GenerateEstimateRead(r)
        PROVE  Goal
    <2>1. [l \in Line |-> IF l \in Quotable(r) THEN line[l].terms ELSE NotQuoted] \in QuoteType
      BY <1>0 DEF QuoteType, LineType
    <2> QED
      BY <1>0, <1>5, <2>1 DEF GenerateEstimateRead
  <1>6. ASSUME NEW r \in RO, GenerateEstimateCommit(r)
        PROVE  Goal
    <2>1. ro' \in [RO -> RO_STATUSES] /\ queue' \in [RO -> [QUEUE_TYPES -> Nat]]
      BY <1>6, MoveToTypes DEF GenerateEstimateCommit, RO_STATUSES
    <2>2. est' \in [RO -> Seq(EstType)]
      <3>1. [status |-> "draft", quoted |-> quoting[r]] \in EstType
        BY <1>0 DEF EstType, EST_STATUSES
      <3> QED
        <4>1. est' = [est EXCEPT ![r] = Append(est[r], [status |-> "draft", quoted |-> quoting[r]])]
          BY <1>0, <1>6 DEF GenerateEstimateCommit
        <4>2. Append(est[r], [status |-> "draft", quoted |-> quoting[r]]) \in Seq(EstType)
          BY <1>0, <3>1
        <4> QED
          BY <1>0, <4>1, <4>2
    <2>3. line' \in [Line -> LineType]
      <3>1. Len(est[r]) + 1 \in Nat
        BY <1>0
      <3> QED
        <4> DEFINE n == Len(est[r]) + 1
        <4>1. line' = [l \in Line |-> IF l \in Quotable(r)
                                      THEN [line[l] EXCEPT !.auth = "pending", !.est = n]
                                      ELSE line[l]]
          BY <1>6 DEF GenerateEstimateCommit
        <4> HIDE DEF n
        <4>2. \A l \in Line : [line[l] EXCEPT !.auth = "pending", !.est = n] \in LineType
          <5> SUFFICES ASSUME NEW l \in Line
                       PROVE  [line[l] EXCEPT !.auth = "pending", !.est = n] \in LineType
            OBVIOUS
          <5>1. line[l] \in LineType /\ n \in Nat
            BY <1>0, <3>1 DEF n
          <5> QED
            BY <5>1 DEF LineType
        <4> QED
          BY <1>0, <4>1, <4>2
    <2> QED
      BY <1>0, <1>6, <2>1, <2>2, <2>3 DEF GenerateEstimateCommit
  <1>7. ASSUME NEW r \in RO, GenerateEstimateAbort(r)
        PROVE  Goal
    BY <1>0, <1>7 DEF GenerateEstimateAbort
  <1>8. ASSUME NEW r \in RO, NEW v \in 1..MaxVersion, sendEstimate(r, v)
        PROVE  Goal
    <2>1. ro' \in [RO -> RO_STATUSES] /\ queue' \in [RO -> [QUEUE_TYPES -> Nat]]
      BY <1>8, MoveToTypes DEF sendEstimate, RO_STATUSES
    <2>2. est' \in [RO -> Seq(EstType)]
      BY <1>0, <1>8, EstimatesRewrite DEF sendEstimate, EST_STATUSES
    <2> QED
      BY <1>0, <1>8, <2>1, <2>2 DEF sendEstimate
  <1>9. ASSUME NEW r \in RO, NEW v \in 1..MaxVersion, NEW method, NEW stepUp,
               NEW approved \in SUBSET LinesOf(r), NEW declined \in SUBSET LinesOf(r),
               recordAuthorization(r, v, method, stepUp, approved, declined)
        PROVE  Goal
    <2>0. approved \in SUBSET Line /\ declined \in SUBSET Line
      BY DEF LinesOf
    <2>1. line' \in [Line -> LineType]
      <3>1. Len(auths) + 1 \in Nat
        BY <1>0
      <3> QED
        BY <1>9, <2>0, <3>1, DecidedTypes DEF recordAuthorization, AwaitingDecision
    <2>2. est' \in [RO -> Seq(EstType)]
      <3> DEFINE st == TalliedStatus(r, v, Decided(approved, declined, Len(auths) + 1))
      <3>1. st \in EST_STATUSES
        BY DerivedEstimateStatus
      <3>2. est' = [est EXCEPT ![r][v].status = st] /\ v \in 1..Len(est[r])
        BY <1>9 DEF recordAuthorization, AwaitingDecision
      <3> HIDE DEF st
      <3> QED
        BY <1>0, <3>1, <3>2, EstimatesRewrite
    <2>3. auths' \in Seq(AuthType)
      <3> DEFINE snap == [l \in Line |-> IF l \in approved THEN line[l].terms ELSE NotQuoted]
                 st == deriveAuthorizationStatus(approved)
      <3>1. snap \in QuoteType
        BY <1>0 DEF QuoteType, LineType
      <3>2. st \in {"approved", "declined"}
        BY DEF deriveAuthorizationStatus
      <3>3. auths' = Append(auths, [ro |-> r, est |-> v, status |-> st, approved |-> approved,
                                    declined |-> declined, snapshot |-> snap])
        BY <1>9 DEF recordAuthorization, AwaitingDecision
      <3>4. v \in Nat
        BY BoundAssumption
      <3> HIDE DEF snap, st
      <3>5. [ro |-> r, est |-> v, status |-> st, approved |-> approved,
             declined |-> declined, snapshot |-> snap] \in AuthType
        BY <2>0, <3>1, <3>2, <3>4 DEF AuthType
      <3> QED
        BY <1>0, <3>3, <3>5
    <2> QED
      BY <1>0, <1>9, <2>1, <2>2, <2>3 DEF recordAuthorization, AwaitingDecision
  <1>10. ASSUME NEW original \in RO, createComebackCase(original)
         PROVE  Goal
    BY <1>0, <1>10, MoveToTypes DEF createComebackCase, RO_STATUSES
  <1>11. ASSUME NEW r \in RO, NEW q \in QUEUE_TYPES, CloseQueueItem(r, q)
         PROVE  Goal
    BY <1>0, <1>11 DEF CloseQueueItem
  <1>12. CASE UNCHANGED vars
    BY <1>0, <1>12 DEF vars
  <1> QED
    BY <1>1, <1>2, <1>3, <1>4, <1>5, <1>6, <1>7, <1>8, <1>9, <1>10, <1>11, <1>12 DEF Next

\* Every table keeps its shape, whatever the sets of repair orders and lines.
THEOREM TypeCorrect == Spec => []TypeOK
  <1>1. Init => TypeOK
    BY InitIInv DEF IInv
  <1> QED
    BY <1>1, TypeStep, PTL DEF Spec

--------------------------------------------------------------------------------
(* Decisions.  A step that records no authorization is quiet: it decides    *)
(* nothing, keeps every decision and the terms of every approved line, and  *)
(* unmakes no row.                                                          *)

Quiet ==
    /\ auths' = auths
    /\ \A l \in Line :
        /\ line[l].auth \in {"approved", "declined"} =>
              line'[l].auth = line[l].auth /\ line'[l].ref = line[l].ref
        /\ line[l].auth = "approved" => line'[l].terms = line[l].terms
        /\ line'[l].auth \in {"approved", "declined"} => line'[l].auth = line[l].auth
        /\ line[l].auth = "declined" /\ line[l].status = "declined" =>
              line'[l].status = "declined"
        /\ line'[l].status = "absent" => line'[l] = line[l]

LEMMA SameLinesQuiet ==
    ASSUME auths' = auths, line' = line
    PROVE  Quiet
  BY DEF Quiet

LEMMA TransitionQuiet ==
    ASSUME TypeOK, AbsentUndecided, NEW r \in RO, NEW to, NEW stepUp, transitionRO(r, to, stepUp)
    PROVE  Quiet
  <1>0. line \in [Line -> LineType]
    BY DEF TypeOK, LineType
  <1>1. CASE to # "estimate_pending"
    BY <1>1, SameLinesQuiet DEF transitionRO
  <1>2. CASE to = "estimate_pending"
    <2>1. \A l \in Line : \/ line'[l] = line[l]
                          \/ /\ line[l].auth = "pending" /\ line[l].status # "absent"
                             /\ line'[l] = [line[l] EXCEPT !.auth = "not_required"]
      BY <1>2 DEF transitionRO, WithdrawQuote, LinesOf
    <2>2. auths' = auths
      BY DEF transitionRO
    <2> QED
      BY <1>0, <2>1, <2>2 DEF Quiet, LineType
  <1> QED
    BY <1>1, <1>2

LEMMA AddLineQuiet ==
    ASSUME TypeOK, AbsentUndecided, NEW l \in Line, addLineItem(l)
    PROVE  Quiet
  <1>0. line \in [Line -> LineType]
    BY DEF TypeOK, LineType
  <1>1. line[l].auth = "not_required"
    BY DEF AbsentUndecided, addLineItem
  <1>2. /\ line'[l].auth = "not_required" /\ line'[l].status = "proposed"
        /\ \A k \in Line : k # l => line'[k] = line[k]
        /\ auths' = auths
    BY <1>0 DEF addLineItem, NoLine
  <1> QED
    BY <1>1, <1>2 DEF Quiet

LEMMA UpdateLineQuiet ==
    ASSUME TypeOK, NEW l \in Line, NEW s \in LineStatusInput \cup {NoChange},
           NEW t \in Terms \cup {NoChange}, updateLineItem(l, s, t)
    PROVE  Quiet
  <1>0. line \in [Line -> LineType]
    BY DEF TypeOK, LineType
  <1> DEFINE s2 == IF s = NoChange THEN line[l].status ELSE s
             t2 == IF t = NoChange THEN line[l].terms ELSE t
  <1>1. line' = [line EXCEPT ![l] = [line[l] EXCEPT !.status = s2, !.terms = t2]]
    BY <1>0 DEF updateLineItem, Writable, LineType
  <1>2. /\ line'[l].auth = line[l].auth /\ line'[l].ref = line[l].ref
        /\ line'[l].status = s2 /\ line'[l].terms = t2
        /\ \A k \in Line : k # l => line'[k] = line[k]
    <2>1. line[l] \in LineType
      BY <1>0
    <2> HIDE DEF s2, t2
    <2> QED
      BY <1>0, <1>1, <2>1 DEF LineType
  <1>3. s2 # "absent"
    BY InputAssumption, NoChangeAssumption DEF updateLineItem, Writable, LINE_STATUSES
  <1>4. line[l].auth = "approved" => t2 = line[l].terms
    BY DEF updateLineItem, Writable
  <1>5. line[l].auth = "declined" /\ line[l].status = "declined" => s2 = "declined"
    BY DEF updateLineItem, Writable
  <1>6. auths' = auths
    BY DEF updateLineItem, Writable
  <1> HIDE DEF s2, t2
  <1> QED
    BY <1>2, <1>3, <1>4, <1>5, <1>6 DEF Quiet

LEMMA CommitQuiet ==
    ASSUME TypeOK, AbsentUndecided, NEW r \in RO, GenerateEstimateCommit(r)
    PROVE  Quiet
  <1>0. line \in [Line -> LineType]
    BY DEF TypeOK, LineType
  <1> DEFINE n == Len(est[r]) + 1
  <1>1. \A l \in Line : \/ line'[l] = line[l]
                        \/ /\ line[l].auth = "not_required" /\ line[l].status # "absent"
                           /\ line'[l] = [line[l] EXCEPT !.auth = "pending", !.est = n]
    BY DEF GenerateEstimateCommit, Quotable, LinesOf
  <1>2. auths' = auths
    BY DEF GenerateEstimateCommit
  <1> HIDE DEF n
  <1> QED
    BY <1>0, <1>1, <1>2 DEF Quiet, LineType

\* The parameters recordAuthorization can be called with.
AuthorizationStep ==
    \E r \in RO, v \in 1..MaxVersion, method \in {"portal", "staff_attestation"},
       stepUp \in BOOLEAN : \E approved, declined \in SUBSET LinesOf(r) :
          recordAuthorization(r, v, method, stepUp, approved, declined)

LEMMA OtherStepsAreQuiet ==
    ASSUME TypeOK, AbsentUndecided, [Next]_vars
    PROVE  Quiet \/ AuthorizationStep
  <1>1. CASE \E r \in RO, to \in RO_STATUSES, stepUp \in BOOLEAN : transitionRO(r, to, stepUp)
    BY <1>1, TransitionQuiet
  <1>2. CASE \E l \in Line : addLineItem(l)
    BY <1>2, AddLineQuiet
  <1>3. CASE \E l \in Line, s \in LineStatusInput \cup {NoChange}, t \in Terms \cup {NoChange} :
                updateLineItem(l, s, t)
    BY <1>3, UpdateLineQuiet
  <1>4. CASE \E r \in RO : GenerateEstimateCommit(r)
    BY <1>4, CommitQuiet
  <1>5. CASE \E r \in RO : startMPISession(r) \/ GenerateEstimateRead(r) \/ GenerateEstimateAbort(r)
    BY <1>5, SameLinesQuiet DEF startMPISession, GenerateEstimateRead, GenerateEstimateAbort
  <1>6. CASE \E r \in RO, v \in 1..MaxVersion : sendEstimate(r, v)
    BY <1>6, SameLinesQuiet DEF sendEstimate
  <1>7. CASE \E original \in RO : createComebackCase(original)
    BY <1>7, SameLinesQuiet DEF createComebackCase
  <1>8. CASE \E r \in RO, q \in QUEUE_TYPES : CloseQueueItem(r, q)
    BY <1>8, SameLinesQuiet DEF CloseQueueItem
  <1>9. CASE UNCHANGED vars
    BY <1>9, SameLinesQuiet DEF vars
  <1> QED
    BY <1>1, <1>2, <1>3, <1>4, <1>5, <1>6, <1>7, <1>8, <1>9 DEF Next, AuthorizationStep

--------------------------------------------------------------------------------
(* What recordAuthorization does to the lines it decides, and to no other *)

Decision(approved, declined, r) ==
    /\ approved \subseteq Line /\ declined \subseteq Line
    /\ approved \cap declined = {}
    /\ Len(auths') = Len(auths) + 1
    /\ \A a \in 1..Len(auths) : auths'[a] = auths[a]
    /\ auths'[Len(auths) + 1].ro = r
    /\ auths'[Len(auths) + 1].approved = approved
    /\ auths'[Len(auths) + 1].declined = declined
    /\ \A l \in approved : auths'[Len(auths) + 1].snapshot[l] = line[l].terms
    /\ \A l \in Line :
        /\ l \in approved \cup declined => /\ line[l].auth = "pending"
                                           /\ line[l].status # "absent"
                                           /\ LineRO[l] = r
                                           /\ line'[l].ref = Len(auths) + 1
        /\ l \in approved => /\ line'[l].auth = "approved"
                             /\ line'[l].terms = line[l].terms
                             /\ line'[l].status = line[l].status
        /\ l \in declined => line'[l].auth = "declined" /\ line'[l].status = "declined"
        /\ l \notin approved \cup declined => line'[l] = line[l]

LEMMA AuthorizationDecides ==
    ASSUME TypeOK, AuthorizationStep
    PROVE  \E approved, declined \in SUBSET Line : \E r \in RO : Decision(approved, declined, r)
  <1>0. /\ line \in [Line -> LineType]
        /\ auths \in Seq(AuthType)
    BY DEF TypeOK, LineType, AuthType
  <1>a. PICK r \in RO, v \in 1..MaxVersion, method \in {"portal", "staff_attestation"},
             stepUp \in BOOLEAN :
             \E approved, declined \in SUBSET LinesOf(r) :
                recordAuthorization(r, v, method, stepUp, approved, declined)
    BY DEF AuthorizationStep
  <1>1. PICK approved \in SUBSET LinesOf(r), declined \in SUBSET LinesOf(r) :
             recordAuthorization(r, v, method, stepUp, approved, declined)
    BY <1>a
  <1> DEFINE n == Len(auths) + 1
             row == [ro |-> r, est |-> v, status |-> deriveAuthorizationStatus(approved),
                     approved |-> approved, declined |-> declined,
                     snapshot |-> [l \in Line |->
                             IF l \in approved THEN line[l].terms ELSE NotQuoted]]
  <1>2. /\ approved \in SUBSET Line /\ declined \in SUBSET Line
        /\ \A l \in approved \cup declined : LineRO[l] = r /\ line[l].status # "absent"
    BY DEF LinesOf
  <1>3. auths' = Append(auths, row)
    BY <1>1 DEF recordAuthorization, AwaitingDecision
  <1>4. /\ row.ro = r /\ row.approved = approved /\ row.declined = declined
        /\ \A l \in approved : row.snapshot[l] = line[l].terms
    BY <1>2
  <1> HIDE DEF row
  <1>5. /\ Len(auths') = n
        /\ \A a \in 1..Len(auths) : auths'[a] = auths[a]
        /\ auths'[n] = row
    BY <1>0, <1>3
  <1>6. /\ approved \cap declined = {}
        /\ \A l \in approved \cup declined : line[l].auth = "pending"
        /\ line' = Decided(approved, declined, n)
    BY <1>1 DEF recordAuthorization, AwaitingDecision
  <1> HIDE DEF n
  <1>7. ASSUME NEW l \in approved
        PROVE  /\ line'[l].auth = "approved" /\ line'[l].ref = n
               /\ line'[l].terms = line[l].terms /\ line'[l].status = line[l].status
    <2>1. line[l] \in LineType /\ l \notin declined /\ l \in Line
      BY <1>0, <1>2, <1>6
    <2>2. line'[l] = [line[l] EXCEPT !.auth = "approved", !.ref = n]
      BY <1>6, <2>1 DEF Decided
    <2> QED
      BY <2>1, <2>2 DEF LineType
  <1>8. ASSUME NEW l \in declined
        PROVE  line'[l].auth = "declined" /\ line'[l].ref = n /\ line'[l].status = "declined"
    <2>1. line[l] \in LineType /\ l \in Line
      BY <1>0, <1>2
    <2>2. line'[l] = [line[l] EXCEPT !.auth = "declined", !.status = "declined", !.ref = n]
      BY <1>6, <2>1 DEF Decided
    <2> QED
      BY <2>1, <2>2 DEF LineType
  <1>9. ASSUME NEW l \in Line, l \notin approved \cup declined
        PROVE  line'[l] = line[l]
    BY <1>6, <1>9 DEF Decided
  <1>10. Decision(approved, declined, r)
    BY <1>2, <1>4, <1>5, <1>6, <1>7, <1>8, <1>9 DEF Decision, n
  <1> QED
    BY <1>2, <1>10

--------------------------------------------------------------------------------
(* The invariants about decisions *)

DecisionInv ==
    DecisionHasEvidence /\ AuthorizationsHold /\ AbsentUndecided /\ DeclinedStaysDeclined

LEMMA DecisionStep ==
    ASSUME TypeOK, DecisionInv, [Next]_vars
    PROVE  DecisionInv'
  <1>0. /\ line \in [Line -> LineType]
        /\ Len(auths) \in Nat
        /\ \A a \in 1..Len(auths) : auths[a].approved \subseteq Line /\ auths[a].declined \subseteq Line
    <2>1. line \in [Line -> LineType] /\ auths \in Seq(AuthType)
      BY DEF TypeOK, LineType, AuthType
    <2>2. \A a \in 1..Len(auths) : auths[a] \in AuthType
      BY <2>1
    <2> QED
      BY <2>1, <2>2 DEF AuthType
  <1>1. CASE Quiet
    <2>1. DecisionHasEvidence'
      BY <1>1 DEF Quiet, DecisionInv, DecisionHasEvidence, LineHasEvidence
    <2>2. AuthorizationsHold'
      BY <1>0, <1>1 DEF Quiet, DecisionInv, AuthorizationsHold, AuthorizationHolds
    <2>3. AbsentUndecided'
      BY <1>1 DEF Quiet, DecisionInv, AbsentUndecided
    <2>4. DeclinedStaysDeclined'
      BY <1>1 DEF Quiet, DecisionInv, DeclinedStaysDeclined
    <2> QED
      BY <2>1, <2>2, <2>3, <2>4 DEF DecisionInv
  <1>2. CASE AuthorizationStep
    <2>1. PICK approved \in SUBSET Line, declined \in SUBSET Line, r \in RO :
               Decision(approved, declined, r)
      BY <1>2, AuthorizationDecides
    <2>2. DecisionHasEvidence'
      <3> SUFFICES ASSUME NEW l \in Line PROVE LineHasEvidence(l)'
        BY DEF DecisionHasEvidence, LineHasEvidence
      <3>1. CASE l \in approved
        BY <1>0, <2>1, <3>1 DEF Decision, LineHasEvidence
      <3>2. CASE l \in declined
        BY <1>0, <2>1, <3>2 DEF Decision, LineHasEvidence
      <3>3. CASE l \notin approved \cup declined
        BY <1>0, <2>1, <3>3 DEF Decision, DecisionInv, DecisionHasEvidence, LineHasEvidence
      <3> QED
        BY <3>1, <3>2, <3>3
    <2>3. AuthorizationsHold'
      <3> SUFFICES ASSUME NEW a \in 1..(Len(auths) + 1) PROVE AuthorizationHolds(a)'
        BY <2>1 DEF AuthorizationsHold, Decision
      <3>1. CASE a = Len(auths) + 1
        BY <2>1, <3>1 DEF Decision, AuthorizationHolds
      <3>2. CASE a \in 1..Len(auths)
        <4>1. auths'[a] = auths[a]
          BY <2>1, <3>2 DEF Decision
        <4>2. \A l \in auths[a].approved \cup auths[a].declined :
                 l \in Line /\ line[l].auth \in {"approved", "declined"}
          BY <1>0, <3>2 DEF DecisionInv, AuthorizationsHold, AuthorizationHolds
        <4>3. \A l \in auths[a].approved \cup auths[a].declined : line'[l] = line[l]
          BY <2>1, <4>2 DEF Decision
        <4> QED
          BY <3>2, <4>1, <4>3 DEF DecisionInv, AuthorizationsHold, AuthorizationHolds
      <3> QED
        BY <1>0, <3>1, <3>2
    <2>4. AbsentUndecided'
      BY <2>1 DEF Decision, DecisionInv, AbsentUndecided
    <2>5. DeclinedStaysDeclined'
      BY <2>1 DEF Decision, DecisionInv, DeclinedStaysDeclined
    <2> QED
      BY <2>2, <2>3, <2>4, <2>5 DEF DecisionInv
  <1> QED
    BY <1>1, <1>2, OtherStepsAreQuiet DEF DecisionInv

--------------------------------------------------------------------------------
(* The queue.  A step moves one repair order and synchronises its queues,   *)
(* closes an item, or touches neither.                                      *)

LEMMA MoveToQueue ==
    ASSUME TypeOK, QueueFollowsStatus, NEW r \in RO, NEW s \in RO_STATUSES, MoveTo(r, s)
    PROVE  QueueFollowsStatus'
  <1>0. queue[r] \in [QUEUE_TYPES -> Nat]
    BY DEF TypeOK
  <1>1. \A q \in QUEUE_TYPES : queue[r][q] <= 1
    <2> SUFFICES ASSUME NEW q \in QUEUE_TYPES PROVE queue[r][q] <= 1
      OBVIOUS
    <2>1. queue[r][q] <= 1 \/ queue[r][q] <= 0
      BY DEF QueueFollowsStatus
    <2> QED
      BY <1>0, <2>1
  <1>2. \A q \in QUEUE_TYPES :
           syncQueueForRO(queue[r], s)[q] <= (IF q \in RO_STATUS_QUEUE(s) THEN 1 ELSE 0)
    BY <1>0, <1>1, SyncQueue
  <1>3. /\ queue'[r] = syncQueueForRO(queue[r], s) /\ ro'[r] = s
        /\ \A k \in RO : k # r => queue'[k] = queue[k] /\ ro'[k] = ro[k]
    BY DEF MoveTo, TypeOK
  <1> QED
    BY <1>2, <1>3 DEF QueueFollowsStatus

LEMMA QueueStep ==
    ASSUME TypeOK, QueueFollowsStatus, [Next]_vars
    PROVE  QueueFollowsStatus'
  <1>1. CASE UNCHANGED <<ro, queue>>
    BY <1>1 DEF QueueFollowsStatus
  <1>2. ASSUME NEW r \in RO, NEW to \in RO_STATUSES, NEW stepUp \in BOOLEAN,
               transitionRO(r, to, stepUp)
        PROVE  QueueFollowsStatus'
    BY <1>2, MoveToQueue DEF transitionRO
  <1>3. ASSUME NEW r \in RO, startMPISession(r)
        PROVE  QueueFollowsStatus'
    BY <1>1, <1>3, MoveToQueue DEF startMPISession, StayPut, RO_STATUSES
  <1>4. ASSUME NEW r \in RO, GenerateEstimateCommit(r)
        PROVE  QueueFollowsStatus'
    BY <1>1, <1>4, MoveToQueue DEF GenerateEstimateCommit, StayPut, RO_STATUSES
  <1>5. ASSUME NEW r \in RO, NEW v \in 1..MaxVersion, sendEstimate(r, v)
        PROVE  QueueFollowsStatus'
    BY <1>1, <1>5, MoveToQueue DEF sendEstimate, StayPut, RO_STATUSES
  <1>6. ASSUME NEW original \in RO, createComebackCase(original)
        PROVE  QueueFollowsStatus'
    BY <1>6, MoveToQueue DEF createComebackCase, RO_STATUSES
  <1>7. ASSUME NEW r \in RO, NEW q \in QUEUE_TYPES, CloseQueueItem(r, q)
        PROVE  QueueFollowsStatus'
    <2>1. ro' = ro /\ queue' = [queue EXCEPT ![r][q] = @ - 1] /\ queue[r][q] > 0
      BY <1>7 DEF CloseQueueItem
    <2>2. \A k \in RO, p \in QUEUE_TYPES : queue'[k][p] <= queue[k][p] /\ queue'[k][p] \in Nat
      BY <2>1 DEF TypeOK
    <2> QED
      BY <2>1, <2>2 DEF QueueFollowsStatus, TypeOK
  <1>8. CASE AuthorizationStep
    BY <1>1, <1>8 DEF AuthorizationStep, recordAuthorization, AwaitingDecision
  <1>9. CASE \/ \E l \in Line : addLineItem(l)
             \/ \E l \in Line, s \in LineStatusInput \cup {NoChange}, t \in Terms \cup {NoChange} :
                   updateLineItem(l, s, t)
             \/ \E r \in RO : GenerateEstimateRead(r) \/ GenerateEstimateAbort(r)
             \/ UNCHANGED vars
    BY <1>1, <1>9 DEF addLineItem, updateLineItem, Writable, GenerateEstimateRead, GenerateEstimateAbort, vars
  <1> QED
    BY <1>2, <1>3, <1>4, <1>5, <1>6, <1>7, <1>8, <1>9 DEF Next, AuthorizationStep

--------------------------------------------------------------------------------
(* Authorizations are never removed, and the gate is the only way in *)

LEMMA AuthsGrow ==
    ASSUME TypeOK, AbsentUndecided, [Next]_vars
    PROVE  /\ Len(auths) <= Len(auths')
           /\ \A a \in 1..Len(auths) : auths'[a] = auths[a]
  <1>0. Len(auths) \in Nat
    BY DEF TypeOK
  <1>1. CASE Quiet
    BY <1>0, <1>1 DEF Quiet
  <1>2. CASE AuthorizationStep
    BY <1>0, <1>2, AuthorizationDecides DEF Decision
  <1> QED
    BY <1>1, <1>2, OtherStepsAreQuiet

Approval(r, a) ==
    auths[a].ro = r /\ auths[a].status = "approved" /\ auths[a].approved # {}

LEMMA EntersWork ==
    ASSUME TypeOK, [Next]_vars, NEW r \in RO, ro'[r] \in Underway
    PROVE  ro[r] \in Underway \/ \E a \in 1..Len(auths) : Approval(r, a)
  <1>1. CASE ro'[r] = ro[r]
    BY <1>1
  <1>2. ASSUME NEW k \in RO, NEW to \in RO_STATUSES, NEW stepUp \in BOOLEAN,
               transitionRO(k, to, stepUp)
        PROVE  ro[r] \in Underway \/ \E a \in 1..Len(auths) : Approval(r, a)
    <2>1. CASE k # r
      BY <1>1, <1>2, <2>1 DEF transitionRO, MoveTo, TypeOK
    <2>2. CASE k = r
      <3>1. to \in RO_TRANSITIONS(ro[r]) /\ ro'[r] = to
        BY <1>2, <2>2 DEF transitionRO, MoveTo, TypeOK
      <3>2. ro[r] \in Underway \/ to = "authorized"
        BY <3>1, WorkIsBehindTheGate DEF TypeOK
      <3>3. to = "authorized" => Evidence(r) # {}
        BY <1>2, <2>2 DEF transitionRO, AUTHORIZATION_GATED_TRANSITIONS
      <3> QED
        BY <3>2, <3>3 DEF Evidence, Approval
    <2> QED
      BY <2>1, <2>2
  <1>3. ASSUME NEW k \in RO, startMPISession(k) \/ GenerateEstimateCommit(k)
        PROVE  ro[r] \in Underway
    BY <1>3 DEF startMPISession, GenerateEstimateCommit, MoveTo, StayPut, TypeOK,
                Underway, WORK_STATES
  <1>4. ASSUME NEW k \in RO, NEW v \in 1..MaxVersion, sendEstimate(k, v)
        PROVE  ro[r] \in Underway
    BY <1>4 DEF sendEstimate, MoveTo, StayPut, TypeOK, Underway, WORK_STATES
  <1>5. ASSUME NEW k \in RO, createComebackCase(k)
        PROVE  ro[r] \in Underway
    BY <1>5 DEF createComebackCase, MoveTo, TypeOK, Underway, WORK_STATES
  <1>6. CASE AuthorizationStep
    BY <1>1, <1>6 DEF AuthorizationStep, recordAuthorization, AwaitingDecision
  <1>7. CASE \/ \E l \in Line : addLineItem(l)
             \/ \E l \in Line, s \in LineStatusInput \cup {NoChange}, t \in Terms \cup {NoChange} :
                   updateLineItem(l, s, t)
             \/ \E k \in RO : GenerateEstimateRead(k) \/ GenerateEstimateAbort(k)
             \/ \E k \in RO, q \in QUEUE_TYPES : CloseQueueItem(k, q)
             \/ UNCHANGED vars
    BY <1>1, <1>7 DEF addLineItem, updateLineItem, Writable, GenerateEstimateRead,
                      GenerateEstimateAbort, CloseQueueItem, vars
  <1> QED
    BY <1>2, <1>3, <1>4, <1>5, <1>6, <1>7 DEF Next, AuthorizationStep

LEMMA WorkStep ==
    ASSUME TypeOK, AbsentUndecided, WorkHasEvidence, [Next]_vars
    PROVE  WorkHasEvidence'
  <1> SUFFICES ASSUME NEW r \in RO, ro'[r] \in Underway
               PROVE  \E a \in 1..Len(auths') : Approval(r, a)'
    BY DEF WorkHasEvidence, Approval
  <1>1. PICK a \in 1..Len(auths) : Approval(r, a)
    BY EntersWork DEF WorkHasEvidence, Approval
  <1>2. auths'[a] = auths[a] /\ a \in 1..Len(auths')
    <2>1. Len(auths) \in Nat /\ Len(auths') \in Nat
      BY TypeStep DEF TypeOK
    <2> QED
      BY <2>1, AuthsGrow
  <1> QED
    BY <1>1, <1>2 DEF Approval

--------------------------------------------------------------------------------
(* The theorems *)

LEMMA NextIInv == IInv /\ [Next]_vars => IInv'
  <1> SUFFICES ASSUME IInv, [Next]_vars PROVE IInv'
    OBVIOUS
  <1>1. TypeOK'
    BY TypeStep DEF IInv
  <1>2. DecisionInv'
    BY DecisionStep DEF IInv, DecisionInv
  <1>3. QueueFollowsStatus' /\ WorkHasEvidence'
    BY QueueStep, WorkStep DEF IInv
  <1> QED
    BY <1>1, <1>2, <1>3 DEF IInv, DecisionInv

\* The inductive invariant holds in every reachable state.
THEOREM Inductive == Spec => []IInv
  BY InitIInv, NextIInv, PTL DEF Spec

\* A customer's decision always has its evidence: an approved line cites an
\* authorization of its own repair order that approved it on the terms it carries.
THEOREM EveryDecisionHasEvidence == Spec => []DecisionHasEvidence
  <1>1. IInv => DecisionHasEvidence
    BY DEF IInv
  <1> QED
    BY <1>1, Inductive, PTL

\* recordAuthorization never decides a line a second time.
THEOREM NoLineIsDecidedTwice == Spec => []DecidedOnce
  <1>1. IInv => DecidedOnce
    <2> SUFFICES ASSUME IInv, NEW a \in 1..Len(auths), NEW b \in 1..Len(auths), a # b,
                        NEW l \in auths[a].approved \cup auths[a].declined,
                        l \in auths[b].approved \cup auths[b].declined
                 PROVE  FALSE
      BY DEF DecidedOnce
    <2>1. line[l].ref = a /\ line[l].ref = b
      BY DEF IInv, AuthorizationsHold, AuthorizationHolds
    <2> QED
      BY <2>1
  <1> QED
    BY <1>1, Inductive, PTL

\* Work the customer declined never returns to the shop floor.
THEOREM DeclinedWorkStaysDown == Spec => []DeclinedStaysDeclined
  <1>1. IInv => DeclinedStaysDeclined
    BY DEF IInv
  <1> QED
    BY <1>1, Inductive, PTL

\* No repair order is worked on, handed back or closed without an approval on file.
THEOREM NoWorkWithoutEvidence == Spec => []WorkHasEvidence
  <1>1. IInv => WorkHasEvidence
    BY DEF IInv
  <1> QED
    BY <1>1, Inductive, PTL

\* The work queues never drift from the repair orders' statuses.
THEOREM QueuesFollowStatus == Spec => []QueueFollowsStatus
  <1>1. IInv => QueueFollowsStatus
    BY DEF IInv
  <1> QED
    BY <1>1, Inductive, PTL

\* No step, a re-quote included, takes a decision back or moves it to another
\* authorization.
THEOREM DecisionsAreFinal == Spec => DecisionIsFinal
  <1> DEFINE Kept == \A l \in Line : line[l].auth \in {"approved", "declined"} =>
                        line'[l].auth = line[l].auth /\ line'[l].ref = line[l].ref
  <1>1. IInv /\ [Next]_vars => [Kept]_vars
    <2> SUFFICES ASSUME IInv, [Next]_vars PROVE Kept
      OBVIOUS
    <2>1. CASE Quiet
      BY <2>1 DEF Quiet
    <2>2. CASE AuthorizationStep
      BY <2>2, AuthorizationDecides DEF Decision, IInv
    <2> QED
      BY <2>1, <2>2, OtherStepsAreQuiet DEF IInv
  <1> QED
    BY <1>1, Inductive, PTL DEF Spec, DecisionIsFinal

--------------------------------------------------------------------------------
(* Estimates *)

EstimateKept(r, v) ==
    /\ est[r][v].status \in {"approved", "declined", "expired"} =>
         est'[r][v].status = est[r][v].status
    /\ est[r][v].status # "draft" => est'[r][v].status # "draft"

\* A step that rewrites one estimate's status, of repair order k and version w.
LEMMA RewriteKeeps ==
    ASSUME TypeOK, NEW k \in RO, NEW w \in 1..Len(est[k]), NEW s \in EST_STATUSES \ {"draft"},
           est' = [est EXCEPT ![k][w].status = s],
           est[k][w].status \notin {"approved", "declined", "expired"},
           NEW r \in RO, NEW v \in 1..Len(est[r])
    PROVE  EstimateKept(r, v)
  <1>0. est \in [RO -> Seq(EstType)]
    BY DEF TypeOK, EstType
  <1>1. est'[k] = [est[k] EXCEPT ![w] = [est[k][w] EXCEPT !.status = s]]
    BY <1>0, EstimatesRewrite
  <1>2. CASE r # k
    BY <1>0, <1>2 DEF EstimateKept
  <1>3. CASE r = k /\ v # w
    BY <1>0, <1>1, <1>3 DEF EstimateKept
  <1>4. CASE r = k /\ v = w
    <2>1. est[k][w] \in EstType
      BY <1>0
    <2>2. est'[k][w] = [est[k][w] EXCEPT !.status = s]
      BY <1>0, <1>1
    <2>3. est'[k][w].status = s
      BY <2>1, <2>2 DEF EstType
    <2> QED
      BY <1>4, <2>3 DEF EstimateKept
  <1> QED
    BY <1>2, <1>3, <1>4

LEMMA EstimateStep ==
    ASSUME TypeOK, [Next]_vars, NEW r \in RO, NEW v \in 1..Len(est[r])
    PROVE  EstimateKept(r, v)
  <1>0. est \in [RO -> Seq(EstType)]
    BY DEF TypeOK, EstType
  <1>1. CASE est' = est
    BY <1>1 DEF EstimateKept
  <1>2. ASSUME NEW k \in RO, NEW to \in RO_STATUSES, NEW stepUp \in BOOLEAN,
               transitionRO(k, to, stepUp)
        PROVE  EstimateKept(r, v)
    <2>1. CASE to # "estimate_pending"
      BY <1>1, <1>2, <2>1 DEF transitionRO
    <2>2. CASE to = "estimate_pending" /\ r # k
      BY <1>0, <1>2, <2>2 DEF transitionRO, WithdrawQuote, EstimateKept
    <2>3. CASE to = "estimate_pending" /\ r = k
      <3>1. v \in DOMAIN est[r] /\ est[r][v] \in EstType
        BY <1>0
      <3>2. est'[r][v] = IF est[r][v].status \in {"sent", "partially_approved"}
                         THEN [est[r][v] EXCEPT !.status = "expired"] ELSE est[r][v]
        BY <1>0, <1>2, <2>3, <3>1 DEF transitionRO, WithdrawQuote
      <3> QED
        BY <3>1, <3>2 DEF EstimateKept, EstType
    <2> QED
      BY <2>1, <2>2, <2>3
  <1>3. ASSUME NEW k \in RO, GenerateEstimateCommit(k)
        PROVE  EstimateKept(r, v)
    <2>1. CASE r # k
      BY <1>0, <1>3, <2>1 DEF GenerateEstimateCommit, EstimateKept
    <2>2. CASE r = k
      <3> DEFINE new == [status |-> "draft", quoted |-> quoting[r]]
      <3>1. est'[r] = Append(est[r], new)
        BY <1>0, <1>3, <2>2 DEF GenerateEstimateCommit
      <3> HIDE DEF new
      <3>2. est[r] \in Seq(EstType)
        BY <1>0
      <3>3. est'[r][v] = est[r][v]
        BY <3>1, <3>2
      <3> QED
        BY <3>3 DEF EstimateKept
    <2> QED
      BY <2>1, <2>2
  <1>4. ASSUME NEW k \in RO, NEW w \in 1..MaxVersion, sendEstimate(k, w)
        PROVE  EstimateKept(r, v)
    BY <1>4, RewriteKeeps DEF sendEstimate, EST_STATUSES
  <1>5. CASE AuthorizationStep
    <2>1. PICK k \in RO, w \in 1..MaxVersion, method \in {"portal", "staff_attestation"},
               stepUp \in BOOLEAN :
               \E approved, declined \in SUBSET LinesOf(k) :
                  recordAuthorization(k, w, method, stepUp, approved, declined)
      BY <1>5 DEF AuthorizationStep
    <2>2. PICK approved \in SUBSET LinesOf(k), declined \in SUBSET LinesOf(k) :
               recordAuthorization(k, w, method, stepUp, approved, declined)
      BY <2>1
    <2> DEFINE s == TalliedStatus(k, w, Decided(approved, declined, Len(auths) + 1))
    <2>3. s \in EST_STATUSES \ {"draft"}
      BY DerivedEstimateStatus
    <2>4. /\ est' = [est EXCEPT ![k][w].status = s] /\ w \in 1..Len(est[k])
          /\ est[k][w].status \in {"sent", "partially_approved"}
      BY <2>2 DEF recordAuthorization, AwaitingDecision
    <2> HIDE DEF s
    <2> QED
      BY <2>3, <2>4, RewriteKeeps
  <1>6. CASE \/ \E l \in Line : addLineItem(l)
             \/ \E l \in Line, s \in LineStatusInput \cup {NoChange}, t \in Terms \cup {NoChange} :
                   updateLineItem(l, s, t)
             \/ \E k \in RO : \/ startMPISession(k) \/ GenerateEstimateRead(k)
                              \/ GenerateEstimateAbort(k) \/ createComebackCase(k)
             \/ \E k \in RO, q \in QUEUE_TYPES : CloseQueueItem(k, q)
             \/ UNCHANGED vars
    BY <1>1, <1>6 DEF addLineItem, updateLineItem, Writable, startMPISession, GenerateEstimateRead,
                      GenerateEstimateAbort, createComebackCase, CloseQueueItem, vars
  <1> QED
    BY <1>2, <1>3, <1>4, <1>5, <1>6 DEF Next, AuthorizationStep

\* An estimate answered in full or withdrawn never becomes answerable again, and
\* none returns to draft once sent.
THEOREM EstimatesNeverReopen == Spec => EstimateNeverReopens
  <1> DEFINE Kept == \A r \in RO : \A v \in 1..Len(est[r]) :
            /\ est[r][v].status \in {"approved", "declined", "expired"} =>
                 est'[r][v].status = est[r][v].status
            /\ est[r][v].status # "draft" => est'[r][v].status # "draft"
  <1>1. TypeOK /\ [Next]_vars => [Kept]_vars
    BY EstimateStep DEF EstimateKept
  <1> QED
    BY <1>1, TypeCorrect, PTL DEF Spec, EstimateNeverReopens

\* Every decision has its evidence, is the only one on its line, and keeps declined work
\* down, for every set of repair orders, lines and terms.
THEOREM DecisionsAlwaysStand == Spec => []DecisionsStand
  BY EveryDecisionHasEvidence, NoLineIsDecidedTwice, DeclinedWorkStaysDown, PTL
     DEF DecisionsStand

\* Neither a decided line nor an answered or withdrawn estimate ever changes again.
THEOREM AnswersStayFinal == Spec => AnswersAreFinal
  BY DecisionsAreFinal, EstimatesNeverReopen, PTL DEF AnswersAreFinal

--------------------------------------------------------------------------------
(* The service floor and its metrics around the repair orders.              *)

RowType ==
    [ro : RO, queue : QUEUE_TYPES, status : QUEUE_STATUSES, assigned : User \cup {Nobody},
     priority : QUEUE_PRIORITIES, due : Nat, reasons : BOOLEAN, created : Nat, updated : Nat]
ReadingType == [status : MPI_RESULT_STATUSES \cup {"none"}, severity : MPI_SEVERITIES \cup {Nobody}]
InspectionType ==
    [ro : RO, tech : Tech, status : {"started", "in_progress", "submitted"}, results : [ItemKey -> ReadingType]]
RecommendationType ==
    [ro : RO, item : ItemKey, priority : QUEUE_PRIORITIES, status : {"proposed", "sent_to_customer"}, created : Nat]
PartType == [line : Line, status : PART_STATUSES, received : 0..MaxDay, created : Nat]
UpdateType == [status : PART_STATUSES \cup {"none"}, at : 0..MaxDay]
RequestType == [original : RO, other : RO, held : SUBSET RO] \cup {NoRequest}

\* The tables of the floor, and what the proofs need to know of the repair orders: no
\* estimate beyond the bound.
FloorTypes ==
    /\ today \in 1..MaxDay
    /\ board \in Seq(RowType)
    /\ inspections \in Seq(InspectionType)
    /\ recommendations \in Seq(RecommendationType)
    /\ tasks \in Seq([ro : RO, status : PORTAL_TASK_STATUSES])
    /\ opening \in [Clerk -> RequestType]

EstimatesBounded ==
    \A r \in RO : Len(est[r]) <= MaxVersion /\ (Locked(r) => Len(est[r]) < MaxVersion)

RowsAreCounted == \A r \in RO, q \in QUEUE_TYPES : Cardinality(OpenRows(board, r, q)) = queue[r][q]

\* The part has arrived, and the mark has reached the millisecond it arrived in.
Marked(k) == k \in 1..Len(parts) /\ parts[k].received # 0 /\ Date(parts[k].received) <= highWater

\* Parts, the updates under way, and what the pass has observed of them.
ArrivalsInv ==
    /\ parts \in Seq(PartType) /\ Len(parts) <= MaxPart
    /\ arriving \in [1..MaxPart -> UpdateType]
    /\ \A k \in 1..MaxPart : arriving[k] # NoUpdate => arriving[k].status \in PART_STATUSES
    /\ highWater \in 0..MaxDay
    /\ observed \in [1..MaxPart -> Nat]
    /\ \A k \in 1..MaxPart : observed[k] > 0 => Marked(k)

IsShares(rows) == \A x \in DOMAIN rows : rows[x][1] <= rows[x][2]
SharesPublished(g) ==
    \A x \in gauges[g] : x.series \in {"backorder", "sla", "conversion"} => x.n <= x.d

\* The shares a pass has read, and the ones that are published.
GaugesInv ==
    /\ \E S : pass \in [group : S, read : [Query -> S]]
    /\ \A q \in {"backorder", "sla", "presented"} : pass.read[q] # Nobody => IsShares(pass.read[q])
    /\ \A g \in DOMAIN gauges : SharesPublished(g)

ServiceInv ==
    /\ IInv /\ EstimatesBounded
    /\ FloorTypes /\ RowsAreCounted
    /\ FindingsAreRecommendedOnce
    /\ ArrivalsInv /\ GaugesInv

\* A function on 1..n is a sequence of length n.
LEMMA FunctionIsSeq ==
    ASSUME NEW n \in Nat, NEW S, NEW f \in [1..n -> S]
    PROVE  f \in Seq(S) /\ Len(f) = n
OBVIOUS

\* SetToSeq lists every member of a finite set, each once.
LEMMA SetToSeqLists ==
    ASSUME NEW S, IsFiniteSet(S)
    PROVE  LET f == SetToSeq(S)
           IN  /\ f \in Seq(S) /\ Len(f) = Cardinality(S)
               /\ \A i, j \in 1..Len(f) : f[i] = f[j] => i = j
               /\ \A x \in S : \E i \in 1..Len(f) : f[i] = x
<1> DEFINE f == SetToSeq(S)
           n == Cardinality(S)
<1>1. n \in Nat /\ ExistsBijection(1..n, S)
  BY FS_CardinalityType
<1>2. PICK g \in Bijection(1..n, S) : TRUE
  BY <1>1 DEF ExistsBijection
<1>3. g \in [1..n -> S] /\ \A a, b \in 1..n : g[a] = g[b] => a = b
  BY <1>2 DEF Bijection, Injection, IsInjective
<1>4. IsInjective(g)
  BY <1>3 DEF IsInjective
<1>5. f \in [1..n -> S] /\ IsInjective(f)
  BY <1>3, <1>4 DEF SetToSeq
<1>6. f \in Seq(S) /\ Len(f) = n
  BY <1>1, <1>5, FunctionIsSeq
<1>7. \A i, j \in 1..n : f[i] = f[j] => i = j
  BY <1>5 DEF IsInjective
<1>8. f \in Injection(1..n, S)
  BY <1>5, <1>7 DEF Injection, IsInjective
<1>9. IsFiniteSet(1..n) /\ Cardinality(1..n) = n
  BY <1>1, FS_Interval
<1>10. f \in Surjection(1..n, S)
  BY <1>8, <1>9, FS_Injection
<1>11. \A x \in S : \E i \in 1..n : f[i] = x
  BY <1>10 DEF Surjection
<1> QED
  BY <1>6, <1>7, <1>11

\* An empty set is listed by nothing, a singleton by its member.
LEMMA SetToSeqSmall ==
    /\ SetToSeq({}) = <<>>
    /\ \A x : SetToSeq({x}) = <<x>>
<1>1. SetToSeq({}) = <<>>
  <2>1. SetToSeq({}) \in Seq({}) /\ Len(SetToSeq({})) = 0
    BY SetToSeqLists, FS_EmptySet
  <2> QED
    BY <2>1
<1>2. ASSUME NEW x PROVE SetToSeq({x}) = <<x>>
  <2>1. SetToSeq({x}) \in Seq({x}) /\ Len(SetToSeq({x})) = 1
    BY SetToSeqLists, FS_Singleton
  <2>2. SetToSeq({x})[1] = x
    BY <2>1
  <2> QED
    BY <2>1, <2>2
<1> QED
  BY <1>1, <1>2

--------------------------------------------------------------------------------
(* What a step of the floor is to the repair orders and to the board *)

\* A repair order keeps its status or moves to another one, and the board follows.
LEMMA NoMoveInPlace ==
    \A s \in RO_STATUSES : s \notin RO_TRANSITIONS(s)
BY DEF RO_STATUSES, RO_TRANSITIONS

StandsStill == UNCHANGED <<ro, queue, board>>
MovesOn(r, s) == s # ro[r] /\ MoveTo(r, s) /\ board' = syncRows(board, r, s)

\* One row is rewritten: not reopened, not taken from whoever claimed it, and counted out
\* when it closes.
Rewritten(n, row) ==
    /\ row.ro = board[n].ro /\ row.queue = board[n].queue
    /\ ~Open(board[n]) => ~Open(row)
    /\ board[n].assigned # Nobody => row.assigned = board[n].assigned
    /\ board' = [board EXCEPT ![n] = row]
    /\ ro' = ro
    /\ queue' = IF Open(board[n]) /\ ~Open(row)
                THEN [queue EXCEPT ![board[n].ro][board[n].queue] = @ - 1] ELSE queue

BoardStep ==
    \/ StandsStill
    \/ \E r \in RO, s \in RO_STATUSES : MovesOn(r, s)
    \/ \E n \in DOMAIN board, row \in RowType : Rewritten(n, row)

LEMMA FollowsTheMove ==
    ASSUME TypeOK, NEW r \in RO, NEW s \in RO_STATUSES, FollowBoard(r),
           s # ro[r] /\ MoveTo(r, s)
    PROVE  MovesOn(r, s)
BY DEF TypeOK, FollowBoard, MoveTo, MovesOn

LEMMA FollowsNothing ==
    ASSUME NEW r, FollowBoard(r), StayPut
    PROVE  StandsStill
BY DEF FollowBoard, StayPut, StandsStill

LEMMA TransitionOnBoard ==
    ASSUME TypeOK, NEW r \in RO, NEW to \in RO_STATUSES, NEW stepUp, TransitionStep(r, to, stepUp)
    PROVE  BoardStep
<1>1. to # ro[r] /\ MoveTo(r, to) /\ FollowBoard(r)
  BY NoMoveInPlace DEF TransitionStep, transitionRO, TypeOK
<1> QED
  BY <1>1, FollowsTheMove DEF BoardStep

LEMMA QuoteOnBoard ==
    ASSUME TypeOK, NEW r \in RO, QuoteStep(r) \/ GenerateEstimateEnds(r)
    PROVE  BoardStep
<1>1. FollowBoard(r)
  BY DEF QuoteStep, GenerateEstimateEnds
<1>2. CASE \E v \in 1..Len(est[r]) : sendEstimate(r, v)
  <2>1. StayPut \/ (ro[r] = "estimate_pending" /\ MoveTo(r, "awaiting_authorization"))
    BY <1>2 DEF sendEstimate
  <2> QED
    BY <1>1, <2>1, FollowsTheMove, FollowsNothing DEF BoardStep, RO_STATUSES
<1>3. CASE \E v \in 1..Len(est[r]) : \E approved, declined \in SUBSET LinesOf(r) :
                recordAuthorization(r, v, "portal", FALSE, approved, declined)
  <2>1. StayPut
    BY <1>3 DEF recordAuthorization, StayPut
  <2> QED
    BY <1>1, <2>1, FollowsNothing DEF BoardStep
<1>4. CASE GenerateEstimateRead(r) \/ GenerateEstimateAbort(r)
  <2>1. StayPut
    BY <1>4 DEF GenerateEstimateRead, GenerateEstimateAbort, StayPut
  <2> QED
    BY <1>1, <2>1, FollowsNothing DEF BoardStep
<1>5. CASE GenerateEstimateCommit(r)
  <2>1. StayPut \/ (ro[r] \in {"inspection_in_progress", "checked_in"} /\ MoveTo(r, "estimate_pending"))
    BY <1>5 DEF GenerateEstimateCommit
  <2> QED
    BY <1>1, <2>1, FollowsTheMove, FollowsNothing DEF BoardStep, RO_STATUSES
<1> QED
  BY <1>2, <1>3, <1>4, <1>5 DEF QuoteStep, GenerateEstimateEnds

LEMMA InspectionOnBoard ==
    ASSUME TypeOK, InspectionNext
    PROVE  BoardStep
<1>1. CASE \E r \in RO : \E tech \in Tech : startInspection(r, tech)
  <2>1. PICK r \in RO : FollowBoard(r) /\ startMPISession(r)
    BY <1>1 DEF startInspection
  <2>2. StayPut \/ (ro[r] = "checked_in" /\ MoveTo(r, "inspection_in_progress"))
    BY <2>1 DEF startMPISession
  <2> QED
    BY <2>1, <2>2, FollowsTheMove, FollowsNothing DEF BoardStep, RO_STATUSES
<1>2. CASE UNCHANGED <<vars, board>>
  BY <1>2 DEF BoardStep, StandsStill, vars
<1> QED
  BY <1>1, <1>2 DEF InspectionNext, sendRecommendationsToCustomer, recordMPIResult, submitMPISession,
                    updatePortalTaskStatus

LEMMA ComebackOnBoard ==
    ASSUME TypeOK, FloorTypes, ComebackNext
    PROVE  BoardStep
<1>1. CASE \E p \in Clerk : openCase(p) /\ ~UNCHANGED <<vars, board>>
  <2>1. PICK p \in Clerk : openCase(p) /\ ~UNCHANGED <<vars, board>>
    BY <1>1
  <2>2. opening[p] # NoRequest
    <3>1. Cardinality(opening[p].held) = 2
      BY <2>1 DEF openCase
    <3>2. Cardinality(NoRequest.held) = 0
      BY FS_EmptySet DEF NoRequest
    <3> QED
      BY <3>1, <3>2
  <2>3. opening[p].original \in RO
    BY <2>2 DEF FloorTypes, RequestType
  <2>4. ro[opening[p].original] = "closed" /\ createComebackCase(opening[p].original)
            /\ FollowBoard(opening[p].original)
    BY <2>1 DEF openCase
  <2> QED
    BY <2>3, <2>4, FollowsTheMove DEF BoardStep, RO_STATUSES, createComebackCase
<1>2. CASE UNCHANGED <<vars, board>>
  BY <1>2 DEF BoardStep, StandsStill, vars
<1> QED
  BY <1>1, <1>2 DEF ComebackNext, openComeback, lockForComeback, updateComebackCase

LEMMA ClaimOnBoard ==
    ASSUME TypeOK, FloorTypes, NEW n \in DOMAIN board, NEW u \in User, assignServiceQueueItem(u, n)
    PROVE  BoardStep
<1> DEFINE row == [board[n] EXCEPT !.assigned = u, !.status = "in_progress", !.updated = today]
<1>1. board[n] \in RowType /\ today \in Nat
  BY FloorAssumption DEF FloorTypes
<1>2. /\ row \in RowType
      /\ row.ro = board[n].ro /\ row.queue = board[n].queue
      /\ row.status = "in_progress" /\ row.assigned = u
  BY <1>1 DEF RowType, QUEUE_STATUSES
<1>3. board' = [board EXCEPT ![n] = row]
  BY <1>1 DEF assignServiceQueueItem, RowType, FloorTypes
<1> HIDE DEF row
<1>4. Open(board[n]) /\ board[n].assigned \in {Nobody, u} /\ Open(row) /\ UNCHANGED vars
  BY <1>2 DEF assignServiceQueueItem, Open
<1>5. Rewritten(n, row)
  BY <1>2, <1>3, <1>4 DEF Rewritten, vars
<1> QED
  BY <1>2, <1>5 DEF BoardStep

LEMMA EscalationOnBoard ==
    ASSUME TypeOK, FloorTypes, NEW n \in DOMAIN board, escalateServiceQueueItem(n)
    PROVE  BoardStep
<1> DEFINE row == [board[n] EXCEPT !.priority = "p0", !.updated = today]
<1>1. board[n] \in RowType /\ today \in Nat
  BY FloorAssumption DEF FloorTypes
<1>2. /\ row \in RowType
      /\ row.ro = board[n].ro /\ row.queue = board[n].queue
      /\ row.status = board[n].status /\ row.assigned = board[n].assigned
  BY <1>1 DEF RowType, QUEUE_PRIORITIES
<1>3. board' = [board EXCEPT ![n] = row]
  BY <1>1 DEF escalateServiceQueueItem, RowType, FloorTypes
<1> HIDE DEF row
<1>4. (Open(row) <=> Open(board[n])) /\ UNCHANGED vars
  BY <1>2 DEF escalateServiceQueueItem, Open
<1>5. Rewritten(n, row)
  BY <1>2, <1>3, <1>4 DEF Rewritten, vars
<1> QED
  BY <1>2, <1>5 DEF BoardStep

LEMMA StatusOnBoard ==
    ASSUME TypeOK, FloorTypes, NEW n \in DOMAIN board, NEW u \in User, NEW status \in QUEUE_STATUSES,
           NEW supplied \in BOOLEAN, updateServiceQueueItemStatus(u, n, status, supplied)
    PROVE  BoardStep
<1> DEFINE flag == supplied \/ (status = "blocked" /\ board[n].reasons)
           row == WithStatus(board[n], status, supplied)
<1>1. board[n] \in RowType /\ today \in Nat
  BY FloorAssumption DEF FloorTypes
<1>2. row = [board[n] EXCEPT !.status = status, !.updated = today, !.reasons = flag]
  BY <1>1 DEF WithStatus, RowType
<1>3. flag \in BOOLEAN
  OBVIOUS
<1> HIDE DEF flag
<1>4. /\ row \in RowType
      /\ row.ro = board[n].ro /\ row.queue = board[n].queue
      /\ row.status = status /\ row.assigned = board[n].assigned
  BY <1>1, <1>2, <1>3 DEF RowType
<1>5. board' = [board EXCEPT ![n] = row]
  BY DEF updateServiceQueueItemStatus, FloorTypes
<1> HIDE DEF row
<1>6. (Open(row) <=> status \notin {"done", "canceled"})
  BY <1>4 DEF Open
<1>7. ~Open(board[n]) => ~Open(row)
  BY <1>6 DEF updateServiceQueueItemStatus
<1>8. /\ ro' = ro
      /\ queue' = IF Open(board[n]) /\ ~Open(row)
                  THEN [queue EXCEPT ![board[n].ro][board[n].queue] = @ - 1] ELSE queue
  BY <1>6 DEF updateServiceQueueItemStatus, CloseQueueItem, vars
<1>9. Rewritten(n, row)
  BY <1>4, <1>5, <1>7, <1>8 DEF Rewritten
<1> QED
  BY <1>4, <1>9 DEF BoardStep

\* Every step of the floor is one of the three to the board.
LEMMA StepsOnBoard == TypeOK /\ FloorTypes /\ [ServiceNext]_serviceVars => BoardStep
<1> SUFFICES ASSUME TypeOK, FloorTypes, [ServiceNext]_serviceVars
             PROVE  BoardStep
  OBVIOUS
<1>1. CASE BoardNext
  BY <1>1, ClaimOnBoard, EscalationOnBoard, StatusOnBoard DEF BoardNext
<1>2. CASE InspectionNext
  BY <1>2, InspectionOnBoard
<1>3. CASE ComebackNext
  BY <1>3, ComebackOnBoard
<1>4. CASE QuoteNext
  <2>1. CASE \E l \in Line : LineStep(l)
    BY <2>1 DEF BoardStep, StandsStill, LineStep, addLineItem, updateLineItem, floorVars
  <2> QED
    BY <1>4, <2>1, QuoteOnBoard DEF QuoteNext
<1>5. CASE \E r \in RO, to \in RO_STATUSES, stepUp \in BOOLEAN : transitionAndRecord(r, to, stepUp)
  BY <1>5, TransitionOnBoard DEF transitionAndRecord
<1>6. CASE UNCHANGED <<vars, board>>
  BY <1>6 DEF BoardStep, StandsStill, vars
<1>7. PartsNext => UNCHANGED <<vars, board>>
  BY DEF PartsNext, requestPart, createSubletJob, updatePartLine, updateSubletJob, createWarrantyClaim, nextDay
<1>8. MetricsNext => UNCHANGED <<vars, board>>
  BY DEF MetricsNext, tick, publishGroup, failGroup, restart, readGroup, allVars, floorVars
<1>9. \A k, status : commitPartUpdate(k) \/ beginPartUpdate(k, status) => UNCHANGED <<vars, board>>
  BY DEF commitPartUpdate, beginPartUpdate, allVars, floorVars
<1> QED
  BY <1>1, <1>2, <1>3, <1>4, <1>5, <1>6, <1>7, <1>8, <1>9 DEF ServiceNext, serviceVars, allVars, floorVars

--------------------------------------------------------------------------------
(* The rows of the board are the items the repair orders count *)

\* A set of places in a list is finite.
LEMMA PlacesFinite ==
    ASSUME NEW n \in Nat, NEW T, T \subseteq 1..n
    PROVE  IsFiniteSet(T) /\ Cardinality(T) \in Nat
<1>1. IsFiniteSet(1..n)
  BY FS_Interval
<1>2. T \in SUBSET (1..n)
  OBVIOUS
<1>3. IsFiniteSet(T)
  BY <1>1, <1>2, FS_Subset
<1> QED
  BY <1>3, FS_CardinalityType

LEMMA OpenRowsFinite ==
    ASSUME NEW rows \in Seq(RowType), NEW r, NEW q
    PROVE  IsFiniteSet(OpenRows(rows, r, q)) /\ Cardinality(OpenRows(rows, r, q)) \in Nat
<1>1. OpenRows(rows, r, q) \subseteq 1..Len(rows) /\ Len(rows) \in Nat
  BY DEF OpenRows
<1> QED
  BY <1>1, PlacesFinite

\* One queue at most for a status.
LEMMA QueueOfStatus ==
    ASSUME NEW s \in RO_STATUSES
    PROVE  RO_STATUS_QUEUE(s) = {} \/ \E q \in QUEUE_TYPES : RO_STATUS_QUEUE(s) = {q}
BY DEF RO_STATUSES, RO_STATUS_QUEUE, QUEUE_TYPES

LEMMA NewRow ==
    ASSUME today \in Nat, NEW r \in RO, NEW q \in QUEUE_TYPES
    PROVE  LET row == createServiceQueueItem(r, q)
           IN  /\ row \in RowType /\ row.ro = r /\ row.queue = q /\ row.status = "queued"
               /\ Open(row)
<1>1. resolveSlaDueAt(q) \in Nat
  BY FloorAssumption DEF resolveSlaDueAt
<1> QED
  BY <1>1 DEF createServiceQueueItem, RowType, QUEUE_STATUSES, QUEUE_PRIORITIES, Open

\* Closing what was passed closes r's rows of other queues and touches nothing else.
LEMMA PassedRows ==
    ASSUME FloorTypes, NEW r \in RO, NEW s \in RO_STATUSES
    PROVE  LET rows == Passed(board, r, s)
           IN  /\ rows \in Seq(RowType) /\ Len(rows) = Len(board)
               /\ \A n \in 1..Len(board) :
                    /\ rows[n].ro = board[n].ro /\ rows[n].queue = board[n].queue
                    /\ rows[n].assigned = board[n].assigned
                    /\ Open(rows[n]) <=> /\ Open(board[n])
                                         /\ board[n].ro = r => board[n].queue \in RO_STATUS_QUEUE(s)
<1> DEFINE closed(n) == [board[n] EXCEPT !.status = "done", !.updated = today]
           rows == Passed(board, r, s)
<1>1. board \in Seq(RowType) /\ DOMAIN board = 1..Len(board) /\ Len(board) \in Nat /\ today \in Nat
  BY FloorAssumption DEF FloorTypes
<1>2. ASSUME NEW n \in 1..Len(board)
      PROVE  /\ closed(n) \in RowType
             /\ closed(n).ro = board[n].ro /\ closed(n).queue = board[n].queue
             /\ closed(n).assigned = board[n].assigned /\ closed(n).status = "done"
  <2>1. board[n] \in RowType
    BY <1>1
  <2> QED
    BY <1>1, <2>1 DEF RowType, QUEUE_STATUSES
<1>3. \A n \in 1..Len(board) : rows[n] = IF board[n].ro = r /\ Open(board[n]) /\ board[n].queue \notin RO_STATUS_QUEUE(s)
                                         THEN closed(n) ELSE board[n]
  BY <1>1 DEF Passed
<1> HIDE DEF closed
<1>4. rows \in [1..Len(board) -> RowType]
  <2>1. ASSUME NEW n \in 1..Len(board) PROVE rows[n] \in RowType
    <3>1. board[n] \in RowType /\ closed(n) \in RowType
      BY <1>1, <1>2
    <3> HIDE DEF rows
    <3> QED
      BY <1>3, <3>1
  <2> QED
    BY <1>1, <2>1 DEF Passed
<1>5. rows \in Seq(RowType) /\ Len(rows) = Len(board)
  BY <1>1, <1>4, FunctionIsSeq
<1> HIDE DEF rows
<1>6. ASSUME NEW n \in 1..Len(board)
      PROVE  /\ rows[n].ro = board[n].ro /\ rows[n].queue = board[n].queue
             /\ rows[n].assigned = board[n].assigned
             /\ Open(rows[n]) <=> /\ Open(board[n])
                                  /\ board[n].ro = r => board[n].queue \in RO_STATUS_QUEUE(s)
  BY <1>2, <1>3 DEF Open
<1> QED
  BY <1>5, <1>6 DEF rows

\* syncQueueForRO on the rows, and on their number.
LEMMA SyncedRows ==
    ASSUME FloorTypes, NEW r \in RO, NEW s \in RO_STATUSES
    PROVE  LET rows == syncRows(board, r, s)
           IN  /\ rows \in Seq(RowType) /\ Len(rows) >= Len(board)
               /\ \A n \in 1..Len(board) : rows[n] = Passed(board, r, s)[n]
               /\ \A x \in RO \ {r}, q \in QUEUE_TYPES : OpenRows(rows, x, q) = OpenRows(board, x, q)
               /\ \A q \in QUEUE_TYPES :
                    /\ q \notin RO_STATUS_QUEUE(s) => OpenRows(rows, r, q) = {}
                    /\ q \in RO_STATUS_QUEUE(s) =>
                         IF OpenRows(board, r, q) = {} THEN OpenRows(rows, r, q) = {Len(board) + 1}
                         ELSE OpenRows(rows, r, q) = OpenRows(board, r, q)
<1> DEFINE passed == Passed(board, r, s)
           missing == {x \in RO_STATUS_QUEUE(s) : OpenRows(board, r, x) = {}}
           rows == syncRows(board, r, s)
<1>1. /\ passed \in Seq(RowType) /\ Len(passed) = Len(board) /\ Len(board) \in Nat
      /\ board \in Seq(RowType)
      /\ \A n \in 1..Len(board) :
            /\ passed[n].ro = board[n].ro /\ passed[n].queue = board[n].queue
            /\ Open(passed[n]) <=> /\ Open(board[n])
                                   /\ board[n].ro = r => board[n].queue \in RO_STATUS_QUEUE(s)
  BY PassedRows DEF FloorTypes
<1>2. rows = passed \o SetToSeq({createServiceQueueItem(r, q) : q \in missing})
  BY DEF syncRows
<1> HIDE DEF passed, rows
<1>3. CASE missing = {}
  <2>1. {createServiceQueueItem(r, q) : q \in missing} = {}
    BY <1>3
  <2>2. rows = passed
    <3>1. rows = passed \o <<>>
      BY <1>2, <2>1, SetToSeqSmall
    <3> QED
      BY <1>1, <3>1
  <2>3. \A x \in RO, q \in QUEUE_TYPES :
            OpenRows(rows, x, q) = IF x = r /\ q \notin RO_STATUS_QUEUE(s) THEN {} ELSE OpenRows(board, x, q)
    BY <1>1, <2>2 DEF OpenRows
  <2>4. \A q \in RO_STATUS_QUEUE(s) : OpenRows(board, r, q) # {}
    BY <1>3
  <2> QED
    BY <1>1, <2>2, <2>3, <2>4 DEF passed, rows
<1>4. CASE missing # {}
  <2>1. PICK w \in QUEUE_TYPES : RO_STATUS_QUEUE(s) = {w}
    BY <1>4, QueueOfStatus
  <2>2. missing = {w} /\ OpenRows(board, r, w) = {}
    BY <1>4, <2>1
  <2> DEFINE new == createServiceQueueItem(r, w)
  <2>3. {createServiceQueueItem(r, q) : q \in missing} = {new}
    BY <2>2
  <2>4. new \in RowType /\ new.ro = r /\ new.queue = w /\ Open(new)
    <3>1. today \in Nat
      BY FloorAssumption DEF FloorTypes
    <3> QED
      BY <3>1, NewRow
  <2> HIDE DEF new
  <2>5. rows = passed \o <<new>>
    BY <1>2, <2>3, SetToSeqSmall
  <2>6. /\ rows \in Seq(RowType) /\ Len(rows) = Len(board) + 1
        /\ \A n \in 1..Len(board) : rows[n] = passed[n]
        /\ rows[Len(board) + 1] = new
    BY <1>1, <2>4, <2>5
  <2>7. \A x \in RO, q \in QUEUE_TYPES :
            OpenRows(rows, x, q) = IF x = r
                                   THEN IF q = w THEN {Len(board) + 1} ELSE {}
                                   ELSE OpenRows(board, x, q)
    <3> SUFFICES ASSUME NEW x \in RO, NEW q \in QUEUE_TYPES
                 PROVE  OpenRows(rows, x, q) = IF x = r
                                               THEN IF q = w THEN {Len(board) + 1} ELSE {}
                                               ELSE OpenRows(board, x, q)
      OBVIOUS
    <3>1. OpenRows(rows, x, q) = {n \in 1..(Len(board) + 1) : rows[n].ro = x /\ rows[n].queue = q /\ Open(rows[n])}
      BY <2>6 DEF OpenRows
    <3>2. OpenRows(board, x, q) = {n \in 1..Len(board) : board[n].ro = x /\ board[n].queue = q /\ Open(board[n])}
      BY <1>1 DEF OpenRows
    <3>3. \A n \in 1..Len(board) : ~(board[n].ro = r /\ board[n].queue = w /\ Open(board[n]))
      BY <1>1, <2>2 DEF OpenRows
    <3>4. \A n \in 1..Len(board) :
            (rows[n].ro = x /\ rows[n].queue = q /\ Open(rows[n]))
                <=> (x # r /\ board[n].ro = x /\ board[n].queue = q /\ Open(board[n]))
      BY <1>1, <2>1, <2>6, <3>3
    <3> QED
      BY <1>1, <2>4, <2>6, <3>1, <3>2, <3>4
  <2> QED
    BY <1>1, <2>1, <2>2, <2>6, <2>7 DEF passed, rows
<1> QED
  BY <1>3, <1>4

LEMMA BoardTyped ==
    ASSUME FloorTypes, BoardStep
    PROVE  board' \in Seq(RowType)
<1>1. CASE StandsStill
  BY <1>1 DEF StandsStill, FloorTypes
<1>2. CASE \E r \in RO, s \in RO_STATUSES : MovesOn(r, s)
  BY <1>2, SyncedRows DEF MovesOn
<1>3. CASE \E n \in DOMAIN board, row \in RowType : Rewritten(n, row)
  BY <1>3 DEF Rewritten, FloorTypes
<1> QED
  BY <1>1, <1>2, <1>3 DEF BoardStep

\* The count of a queue follows its rows through every step.
LEMMA CountsFollow ==
    ASSUME TypeOK, FloorTypes, RowsAreCounted, BoardStep
    PROVE  RowsAreCounted'
<1> USE DEF RowsAreCounted
<1>1. CASE StandsStill
  BY <1>1 DEF StandsStill, OpenRows
<1>2. CASE \E r \in RO, s \in RO_STATUSES : MovesOn(r, s)
  <2>1. PICK r \in RO, s \in RO_STATUSES : MovesOn(r, s)
    BY <1>2
  <2>2. board' = syncRows(board, r, s) /\ queue' = [queue EXCEPT ![r] = syncQueueForRO(@, s)]
    BY <2>1 DEF MovesOn, MoveTo
  <2>3. /\ \A x \in RO \ {r}, q \in QUEUE_TYPES : OpenRows(board', x, q) = OpenRows(board, x, q)
        /\ \A q \in QUEUE_TYPES :
             /\ q \notin RO_STATUS_QUEUE(s) => OpenRows(board', r, q) = {}
             /\ q \in RO_STATUS_QUEUE(s) =>
                  IF OpenRows(board, r, q) = {} THEN OpenRows(board', r, q) = {Len(board) + 1}
                  ELSE OpenRows(board', r, q) = OpenRows(board, r, q)
    BY <2>2, SyncedRows
  <2>4. ASSUME NEW x \in RO \ {r}, NEW q \in QUEUE_TYPES
        PROVE  Cardinality(OpenRows(board', x, q)) = queue'[x][q]
    BY <2>2, <2>3 DEF TypeOK
  <2>5. ASSUME NEW q \in QUEUE_TYPES
        PROVE  Cardinality(OpenRows(board', r, q)) = queue'[r][q]
    <3>1. queue'[r][q] = IF q \notin RO_STATUS_QUEUE(s) THEN 0 ELSE IF queue[r][q] > 0 THEN queue[r][q] ELSE 1
      BY <2>2 DEF TypeOK, syncQueueForRO
    <3>2. queue[r][q] = Cardinality(OpenRows(board, r, q)) /\ queue[r][q] \in Nat
      BY DEF TypeOK
    <3>3. queue[r][q] = 0 <=> OpenRows(board, r, q) = {}
      BY <3>2, OpenRowsFinite, FS_EmptySet DEF FloorTypes
    <3>4. Cardinality({}) = 0 /\ Cardinality({Len(board) + 1}) = 1
      BY FS_EmptySet, FS_Singleton
    <3>5. CASE q \notin RO_STATUS_QUEUE(s)
      BY <2>3, <3>1, <3>4, <3>5
    <3>6. CASE q \in RO_STATUS_QUEUE(s) /\ OpenRows(board, r, q) = {}
      <4>1. OpenRows(board', r, q) = {Len(board) + 1}
        BY <2>3, <3>6
      <4>2. queue'[r][q] = 1
        BY <3>1, <3>3, <3>6
      <4> QED
        BY <3>4, <4>1, <4>2
    <3>7. CASE q \in RO_STATUS_QUEUE(s) /\ OpenRows(board, r, q) # {}
      <4>1. OpenRows(board', r, q) = OpenRows(board, r, q)
        BY <2>3, <3>7
      <4>2. queue'[r][q] = queue[r][q]
        BY <3>1, <3>2, <3>3, <3>7
      <4> QED
        BY <3>2, <4>1, <4>2
    <3> QED
      BY <3>5, <3>6, <3>7
  <2> QED
    BY <2>4, <2>5
<1>3. CASE \E n \in DOMAIN board, row \in RowType : Rewritten(n, row)
  <2>1. PICK n \in DOMAIN board, row \in RowType : Rewritten(n, row)
    BY <1>3
  <2>2. board \in Seq(RowType) /\ board[n] \in RowType
    BY DEF FloorTypes
  <2>3. DOMAIN board' = DOMAIN board /\ board'[n] = row /\ \A m \in DOMAIN board \ {n} : board'[m] = board[m]
    BY <2>1, <2>2 DEF Rewritten
  <2>4. row.ro = board[n].ro /\ row.queue = board[n].queue /\ (~Open(board[n]) => ~Open(row))
    BY <2>1 DEF Rewritten
  <2> DEFINE r == board[n].ro
             w == board[n].queue
  <2>5. r \in RO /\ w \in QUEUE_TYPES
    BY <2>2 DEF RowType
  <2>6. CASE Open(board[n]) /\ ~Open(row)
    <3>1. queue' = [queue EXCEPT ![r][w] = @ - 1]
      BY <2>1, <2>6 DEF Rewritten
    <3>2. OpenRows(board', r, w) = OpenRows(board, r, w) \ {n} /\ n \in OpenRows(board, r, w)
      BY <2>2, <2>3, <2>4, <2>6 DEF OpenRows
    <3>3. Cardinality(OpenRows(board', r, w)) = Cardinality(OpenRows(board, r, w)) - 1
      <4>1. IsFiniteSet(OpenRows(board, r, w))
        BY <2>2, OpenRowsFinite
      <4> HIDE DEF r, w
      <4> QED
        BY <3>2, <4>1, FS_RemoveElement
    <3>4. ASSUME NEW x \in RO, NEW q \in QUEUE_TYPES, x # r \/ q # w
          PROVE  OpenRows(board', x, q) = OpenRows(board, x, q)
      BY <2>2, <2>3, <2>4, <3>4 DEF OpenRows
    <3> HIDE DEF r, w
    <3>5. /\ queue'[r][w] = queue[r][w] - 1
          /\ \A x \in RO, q \in QUEUE_TYPES : (x # r \/ q # w) => queue'[x][q] = queue[x][q]
      BY <2>5, <3>1 DEF TypeOK
    <3> QED
      BY <2>5, <3>3, <3>4, <3>5
  <2>7. CASE ~(Open(board[n]) /\ ~Open(row))
    <3>1. queue' = queue
      BY <2>1, <2>7 DEF Rewritten
    <3>2. ASSUME NEW x \in RO, NEW q \in QUEUE_TYPES
          PROVE  OpenRows(board', x, q) = OpenRows(board, x, q)
      BY <2>2, <2>3, <2>4, <2>7 DEF OpenRows
    <3> QED
      BY <3>1, <3>2
  <2> QED
    BY <2>6, <2>7
<1> QED
  BY <1>1, <1>2, <1>3 DEF BoardStep

\* No step reopens a row or takes it from whoever claimed it.
LEMMA RowsStayClosed ==
    ASSUME FloorTypes, BoardStep, NEW n \in DOMAIN board
    PROVE  /\ ~Open(board[n]) => ~Open(board'[n])
           /\ board[n].assigned # Nobody => board'[n].assigned = board[n].assigned
<1>1. CASE StandsStill
  BY <1>1 DEF StandsStill
<1>2. CASE \E r \in RO, s \in RO_STATUSES : MovesOn(r, s)
  <2>1. PICK r \in RO, s \in RO_STATUSES : board' = syncRows(board, r, s)
    BY <1>2 DEF MovesOn
  <2>2. n \in 1..Len(board)
    BY DEF FloorTypes
  <2>3. board'[n] = Passed(board, r, s)[n]
    BY <2>1, <2>2, SyncedRows
  <2> QED
    BY <2>2, <2>3, PassedRows
<1>3. CASE \E m \in DOMAIN board, row \in RowType : Rewritten(m, row)
  <2>1. PICK m \in DOMAIN board, row \in RowType : Rewritten(m, row)
    BY <1>3
  <2>2. board'[n] = IF n = m THEN row ELSE board[n]
    BY <2>1 DEF Rewritten, FloorTypes
  <2> QED
    BY <2>1, <2>2 DEF Rewritten
<1> QED
  BY <1>1, <1>2, <1>3 DEF BoardStep

--------------------------------------------------------------------------------
(* The floor implements module RepairOrder *)

\* An estimate is added only where generateEstimate found room for it.
LEMMA EstimatesStayBounded ==
    ASSUME TypeOK, EstimatesBounded, [Next]_vars
    PROVE  EstimatesBounded'
<1>0. est \in [RO -> Seq(EstType)] /\ quoting \in [RO -> QuoteType] /\ MaxVersion \in Nat
  BY BoundAssumption DEF TypeOK, EstType
<1>1. CASE /\ \A r \in RO : Len(est'[r]) = Len(est[r])
           /\ \A r \in RO : Locked(r)' => Locked(r)
  BY <1>1 DEF EstimatesBounded
<1>2. ASSUME NEW k \in RO, NEW to \in RO_STATUSES, NEW stepUp \in BOOLEAN, transitionRO(k, to, stepUp)
      PROVE  EstimatesBounded'
  <2>1. \A r \in RO : Locked(r)' => Locked(r)
    BY <1>2 DEF transitionRO, Locked, NoQuote
  <2>2. CASE to # "estimate_pending"
    BY <1>1, <1>2, <2>1, <2>2 DEF transitionRO
  <2>3. CASE to = "estimate_pending"
    <3>1. \A r \in RO \ {k} : est'[r] = est[r]
      BY <1>0, <1>2, <2>3 DEF transitionRO, WithdrawQuote
    <3>2. est[k] \in Seq(EstType) /\ DOMAIN est[k] = 1..Len(est[k]) /\ Len(est[k]) \in Nat
      BY <1>0
    <3> DEFINE old(v) == IF est[k][v].status \in {"sent", "partially_approved"}
                         THEN [est[k][v] EXCEPT !.status = "expired"] ELSE est[k][v]
    <3>3. est'[k] = [v \in 1..Len(est[k]) |-> old(v)]
      BY <1>0, <1>2, <2>3, <3>2 DEF transitionRO, WithdrawQuote
    <3> HIDE DEF old
    <3>4. Len(est'[k]) = Len(est[k])
      BY <3>2, <3>3
    <3> QED
      BY <1>1, <2>1, <3>1, <3>4
  <2> QED
    BY <2>2, <2>3
<1>3. ASSUME NEW k \in RO, GenerateEstimateCommit(k)
      PROVE  EstimatesBounded'
  <2> DEFINE new == [status |-> "draft", quoted |-> quoting[k]]
  <2>1. est' = [est EXCEPT ![k] = Append(@, new)] /\ quoting' = [quoting EXCEPT ![k] = NoQuote] /\ Locked(k)
    BY <1>3 DEF GenerateEstimateCommit
  <2> HIDE DEF new
  <2>2. est'[k] = Append(est[k], new) /\ est[k] \in Seq(EstType) /\ \A r \in RO \ {k} : est'[r] = est[r]
    BY <1>0, <2>1
  <2>3. Len(est'[k]) = Len(est[k]) + 1 /\ Len(est[k]) \in Nat
    BY <2>2
  <2>4. ~Locked(k)' /\ \A r \in RO \ {k} : Locked(r)' => Locked(r)
    BY <1>0, <2>1 DEF Locked, NoQuote
  <2> QED
    BY <1>0, <2>1, <2>2, <2>3, <2>4 DEF EstimatesBounded
<1>4. ASSUME NEW k \in RO, GenerateEstimateRead(k)
      PROVE  EstimatesBounded'
  <2>1. est' = est /\ Len(est[k]) < MaxVersion /\ \A r \in RO \ {k} : Locked(r)' => Locked(r)
    BY <1>0, <1>4 DEF GenerateEstimateRead, Locked, NoQuote
  <2> QED
    BY <2>1 DEF EstimatesBounded
<1>5. ASSUME NEW k \in RO, GenerateEstimateAbort(k)
      PROVE  EstimatesBounded'
  <2>1. est' = est /\ \A r \in RO : Locked(r)' => Locked(r)
    BY <1>0, <1>5 DEF GenerateEstimateAbort, Locked, NoQuote
  <2> QED
    BY <1>1, <2>1
<1>6. ASSUME NEW k \in RO, NEW w \in 1..MaxVersion, sendEstimate(k, w)
      PROVE  EstimatesBounded'
  <2>1. est' = [est EXCEPT ![k][w].status = "sent"] /\ w \in 1..Len(est[k]) /\ quoting' = quoting
    BY <1>6 DEF sendEstimate
  <2>2. Len(est'[k]) = Len(est[k])
    BY <1>0, <2>1, EstimatesRewrite DEF EST_STATUSES
  <2>3. \A r \in RO \ {k} : est'[r] = est[r]
    BY <1>0, <2>1
  <2> QED
    BY <1>1, <2>1, <2>2, <2>3 DEF Locked, NoQuote
<1>7. CASE AuthorizationStep
  <2>1. PICK k \in RO, w \in 1..MaxVersion, method \in {"portal", "staff_attestation"},
             stepUp \in BOOLEAN :
             \E approved, declined \in SUBSET LinesOf(k) :
                recordAuthorization(k, w, method, stepUp, approved, declined)
    BY <1>7 DEF AuthorizationStep
  <2>2. PICK approved \in SUBSET LinesOf(k), declined \in SUBSET LinesOf(k) :
             recordAuthorization(k, w, method, stepUp, approved, declined)
    BY <2>1
  <2> DEFINE s == TalliedStatus(k, w, Decided(approved, declined, Len(auths) + 1))
  <2>3. s \in EST_STATUSES
    BY DerivedEstimateStatus
  <2>4. est' = [est EXCEPT ![k][w].status = s] /\ w \in 1..Len(est[k]) /\ quoting' = quoting
    BY <2>2 DEF recordAuthorization, AwaitingDecision
  <2> HIDE DEF s
  <2>5. Len(est'[k]) = Len(est[k])
    BY <1>0, <2>3, <2>4, EstimatesRewrite
  <2>6. \A r \in RO \ {k} : est'[r] = est[r]
    BY <1>0, <2>4
  <2> QED
    BY <1>1, <2>4, <2>5, <2>6 DEF Locked, NoQuote
<1>8. CASE \/ \E l \in Line : addLineItem(l)
           \/ \E l \in Line, s \in LineStatusInput \cup {NoChange}, t \in Terms \cup {NoChange} :
                 updateLineItem(l, s, t)
           \/ \E k \in RO : startMPISession(k) \/ createComebackCase(k)
           \/ \E k \in RO, q \in QUEUE_TYPES : CloseQueueItem(k, q)
           \/ UNCHANGED vars
  <2>1. UNCHANGED <<est, quoting>>
    BY <1>8 DEF addLineItem, updateLineItem, Writable, startMPISession, createComebackCase, CloseQueueItem, vars
  <2> QED
    BY <1>1, <2>1 DEF Locked, NoQuote
<1> QED
  BY <1>2, <1>3, <1>4, <1>5, <1>6, <1>7, <1>8 DEF Next, AuthorizationStep

\* Every step of the floor is a step of module RepairOrder, or leaves it alone.
LEMMA StepsOfRepairOrders ==
    ASSUME TypeOK, EstimatesBounded, FloorTypes, [ServiceNext]_serviceVars
    PROVE  [Next]_vars
<1>0. MaxVersion \in Nat /\ \A r \in RO : est[r] \in Seq(EstType) /\ Len(est[r]) \in 0..MaxVersion
  <2>1. est \in [RO -> Seq(EstType)] /\ MaxVersion \in Nat
    BY BoundAssumption DEF TypeOK, EstType
  <2>2. ASSUME NEW r \in RO PROVE est[r] \in Seq(EstType) /\ Len(est[r]) \in Nat
    BY <2>1
  <2>3. \A r \in RO : Len(est[r]) <= MaxVersion
    BY DEF EstimatesBounded
  <2> QED
    BY <2>1, <2>2, <2>3
<1>1. CASE BoardNext
  <2>1. ASSUME NEW n \in DOMAIN board, NEW u \in User, NEW status \in QUEUE_STATUSES,
               NEW supplied \in BOOLEAN, updateServiceQueueItemStatus(u, n, status, supplied)
        PROVE  [Next]_vars
    <3>1. board[n] \in RowType
      BY DEF FloorTypes
    <3>2. board[n].ro \in RO /\ board[n].queue \in QUEUE_TYPES
      BY <3>1 DEF RowType
    <3>3. CloseQueueItem(board[n].ro, board[n].queue) \/ UNCHANGED vars
      BY <2>1 DEF updateServiceQueueItemStatus
    <3> QED
      BY <3>2, <3>3 DEF Next
  <2> QED
    BY <1>1, <2>1 DEF BoardNext, assignServiceQueueItem, escalateServiceQueueItem
<1>2. CASE InspectionNext
  BY <1>2 DEF InspectionNext, startInspection, sendRecommendationsToCustomer, recordMPIResult,
              submitMPISession, updatePortalTaskStatus, Next
<1>3. CASE ComebackNext
  <2>1. ASSUME NEW p \in Clerk, openCase(p)
        PROVE  [Next]_vars
    <3>1. CASE createComebackCase(opening[p].original)
      <4>1. Cardinality(opening[p].held) = 2
        BY <2>1 DEF openCase
      <4>2. Cardinality(NoRequest.held) = 0
        BY FS_EmptySet DEF NoRequest
      <4>3. opening[p].original \in RO
        BY <4>1, <4>2 DEF FloorTypes, RequestType
      <4> QED
        BY <3>1, <4>3 DEF Next
    <3>2. CASE UNCHANGED vars
      BY <3>2
    <3> QED
      BY <2>1, <3>1, <3>2 DEF openCase
  <2> QED
    BY <1>3, <2>1 DEF ComebackNext, openComeback, lockForComeback, updateComebackCase
<1>4. CASE QuoteNext
  <2>1. ASSUME NEW r \in RO, NEW v \in 1..Len(est[r])
        PROVE  /\ sendEstimate(r, v) => Next
               /\ \A approved, declined \in SUBSET LinesOf(r) :
                    recordAuthorization(r, v, "portal", FALSE, approved, declined) => Next
    <3>1. v \in 1..MaxVersion
      BY <1>0
    <3> QED
      BY <3>1 DEF Next
  <2>2. ASSUME NEW r \in RO
        PROVE  GenerateEstimateRead(r) \/ GenerateEstimateCommit(r) \/ GenerateEstimateAbort(r) => Next
    BY DEF Next
  <2>3. ASSUME NEW l \in Line
        PROVE  /\ addLineItem(l) => Next
               /\ \A s \in LineStatusInput : updateLineItem(l, s, NoChange) => Next
    BY DEF Next
  <2> QED
    BY <1>4, <2>1, <2>2, <2>3 DEF QuoteNext, QuoteStep, GenerateEstimateEnds, LineStep
<1>5. CASE \E r \in RO, to \in RO_STATUSES, stepUp \in BOOLEAN : transitionAndRecord(r, to, stepUp)
  BY <1>5 DEF transitionAndRecord, TransitionStep, Next
<1>6. PartsNext => UNCHANGED vars
  BY DEF PartsNext, requestPart, createSubletJob, updatePartLine, updateSubletJob, createWarrantyClaim, nextDay
<1>7. MetricsNext => UNCHANGED vars
  BY DEF MetricsNext, tick, publishGroup, failGroup, restart, readGroup, allVars
<1>8. \A k, status : commitPartUpdate(k) \/ beginPartUpdate(k, status) => UNCHANGED vars
  BY DEF commitPartUpdate, beginPartUpdate, allVars
<1>9. UNCHANGED serviceVars => UNCHANGED vars
  BY DEF serviceVars, allVars
<1> QED
  BY <1>1, <1>2, <1>3, <1>4, <1>5, <1>6, <1>7, <1>8, <1>9 DEF ServiceNext

--------------------------------------------------------------------------------
(* Which steps touch which tables *)

BoardAndQuotes == BoardNext \/ QuoteNext \/ \E r \in RO, to \in RO_STATUSES, stepUp \in BOOLEAN : TransitionStep(r, to, stepUp)
PartUpdate ==
    \E k \in DOMAIN parts : commitPartUpdate(k) \/ \E status \in PART_STATUSES : beginPartUpdate(k, status)

\* The families of steps, by what they leave alone.
LEMMA Families ==
    ASSUME [ServiceNext]_serviceVars
    PROVE  \/ BoardAndQuotes /\ UNCHANGED <<arriving, highWater, observed, gauges, pass>>
           \/ (InspectionNext \/ PartsNext \/ ComebackNext) /\ UNCHANGED metricsVars
           \/ PartUpdate
           \/ MetricsNext
           \/ UNCHANGED serviceVars
BY DEF ServiceNext, BoardAndQuotes, PartUpdate, transitionAndRecord, metricsVars

LEMMA BoardAndQuotesFrame ==
    ASSUME BoardAndQuotes
    PROVE  UNCHANGED <<inspections, recommendations, tasks, parts, opening, today>>
<1>1. BoardNext => UNCHANGED <<inspections, recommendations, tasks, parts, opening, today>>
  BY DEF BoardNext, assignServiceQueueItem, updateServiceQueueItemStatus, escalateServiceQueueItem
<1>2. QuoteNext => UNCHANGED <<inspections, recommendations, tasks, parts, opening, today>>
  BY DEF QuoteNext, QuoteStep, GenerateEstimateEnds, LineStep, floorVars
<1> QED
  BY <1>1, <1>2 DEF BoardAndQuotes, TransitionStep

LEMMA InspectionFrame ==
    ASSUME InspectionNext
    PROVE  UNCHANGED <<parts, opening, today>>
BY DEF InspectionNext, startInspection, sendRecommendationsToCustomer, recordMPIResult, submitMPISession,
       updatePortalTaskStatus

LEMMA ComebackFrame ==
    ASSUME ComebackNext
    PROVE  UNCHANGED <<inspections, recommendations, tasks, parts, today>>
BY DEF ComebackNext, openComeback, lockForComeback, openCase, updateComebackCase

LEMMA PartsFrame ==
    ASSUME PartsNext
    PROVE  /\ UNCHANGED <<inspections, recommendations, tasks, opening>>
           /\ UNCHANGED today \/ (nextDay /\ UNCHANGED parts)
BY DEF PartsNext, requestPart, createSubletJob, updatePartLine, updateSubletJob, createWarrantyClaim, nextDay

LEMMA PartUpdateFrame ==
    ASSUME PartUpdate
    PROVE  UNCHANGED <<inspections, recommendations, tasks, opening, today, highWater, observed, gauges, pass>>
BY DEF PartUpdate, commitPartUpdate, beginPartUpdate, allVars, floorVars

LEMMA MetricsFrame ==
    ASSUME MetricsNext
    PROVE  UNCHANGED <<inspections, recommendations, tasks, parts, opening, today, arriving>>
BY DEF MetricsNext, tick, publishGroup, failGroup, restart, readGroup, allVars, floorVars

LEMMA OnlyInspections ==
    ASSUME [ServiceNext]_serviceVars
    PROVE  InspectionNext \/ UNCHANGED <<inspections, recommendations, tasks>>
BY Families, BoardAndQuotesFrame, ComebackFrame, PartsFrame, PartUpdateFrame, MetricsFrame
   DEF serviceVars, allVars, floorVars

LEMMA OnlyComebacks ==
    ASSUME [ServiceNext]_serviceVars
    PROVE  ComebackNext \/ UNCHANGED opening
BY Families, BoardAndQuotesFrame, InspectionFrame, PartsFrame, PartUpdateFrame, MetricsFrame
   DEF serviceVars, allVars, floorVars

LEMMA OnlyTheDay ==
    ASSUME [ServiceNext]_serviceVars
    PROVE  nextDay \/ UNCHANGED today
BY Families, BoardAndQuotesFrame, InspectionFrame, ComebackFrame, PartsFrame, PartUpdateFrame, MetricsFrame
   DEF serviceVars, allVars, floorVars

--------------------------------------------------------------------------------
(* Inspections and what they recommend *)

LEMMA ReadingTyped ==
    ASSUME NEW x \in Result
    PROVE  Reading(x) \in ReadingType
<1>1. x \in [status : MPI_RESULT_STATUSES, severity : MPI_SEVERITIES \cup {Nobody}]
  BY FloorAssumption
<1> QED
  BY <1>1 DEF Reading, ReadingType, MPI_SEVERITIES

LEMMA PriorityTyped ==
    ASSUME NEW x
    PROVE  priorityOf(x) \in QUEUE_PRIORITIES
BY DEF priorityOf, QUEUE_PRIORITIES

\* What an inspection that was submitted adds to a count, and what a recommendation does.
Counts(s, r, i, p) == s.ro = r /\ s.status = "submitted" /\ Finding(s.results[i]) /\ priorityOf(s.results[i]) = p
Found(r, i, p) == {n \in DOMAIN inspections : Counts(inspections[n], r, i, p)}
Names(k, r, i, p) == k.ro = r /\ k.item = i /\ k.priority = p
Recommended(r, i, p) == {k \in DOMAIN recommendations : Names(recommendations[k], r, i, p)}

LEMMA FindingsCounted ==
    FindingsAreRecommendedOnce <=>
        \A r \in RO, i \in ItemKey, p \in QUEUE_PRIORITIES : Cardinality(Recommended(r, i, p)) = Cardinality(Found(r, i, p))
BY DEF FindingsAreRecommendedOnce, Found, Recommended, Counts, Names

\* The recommendations of a submitted inspection.
NewRecommendations(s) ==
    {[ro |-> s.ro, item |-> i, priority |-> priorityOf(s.results[i]), status |-> "proposed", created |-> today] :
        i \in {x \in ItemKey : Finding(s.results[x])}}

LEMMA RecommendationsListed ==
    ASSUME NEW s \in InspectionType, today \in Nat
    PROVE  LET f == SetToSeq(NewRecommendations(s))
           IN  /\ f \in Seq(RecommendationType)
               /\ \A r \in RO, i \in ItemKey, p \in QUEUE_PRIORITIES :
                    IF s.ro = r /\ Finding(s.results[i]) /\ priorityOf(s.results[i]) = p
                    THEN \E k \in 1..Len(f) : \A m \in 1..Len(f) : Names(f[m], r, i, p) <=> m = k
                    ELSE \A m \in 1..Len(f) : ~Names(f[m], r, i, p)
<1> DEFINE T == {x \in ItemKey : Finding(s.results[x])}
           rec(i) == [ro |-> s.ro, item |-> i, priority |-> priorityOf(s.results[i]), status |-> "proposed",
                      created |-> today]
           S == NewRecommendations(s)
           f == SetToSeq(S)
           g == [i \in T |-> rec(i)]
<1>1. S = {rec(i) : i \in T}
  BY DEF NewRecommendations
<1>2. ASSUME NEW i \in ItemKey
      PROVE  /\ rec(i) \in RecommendationType
             /\ rec(i).ro = s.ro /\ rec(i).item = i /\ rec(i).priority = priorityOf(s.results[i])
  <2>1. s.ro \in RO
    BY DEF InspectionType
  <2>2. priorityOf(s.results[i]) \in QUEUE_PRIORITIES
    BY PriorityTyped
  <2> QED
    BY <2>1, <2>2 DEF RecommendationType
<1> HIDE DEF rec, S, f
<1>3. IsFiniteSet(T)
  BY FloorAssumption, FS_Subset
<1>4. g \in Surjection(T, S)
  BY <1>1 DEF Surjection
<1>5. IsFiniteSet(S)
  BY <1>3, <1>4, FS_Surjection
<1>6. /\ f \in Seq(S)
      /\ \A i, j \in 1..Len(f) : f[i] = f[j] => i = j
      /\ \A x \in S : \E i \in 1..Len(f) : f[i] = x
  BY <1>5, SetToSeqLists DEF f
<1>7. S \subseteq RecommendationType
  BY <1>1, <1>2
<1>8. f \in Seq(RecommendationType)
  BY <1>6, <1>7
<1>9. ASSUME NEW m \in 1..Len(f) PROVE \E i \in T : f[m] = rec(i)
  BY <1>1, <1>6
<1>10. ASSUME NEW r \in RO, NEW i \in ItemKey, NEW p \in QUEUE_PRIORITIES,
              s.ro = r /\ Finding(s.results[i]) /\ priorityOf(s.results[i]) = p
       PROVE  \E k \in 1..Len(f) : \A m \in 1..Len(f) : Names(f[m], r, i, p) <=> m = k
  <2>1. i \in T /\ rec(i) \in S
    BY <1>1, <1>10
  <2>2. PICK k \in 1..Len(f) : f[k] = rec(i)
    BY <1>6, <2>1
  <2>3. Names(rec(i), r, i, p)
    BY <1>2, <1>10 DEF Names
  <2>4. ASSUME NEW m \in 1..Len(f), Names(f[m], r, i, p) PROVE m = k
    <3>1. PICK j \in T : f[m] = rec(j)
      BY <1>9
    <3>2. j = i
      BY <1>2, <2>4, <3>1 DEF Names
    <3> QED
      BY <1>6, <2>2, <3>1, <3>2
  <2> QED
    BY <2>2, <2>3, <2>4
<1>11. ASSUME NEW r \in RO, NEW i \in ItemKey, NEW p \in QUEUE_PRIORITIES,
              NEW m \in 1..Len(f), Names(f[m], r, i, p)
       PROVE  s.ro = r /\ Finding(s.results[i]) /\ priorityOf(s.results[i]) = p
  <2>1. PICK j \in T : f[m] = rec(j)
    BY <1>9
  <2>2. j = i /\ s.ro = r /\ priorityOf(s.results[j]) = p
    BY <1>2, <1>11, <2>1 DEF Names
  <2> QED
    BY <2>2
<1> HIDE DEF T, g
<1> QED
  BY <1>8, <1>10, <1>11 DEF f, S

\* Lists keep their counts when their members keep what is counted.
LEMMA SeqOfTypes ==
    ASSUME FloorTypes
    PROVE  /\ DOMAIN inspections = 1..Len(inspections) /\ Len(inspections) \in Nat
           /\ DOMAIN recommendations = 1..Len(recommendations) /\ Len(recommendations) \in Nat
           /\ \A n \in DOMAIN inspections : inspections[n] \in InspectionType
           /\ \A k \in DOMAIN recommendations : recommendations[k] \in RecommendationType
           /\ today \in Nat
BY FloorAssumption DEF FloorTypes

LEMMA StartTyped ==
    ASSUME FloorTypes, NEW r \in RO, NEW tech \in Tech, startInspection(r, tech)
    PROVE  /\ inspections' \in Seq(InspectionType) /\ UNCHANGED <<recommendations, tasks>>
           /\ \A x \in RO, i \in ItemKey, p \in QUEUE_PRIORITIES : Found(x, i, p)' = Found(x, i, p)
<1> DEFINE new == [ro |-> r, tech |-> tech, status |-> "started", results |-> [i \in ItemKey |-> NoResult]]
<1>1. NoResult \in ReadingType
  BY DEF NoResult, ReadingType
<1>2. new \in InspectionType /\ new.status = "started"
  BY <1>1 DEF InspectionType
<1>3. inspections' = Append(inspections, new) /\ UNCHANGED <<recommendations, tasks>>
  BY DEF startInspection
<1> HIDE DEF new
<1>4. inspections \in Seq(InspectionType)
  BY DEF FloorTypes
<1>5. /\ inspections' \in Seq(InspectionType) /\ Len(inspections') = Len(inspections) + 1
      /\ \A n \in 1..Len(inspections) : inspections'[n] = inspections[n]
      /\ inspections'[Len(inspections) + 1] = new
  BY <1>2, <1>3, <1>4
<1>6. ASSUME NEW x \in RO, NEW i \in ItemKey, NEW p \in QUEUE_PRIORITIES
      PROVE  Found(x, i, p)' = Found(x, i, p)
  <2>1. ~Counts(inspections'[Len(inspections) + 1], x, i, p)
    BY <1>2, <1>5 DEF Counts
  <2>2. Found(x, i, p)' = {n \in 1..(Len(inspections) + 1) : Counts(inspections'[n], x, i, p)}
    BY <1>5 DEF Found, Counts
  <2>3. Found(x, i, p) = {n \in 1..Len(inspections) : Counts(inspections[n], x, i, p)}
    BY <1>4 DEF Found
  <2>4. \A n \in 1..Len(inspections) : inspections'[n] = inspections[n]
    BY <1>5
  <2>5. Len(inspections) \in Nat
    BY <1>4
  <2> HIDE DEF Counts
  <2> QED
    BY <2>1, <2>2, <2>3, <2>4, <2>5
<1> QED
  BY <1>3, <1>5, <1>6

LEMMA RecordTyped ==
    ASSUME FloorTypes, NEW n \in DOMAIN inspections, NEW u \in User, NEW item \in ItemKey, NEW x \in Result,
           recordMPIResult(u, n, item, x)
    PROVE  /\ inspections' \in Seq(InspectionType) /\ UNCHANGED <<recommendations, tasks>>
           /\ \A r \in RO, i \in ItemKey, p \in QUEUE_PRIORITIES : Found(r, i, p)' = Found(r, i, p)
<1> DEFINE old == inspections[n]
           results == [old.results EXCEPT ![item] = Reading(x)]
           new == [old EXCEPT !.status = "in_progress", !.results = results]
<1>1. old \in InspectionType /\ old.results \in [ItemKey -> ReadingType] /\ inspections \in Seq(InspectionType)
  <2>1. inspections \in Seq(InspectionType) /\ old \in InspectionType
    BY DEF FloorTypes
  <2> HIDE DEF old
  <2> QED
    BY <2>1 DEF InspectionType
<1>2. results \in [ItemKey -> ReadingType]
  BY <1>1, ReadingTyped
<1>3. inspections' = [inspections EXCEPT ![n] = new]
  BY <1>1 DEF recordMPIResult, InspectionType
<1>4. UNCHANGED <<recommendations, tasks>> /\ old.status \in {"started", "in_progress"}
  BY DEF recordMPIResult
<1> HIDE DEF results
<1>5. new \in InspectionType /\ new.status = "in_progress"
  BY <1>1, <1>2 DEF InspectionType
<1> HIDE DEF new
<1>6. /\ inspections' \in Seq(InspectionType) /\ DOMAIN inspections' = DOMAIN inspections
      /\ inspections'[n] = new /\ \A m \in DOMAIN inspections \ {n} : inspections'[m] = inspections[m]
  BY <1>1, <1>3, <1>5
<1>7. ASSUME NEW r \in RO, NEW i \in ItemKey, NEW p \in QUEUE_PRIORITIES
      PROVE  Found(r, i, p)' = Found(r, i, p)
  <2>1. ~Counts(inspections'[n], r, i, p) /\ ~Counts(inspections[n], r, i, p)
    BY <1>4, <1>5, <1>6 DEF Counts
  <2>2. Found(r, i, p)' = {m \in DOMAIN inspections : Counts(inspections'[m], r, i, p)}
    BY <1>6 DEF Found, Counts
  <2> QED
    BY <1>6, <2>1, <2>2 DEF Found
<1> QED
  BY <1>4, <1>6, <1>7

\* A submitted inspection counts from now on, and what it found is recommended once.
LEMMA SubmitTyped ==
    ASSUME FloorTypes, FindingsAreRecommendedOnce, NEW n \in DOMAIN inspections, NEW u \in User, submitMPISession(u, n)
    PROVE  /\ inspections' \in Seq(InspectionType) /\ recommendations' \in Seq(RecommendationType)
           /\ UNCHANGED tasks /\ FindingsAreRecommendedOnce'
<1> DEFINE old == inspections[n]
           new == [old EXCEPT !.status = "submitted"]
           f == SetToSeq(NewRecommendations(old))
<1>1. inspections \in Seq(InspectionType) /\ recommendations \in Seq(RecommendationType) /\ today \in Nat
  BY FloorAssumption DEF FloorTypes
<1>2. old \in InspectionType
  BY <1>1
<1>3. /\ inspections' = [inspections EXCEPT ![n] = new] /\ recommendations' = recommendations \o f
      /\ UNCHANGED tasks /\ old.status \in {"started", "in_progress"}
  <2>1. inspections' = [inspections EXCEPT ![n].status = "submitted"]
    BY DEF submitMPISession
  <2> QED
    BY <1>1, <2>1 DEF submitMPISession, NewRecommendations
<1>4. /\ f \in Seq(RecommendationType)
      /\ \A r \in RO, i \in ItemKey, p \in QUEUE_PRIORITIES :
           IF old.ro = r /\ Finding(old.results[i]) /\ priorityOf(old.results[i]) = p
           THEN \E k \in 1..Len(f) : \A m \in 1..Len(f) : Names(f[m], r, i, p) <=> m = k
           ELSE \A m \in 1..Len(f) : ~Names(f[m], r, i, p)
  BY <1>1, <1>2, RecommendationsListed
<1> HIDE DEF f
<1>5. new \in InspectionType /\ new.status = "submitted" /\ new.ro = old.ro /\ new.results = old.results
  BY <1>2 DEF InspectionType
<1> HIDE DEF new
<1>6. /\ inspections' \in Seq(InspectionType) /\ DOMAIN inspections' = DOMAIN inspections
      /\ inspections'[n] = new /\ \A m \in DOMAIN inspections \ {n} : inspections'[m] = inspections[m]
  BY <1>1, <1>3, <1>5
<1> DEFINE b == Len(recommendations)
<1>7. /\ recommendations' \in Seq(RecommendationType) /\ Len(recommendations') = b + Len(f)
      /\ b \in Nat /\ Len(f) \in Nat
      /\ \A k \in 1..b : recommendations'[k] = recommendations[k]
      /\ \A k \in 1..Len(f) : recommendations'[b + k] = f[k]
  BY <1>1, <1>3, <1>4
<1>8. ASSUME NEW r \in RO, NEW i \in ItemKey, NEW p \in QUEUE_PRIORITIES
      PROVE  Cardinality(Recommended(r, i, p)') = Cardinality(Found(r, i, p)')
  <2>1. Cardinality(Recommended(r, i, p)) = Cardinality(Found(r, i, p))
    BY FindingsCounted
  <2>2. Found(r, i, p)' = {m \in DOMAIN inspections : Counts(inspections'[m], r, i, p)}
    BY <1>6 DEF Found, Counts
  <2>3. ~Counts(inspections[n], r, i, p)
    BY <1>3 DEF Counts
  <2>4. Recommended(r, i, p)' = {k \in 1..(b + Len(f)) : Names(recommendations'[k], r, i, p)}
    BY <1>7 DEF Recommended, Names
  <2>5. Recommended(r, i, p) = {k \in 1..b : Names(recommendations[k], r, i, p)}
    BY <1>1 DEF Recommended
  <2>6. IsFiniteSet(Recommended(r, i, p)) /\ Cardinality(Recommended(r, i, p)) \in Nat
    <3>1. Recommended(r, i, p) \subseteq 1..b
      BY <2>5
    <3> QED
      BY <1>7, <3>1, PlacesFinite
  <2>7. IsFiniteSet(Found(r, i, p)) /\ Cardinality(Found(r, i, p)) \in Nat
    <3>1. Found(r, i, p) \subseteq 1..Len(inspections) /\ Len(inspections) \in Nat
      BY <1>1 DEF Found
    <3> QED
      BY <3>1, PlacesFinite
  <2>8. CASE old.ro = r /\ Finding(old.results[i]) /\ priorityOf(old.results[i]) = p
    <3>1. PICK k \in 1..Len(f) : \A m \in 1..Len(f) : Names(f[m], r, i, p) <=> m = k
      BY <1>4, <2>8
    <3>2. Counts(new, r, i, p)
      BY <1>5, <2>8 DEF Counts
    <3>3. Found(r, i, p)' = Found(r, i, p) \cup {n} /\ n \notin Found(r, i, p)
      BY <1>6, <2>2, <2>3, <3>2 DEF Found
    <3>4. ASSUME NEW m \in 1..(b + Len(f))
          PROVE  Names(recommendations'[m], r, i, p) <=> m \in Recommended(r, i, p) \cup {b + k}
      <4>1. CASE m \in 1..b
        BY <1>7, <2>5, <4>1
      <4>2. CASE m \notin 1..b
        <5>1. m - b \in 1..Len(f) /\ m = b + (m - b)
          BY <1>7, <4>2
        <5>2. recommendations'[m] = f[m - b]
          BY <1>7, <5>1
        <5>3. Names(recommendations'[m], r, i, p) <=> m - b = k
          BY <3>1, <5>1, <5>2
        <5>4. m \notin Recommended(r, i, p)
          BY <2>5, <4>2
        <5> QED
          BY <1>7, <5>1, <5>3, <5>4
      <4> QED
        BY <4>1, <4>2
    <3>5. Recommended(r, i, p)' = Recommended(r, i, p) \cup {b + k} /\ b + k \notin Recommended(r, i, p)
      <4>1. b + k \in 1..(b + Len(f)) /\ b + k \notin 1..b
        BY <1>7
      <4>2. Recommended(r, i, p) \subseteq 1..(b + Len(f))
        BY <1>7, <2>5
      <4> QED
        BY <2>4, <2>5, <3>4, <4>1, <4>2
    <3>6. /\ Cardinality(Found(r, i, p)') = Cardinality(Found(r, i, p)) + 1
          /\ Cardinality(Recommended(r, i, p)') = Cardinality(Recommended(r, i, p)) + 1
      BY <2>6, <2>7, <3>3, <3>5, FS_AddElement
    <3> QED
      BY <2>1, <3>6
  <2>9. CASE ~(old.ro = r /\ Finding(old.results[i]) /\ priorityOf(old.results[i]) = p)
    <3>1. \A m \in 1..Len(f) : ~Names(f[m], r, i, p)
      BY <1>4, <2>9
    <3>2. ~Counts(new, r, i, p)
      BY <1>5, <2>9 DEF Counts
    <3>3. Found(r, i, p)' = Found(r, i, p)
      BY <1>6, <2>2, <2>3, <3>2 DEF Found
    <3>4. ASSUME NEW m \in 1..(b + Len(f))
          PROVE  Names(recommendations'[m], r, i, p) <=> m \in Recommended(r, i, p)
      <4>1. CASE m \in 1..b
        BY <1>7, <2>5, <4>1
      <4>2. CASE m \notin 1..b
        <5>1. m - b \in 1..Len(f) /\ m = b + (m - b)
          BY <1>7, <4>2
        <5>2. recommendations'[m] = f[m - b]
          BY <1>7, <5>1
        <5> QED
          BY <2>5, <3>1, <4>2, <5>1, <5>2
      <4> QED
        BY <4>1, <4>2
    <3>5. Recommended(r, i, p)' = Recommended(r, i, p)
      <4>1. Recommended(r, i, p) \subseteq 1..(b + Len(f))
        BY <1>7, <2>5
      <4> QED
        BY <2>4, <3>4, <4>1
    <3> QED
      BY <2>1, <3>3, <3>5
  <2> QED
    BY <2>8, <2>9
<1>9. FindingsAreRecommendedOnce'
  BY <1>8, FindingsCounted DEF Found, Recommended, FindingsAreRecommendedOnce, Counts, Names
<1> QED
  BY <1>3, <1>6, <1>7, <1>9

\* What is sent keeps its line in the count.
LEMMA SendTyped ==
    ASSUME FloorTypes, NEW r \in RO, sendRecommendationsToCustomer(r)
    PROVE  /\ recommendations' \in Seq(RecommendationType) /\ UNCHANGED inspections
           /\ tasks' \in Seq([ro : RO, status : PORTAL_TASK_STATUSES])
           /\ \A x \in RO, i \in ItemKey, p \in QUEUE_PRIORITIES : Recommended(x, i, p)' = Recommended(x, i, p)
<1> DEFINE sent(k) == [recommendations[k] EXCEPT !.status = "sent_to_customer"]
           b == Len(recommendations)
<1>1. recommendations \in Seq(RecommendationType) /\ DOMAIN recommendations = 1..b /\ b \in Nat
  BY DEF FloorTypes
<1>2. ASSUME NEW k \in 1..b
      PROVE  /\ sent(k) \in RecommendationType /\ sent(k).ro = recommendations[k].ro
             /\ sent(k).item = recommendations[k].item /\ sent(k).priority = recommendations[k].priority
  <2>1. recommendations[k] \in RecommendationType
    BY <1>1
  <2> QED
    BY <2>1 DEF RecommendationType
<1> HIDE DEF sent
<1>3. recommendations' = [k \in 1..b |-> IF recommendations[k].ro = r /\ recommendations[k].status = "proposed"
                                         THEN sent(k) ELSE recommendations[k]]
  BY <1>1 DEF sendRecommendationsToCustomer, sent
<1>4. ASSUME NEW k \in 1..b
      PROVE  /\ recommendations'[k] \in RecommendationType /\ recommendations'[k].ro = recommendations[k].ro
             /\ recommendations'[k].item = recommendations[k].item
             /\ recommendations'[k].priority = recommendations[k].priority
  <2>1. recommendations[k] \in RecommendationType
    BY <1>1
  <2>2. recommendations'[k] \in {sent(k), recommendations[k]}
    BY <1>3
  <2> QED
    BY <1>2, <2>1, <2>2
<1>5. recommendations' \in [1..b -> RecommendationType]
  BY <1>3, <1>4
<1>6. recommendations' \in Seq(RecommendationType) /\ DOMAIN recommendations' = 1..b
  BY <1>1, <1>5, FunctionIsSeq
<1>7. ASSUME NEW x \in RO, NEW i \in ItemKey, NEW p \in QUEUE_PRIORITIES
      PROVE  Recommended(x, i, p)' = Recommended(x, i, p)
  <2>1. Recommended(x, i, p)' = {k \in 1..b : Names(recommendations'[k], x, i, p)}
    BY <1>6 DEF Recommended, Names
  <2>2. \A k \in 1..b : Names(recommendations'[k], x, i, p) <=> Names(recommendations[k], x, i, p)
    BY <1>4 DEF Names
  <2> QED
    BY <1>1, <2>1, <2>2 DEF Recommended
<1>8. tasks' \in Seq([ro : RO, status : PORTAL_TASK_STATUSES])
  <2> DEFINE new == [ro |-> r, status |-> "created"]
             T == [ro : RO, status : PORTAL_TASK_STATUSES]
  <2>1. new \in T
    BY DEF PORTAL_TASK_STATUSES
  <2>2. tasks' = tasks \/ tasks' = Append(tasks, new)
    BY DEF sendRecommendationsToCustomer
  <2>3. tasks \in Seq(T)
    BY DEF FloorTypes
  <2> HIDE DEF new, T
  <2>4. tasks' \in Seq(T)
    BY <2>1, <2>2, <2>3
  <2> QED
    BY <2>4 DEF T
<1> QED
  BY <1>6, <1>7, <1>8 DEF sendRecommendationsToCustomer

LEMMA TaskTyped ==
    ASSUME FloorTypes, NEW k \in DOMAIN tasks, NEW status \in PORTAL_TASK_STATUSES, updatePortalTaskStatus(k, status)
    PROVE  /\ tasks' \in Seq([ro : RO, status : PORTAL_TASK_STATUSES])
           /\ UNCHANGED <<inspections, recommendations>>
<1> DEFINE T == [ro : RO, status : PORTAL_TASK_STATUSES]
           new == [tasks[k] EXCEPT !.status = status]
<1>1. tasks \in Seq(T) /\ tasks[k] \in T
  <2>1. tasks \in Seq(T)
    BY DEF FloorTypes
  <2> HIDE DEF T
  <2> QED
    BY <2>1
<1>2. new \in T
  BY <1>1
<1>3. tasks' = [tasks EXCEPT ![k] = new] /\ UNCHANGED <<inspections, recommendations>>
  BY DEF updatePortalTaskStatus
<1> HIDE DEF new, T
<1>4. tasks' \in Seq(T)
  BY <1>1, <1>2, <1>3
<1> QED
  BY <1>3, <1>4 DEF T

\* The inspections, their recommendations and the customer's tasks through every step.
LEMMA InspectionsStep ==
    ASSUME FloorTypes, FindingsAreRecommendedOnce, [ServiceNext]_serviceVars
    PROVE  /\ inspections' \in Seq(InspectionType) /\ recommendations' \in Seq(RecommendationType)
           /\ tasks' \in Seq([ro : RO, status : PORTAL_TASK_STATUSES])
           /\ FindingsAreRecommendedOnce'
<1> DEFINE Goal == /\ inspections' \in Seq(InspectionType) /\ recommendations' \in Seq(RecommendationType)
                   /\ tasks' \in Seq([ro : RO, status : PORTAL_TASK_STATUSES])
                   /\ FindingsAreRecommendedOnce'
<1>0. /\ inspections \in Seq(InspectionType) /\ recommendations \in Seq(RecommendationType)
      /\ tasks \in Seq([ro : RO, status : PORTAL_TASK_STATUSES])
  BY DEF FloorTypes
<1>1. CASE UNCHANGED <<inspections, recommendations, tasks>>
  <2>1. FindingsAreRecommendedOnce'
    BY <1>1 DEF FindingsAreRecommendedOnce
  <2> QED
    BY <1>0, <1>1, <2>1
<1>2. ASSUME \A x \in RO, i \in ItemKey, p \in QUEUE_PRIORITIES :
                Found(x, i, p)' = Found(x, i, p) /\ Recommended(x, i, p)' = Recommended(x, i, p)
      PROVE  FindingsAreRecommendedOnce'
  <2>1. \A x \in RO, i \in ItemKey, p \in QUEUE_PRIORITIES :
            Cardinality(Recommended(x, i, p)') = Cardinality(Found(x, i, p)')
    BY <1>2, FindingsCounted
  <2> QED
    BY <2>1 DEF FindingsAreRecommendedOnce, Found, Recommended, Counts, Names
<1>3. recommendations' = recommendations =>
        \A x \in RO, i \in ItemKey, p \in QUEUE_PRIORITIES : Recommended(x, i, p)' = Recommended(x, i, p)
  BY DEF Recommended, Names
<1>4. inspections' = inspections =>
        \A x \in RO, i \in ItemKey, p \in QUEUE_PRIORITIES : Found(x, i, p)' = Found(x, i, p)
  BY DEF Found, Counts
<1>5. CASE \E r \in RO, tech \in Tech : startInspection(r, tech)
  BY <1>0, <1>2, <1>3, <1>5, StartTyped
<1>6. CASE \E n \in DOMAIN inspections, u \in User : \E item \in ItemKey, x \in Result : recordMPIResult(u, n, item, x)
  BY <1>0, <1>2, <1>3, <1>6, RecordTyped
<1>7. CASE \E n \in DOMAIN inspections, u \in User : submitMPISession(u, n)
  BY <1>0, <1>7, SubmitTyped
<1>8. CASE \E r \in RO : sendRecommendationsToCustomer(r)
  BY <1>0, <1>2, <1>4, <1>8, SendTyped
<1>9. CASE \E k \in DOMAIN tasks, status \in PORTAL_TASK_STATUSES : updatePortalTaskStatus(k, status)
  BY <1>0, <1>2, <1>3, <1>4, <1>9, TaskTyped
<1> QED
  BY <1>1, <1>5, <1>6, <1>7, <1>8, <1>9, OnlyInspections DEF InspectionNext

\* A comeback request holds rows of repair orders, whichever way round it named them.
LEMMA OpeningStep ==
    ASSUME FloorTypes, [ServiceNext]_serviceVars
    PROVE  opening' \in [Clerk -> RequestType]
<1>0. opening \in [Clerk -> RequestType] /\ RO \subseteq Nat
  BY FloorAssumption DEF FloorTypes
<1>1. ASSUME NEW p \in Clerk, NEW original \in RO, NEW other \in RO, openComeback(p, original, other)
      PROVE  opening' \in [Clerk -> RequestType]
  <2> DEFINE new == [original |-> original, other |-> other, held |-> {}]
  <2>1. new \in RequestType
    BY DEF RequestType
  <2>2. opening' = [opening EXCEPT ![p] = new]
    BY <1>1 DEF openComeback
  <2> HIDE DEF new
  <2> QED
    BY <1>0, <2>1, <2>2
<1>2. ASSUME NEW p \in Clerk, lockForComeback(p)
      PROVE  opening' \in [Clerk -> RequestType]
  <2> DEFINE q == opening[p]
             new == [q EXCEPT !.held = @ \cup {NextToLock(q)}]
  <2>1. q \in [original : RO, other : RO, held : SUBSET RO]
    BY <1>0, <1>2 DEF lockForComeback, RequestType
  <2>2. NextToLock(q) \in RO
    <3>1. q.original \in RO /\ q.other \in RO /\ q.original \in Nat /\ q.other \in Nat
      BY <1>0, <2>1
    <3>2. NextToLock(q) = q.original \/ NextToLock(q) = q.other
      BY <3>1 DEF NextToLock
    <3> QED
      BY <3>1, <3>2
  <2>3. opening' = [opening EXCEPT ![p] = new]
    BY <1>0, <1>2, <2>1 DEF lockForComeback
  <2>4. new \in RequestType
    BY <2>1, <2>2 DEF RequestType
  <2> HIDE DEF new
  <2> QED
    BY <1>0, <2>3, <2>4
<1>3. ASSUME NEW p \in Clerk, openCase(p)
      PROVE  opening' \in [Clerk -> RequestType]
  <2>1. opening' = [opening EXCEPT ![p] = NoRequest] /\ NoRequest \in RequestType
    BY <1>3 DEF openCase, RequestType
  <2> QED
    BY <1>0, <2>1
<1>4. CASE UNCHANGED opening
  BY <1>0, <1>4
<1> QED
  BY <1>1, <1>2, <1>3, <1>4, OnlyComebacks DEF ComebackNext, updateComebackCase

LEMMA FloorTypesStep ==
    ASSUME TypeOK, FloorTypes, FindingsAreRecommendedOnce, [ServiceNext]_serviceVars
    PROVE  FloorTypes' /\ FindingsAreRecommendedOnce'
<1>1. board' \in Seq(RowType)
  BY BoardTyped, StepsOnBoard
<1>2. today' \in 1..MaxDay
  BY FloorAssumption, OnlyTheDay DEF nextDay, FloorTypes
<1> QED
  BY <1>1, <1>2, InspectionsStep, OpeningStep DEF FloorTypes

--------------------------------------------------------------------------------
(* Parts, their arrival and what the pass observed of it *)

\* A set of days has a last one.
LEMMA LastDay ==
    ASSUME NEW n \in Nat, NEW M, M \subseteq 0..n, M # {}
    PROVE  \E m \in M : \A x \in M : x <= m
<1> DEFINE Below == {ss \in Nat \X Nat : ss[1] < ss[2]}
           Left == {n - x : x \in M}
<1>1. IsWellFoundedOn(Below, Nat)
  BY NatLessThanWellFounded DEF OpToRel
<1>2. Left \subseteq Nat /\ Left # {}
  <2>1. ASSUME NEW x \in M PROVE n - x \in Nat
    <3>1. x \in 0..n
      OBVIOUS
    <3> QED
      BY <3>1
  <2> QED
    BY <2>1
<1>3. PICK l \in Left : \A g \in Left : ~(<<g, l>> \in Below)
  <2> HIDE DEF Below, Left
  <2> QED
    BY <1>1, <1>2, WFMin
<1>4. PICK m \in M : l = n - m
  OBVIOUS
<1>5. ASSUME NEW x \in M, ~(x <= m) PROVE FALSE
  <2>1. n - x \in Left /\ n - x \in Nat /\ l \in Nat /\ n - x < l
    BY <1>4, <1>5
  <2>2. <<n - x, l>> \in Below
    BY <2>1
  <2> QED
    BY <1>3, <2>1, <2>2
<1> QED
  BY <1>5

LEMMA PartStatusTyped ==
    ASSUME NEW part \in PartType, NEW status \in PART_STATUSES, NEW at \in 0..MaxDay
    PROVE  LET new == WithPartStatus(part, status, at)
           IN  new \in PartType /\ (part.received # 0 => new.received = part.received)
BY DEF WithPartStatus, PartType

\* What the steps may do to the parts: add one, or give one a status, its arrival kept.
Stamped(k, part) ==
    /\ parts' = [parts EXCEPT ![k] = part]
    /\ parts[k].received # 0 => part.received = parts[k].received

PartsStep ==
    \/ parts' = parts
    \/ \E part \in PartType : Len(parts) < MaxPart /\ parts' = Append(parts, part)
    \/ \E k \in DOMAIN parts, part \in PartType : Stamped(k, part)

LEMMA UpdateIsStamp ==
    ASSUME ArrivalsInv, NEW k \in DOMAIN parts, NEW status \in PART_STATUSES, NEW at \in 0..MaxDay,
           parts' = [parts EXCEPT ![k] = WithPartStatus(@, status, at)]
    PROVE  PartsStep
<1> DEFINE new == WithPartStatus(parts[k], status, at)
<1>1. parts[k] \in PartType /\ parts \in Seq(PartType)
  BY DEF ArrivalsInv
<1>2. new \in PartType /\ (parts[k].received # 0 => new.received = parts[k].received)
  BY <1>1, PartStatusTyped
<1>3. parts' = [parts EXCEPT ![k] = new]
  BY <1>1
<1> QED
  BY <1>2, <1>3 DEF PartsStep, Stamped

LEMMA StepsOnParts ==
    ASSUME FloorTypes, ArrivalsInv, [ServiceNext]_serviceVars
    PROVE  PartsStep
<1>0. today \in 0..MaxDay /\ today \in Nat /\ 0 \in 0..MaxDay
  BY FloorAssumption DEF FloorTypes
<1>1. CASE UNCHANGED parts
  BY <1>1 DEF PartsStep
<1>2. CASE \E l \in Line : requestPart(l)
  <2>1. PICK l \in Line : requestPart(l)
    BY <1>2
  <2> DEFINE new == [line |-> l, status |-> "requested", received |-> 0, created |-> today]
  <2>2. new \in PartType
    BY <1>0 DEF PartType, PART_STATUSES
  <2>3. Len(parts) < MaxPart /\ parts' = Append(parts, new)
    BY <2>1 DEF requestPart
  <2> QED
    BY <2>2, <2>3 DEF PartsStep
<1>3. CASE \E k \in DOMAIN parts, status \in PART_STATUSES : updatePartLine(k, status)
  BY <1>0, <1>3, UpdateIsStamp DEF updatePartLine
<1>4. CASE \E k \in DOMAIN parts : commitPartUpdate(k)
  <2>1. PICK k \in DOMAIN parts : commitPartUpdate(k)
    BY <1>4
  <2>2. k \in 1..MaxPart /\ arriving[k] # NoUpdate
    BY <2>1, FloorAssumption DEF ArrivalsInv, commitPartUpdate
  <2>3. arriving[k].status \in PART_STATUSES /\ arriving[k] \in UpdateType
    BY <2>2 DEF ArrivalsInv
  <2>4. arriving[k].at \in 0..MaxDay
    BY <2>3 DEF UpdateType
  <2> QED
    BY <2>1, <2>3, <2>4, UpdateIsStamp DEF commitPartUpdate
<1>5. CASE \E k \in DOMAIN parts, status \in PART_STATUSES : beginPartUpdate(k, status)
  BY <1>1, <1>5 DEF beginPartUpdate, allVars, floorVars
<1>6. PartsNext => \/ \E l \in Line : requestPart(l)
                   \/ \E k \in DOMAIN parts, status \in PART_STATUSES : updatePartLine(k, status)
                   \/ UNCHANGED parts
  BY DEF PartsNext, createSubletJob, updateSubletJob, createWarrantyClaim, nextDay
<1> QED
  BY <1>1, <1>2, <1>3, <1>4, <1>5, <1>6, Families, BoardAndQuotesFrame, InspectionFrame, ComebackFrame,
     MetricsFrame DEF PartUpdate, serviceVars, allVars, floorVars

LEMMA PartsKept ==
    ASSUME ArrivalsInv, PartsStep
    PROVE  /\ parts' \in Seq(PartType) /\ Len(parts') \in Len(parts)..MaxPart
           /\ \A k \in 1..Len(parts) : parts[k].received # 0 => parts'[k].received = parts[k].received
<1>0. parts \in Seq(PartType) /\ Len(parts) \in 0..MaxPart /\ MaxPart \in Nat
  BY FloorAssumption DEF ArrivalsInv
<1>1. CASE parts' = parts
  BY <1>0, <1>1
<1>2. CASE \E part \in PartType : Len(parts) < MaxPart /\ parts' = Append(parts, part)
  BY <1>0, <1>2
<1>3. CASE \E k \in DOMAIN parts, part \in PartType : Stamped(k, part)
  <2>1. PICK k \in DOMAIN parts, part \in PartType : Stamped(k, part)
    BY <1>3
  <2>2. parts' \in Seq(PartType) /\ Len(parts') = Len(parts)
    BY <1>0, <2>1 DEF Stamped
  <2>3. \A m \in 1..Len(parts) : parts'[m] = IF m = k THEN part ELSE parts[m]
    BY <1>0, <2>1 DEF Stamped
  <2> QED
    BY <1>0, <2>1, <2>2, <2>3 DEF Stamped
<1> QED
  BY <1>1, <1>2, <1>3 DEF PartsStep

LEMMA ArrivingStep ==
    ASSUME FloorTypes, ArrivalsInv, [ServiceNext]_serviceVars
    PROVE  /\ arriving' \in [1..MaxPart -> UpdateType]
           /\ \A k \in 1..MaxPart : arriving'[k] # NoUpdate => arriving'[k].status \in PART_STATUSES
<1>0. /\ today \in 0..MaxDay /\ 0 \in 0..MaxDay /\ NoUpdate \in UpdateType
      /\ arriving \in [1..MaxPart -> UpdateType] /\ MaxPart \in Nat
      /\ \A k \in 1..MaxPart : arriving[k] # NoUpdate => arriving[k].status \in PART_STATUSES
      /\ DOMAIN parts \subseteq 1..MaxPart
  <2>1. today \in 0..MaxDay /\ 0 \in 0..MaxDay /\ MaxPart \in Nat
    BY FloorAssumption DEF FloorTypes
  <2>2. NoUpdate \in UpdateType
    BY <2>1 DEF NoUpdate, UpdateType
  <2> QED
    BY <2>1, <2>2 DEF ArrivalsInv
<1>1. CASE UNCHANGED arriving
  BY <1>0, <1>1
<1>2. CASE \E k \in DOMAIN parts : commitPartUpdate(k)
  BY <1>0, <1>2 DEF commitPartUpdate
<1>3. CASE \E k \in DOMAIN parts, status \in PART_STATUSES : beginPartUpdate(k, status)
  <2>1. PICK k \in DOMAIN parts, status \in PART_STATUSES : beginPartUpdate(k, status)
    BY <1>3
  <2> DEFINE new == [status |-> status, at |-> today]
  <2>2. new \in UpdateType /\ new.status = status
    BY <1>0 DEF UpdateType
  <2>3. arriving' = [arriving EXCEPT ![k] = new]
    BY <2>1 DEF beginPartUpdate
  <2> HIDE DEF new
  <2> QED
    BY <1>0, <2>2, <2>3
<1> QED
  BY <1>1, <1>2, <1>3, Families, MetricsFrame DEF PartUpdate, metricsVars, serviceVars

\* A Date is not after the instant it was made from.
LEMMA DateIsEarlier ==
    ASSUME NEW t \in Nat
    PROVE  Date(t) \in 0..t
BY MetricsAssumption DEF Date

\* The mark is the largest Date read, so whatever was observed stays marked.
LEMMA ObservedStep ==
    ASSUME FloorTypes, ArrivalsInv, [ServiceNext]_serviceVars
    PROVE  /\ highWater' \in 0..MaxDay
           /\ observed' \in [1..MaxPart -> Nat]
           /\ \A k \in 1..MaxPart : observed'[k] > 0 => Marked(k)'
<1> DEFINE Goal == /\ highWater' \in 0..MaxDay
                   /\ observed' \in [1..MaxPart -> Nat]
                   /\ \A k \in 1..MaxPart : observed'[k] > 0 => Marked(k)'
<1>0. /\ highWater \in 0..MaxDay /\ MaxDay \in Nat /\ MaxPart \in Nat
      /\ observed \in [1..MaxPart -> Nat]
      /\ \A k \in 1..MaxPart : observed[k] > 0 => Marked(k)
      /\ parts \in Seq(PartType) /\ Len(parts) \in 0..MaxPart
  BY FloorAssumption DEF ArrivalsInv
<1>1. PartsStep
  BY StepsOnParts
<1>2. CASE UNCHANGED <<highWater, observed>>
  <2>1. /\ Len(parts') \in Len(parts)..MaxPart
        /\ \A k \in 1..Len(parts) : parts[k].received # 0 => parts'[k].received = parts[k].received
    BY <1>1, PartsKept
  <2>2. ASSUME NEW k \in 1..MaxPart, Marked(k)
        PROVE  Marked(k)'
    BY <1>0, <1>2, <2>1, <2>2 DEF Marked
  <2> QED
    BY <1>0, <1>2, <2>2
<1>3. CASE readGroup("arrivals")
  <2>1. /\ parts' = parts
        /\ observed' = [k \in DOMAIN observed |-> IF k \in NewArrivals THEN observed[k] + 1 ELSE observed[k]]
        /\ highWater' = Mark
    BY <1>3 DEF readGroup, allVars, floorVars
  <2>2. ASSUME NEW k \in NewArrivals
        PROVE  /\ k \in 1..Len(parts) /\ parts[k].received # 0
               /\ Date(parts[k].received) \in 0..MaxDay
    <3>1. k \in 1..Len(parts) /\ parts[k].received # 0
      BY <1>0 DEF NewArrivals
    <3>2. parts[k].received \in 0..MaxDay
      <4>1. parts[k] \in PartType
        BY <1>0, <3>1
      <4> QED
        BY <4>1 DEF PartType
    <3>3. Date(parts[k].received) \in 0..parts[k].received
      BY <3>2, DateIsEarlier
    <3> QED
      BY <1>0, <3>1, <3>2, <3>3
  <2> DEFINE M == {Date(parts[k].received) : k \in NewArrivals} \cup {highWater}
  <2>3. M \subseteq 0..MaxDay /\ M # {}
    BY <1>0, <2>2
  <2>4. \E m \in M : \A n \in M : n <= m
    <3> HIDE DEF M
    <3> QED
      BY <1>0, <2>3, LastDay
  <2>5. highWater' \in M /\ \A n \in M : n <= highWater'
    <3>1. highWater' = CHOOSE m \in M : \A n \in M : n <= m
      BY <2>1 DEF Mark
    <3> HIDE DEF M
    <3> QED
      BY <2>4, <3>1
  <2>6. highWater' \in 0..MaxDay /\ highWater <= highWater'
    BY <2>3, <2>5
  <2>7. observed' \in [1..MaxPart -> Nat]
    BY <1>0, <2>1
  <2>8. ASSUME NEW k \in 1..MaxPart, observed'[k] > 0
        PROVE  Marked(k)'
    <3>1. CASE k \in NewArrivals
      <4>1. Date(parts[k].received) <= highWater'
        BY <2>5, <3>1
      <4> QED
        BY <2>1, <2>2, <3>1, <4>1 DEF Marked
    <3>2. CASE k \notin NewArrivals
      <4>1. observed[k] > 0
        BY <1>0, <2>1, <2>8, <3>2
      <4>2. k \in 1..Len(parts) /\ parts[k].received # 0 /\ Date(parts[k].received) <= highWater
        BY <1>0, <4>1 DEF Marked
      <4>3. Date(parts[k].received) \in Nat
        <5>1. parts[k] \in PartType
          BY <1>0, <4>2
        <5>2. parts[k].received \in Nat
          BY <1>0, <5>1 DEF PartType
        <5> QED
          BY <5>2, DateIsEarlier
      <4>4. Date(parts[k].received) <= highWater'
        BY <1>0, <2>6, <4>2, <4>3
      <4> QED
        BY <2>1, <4>2, <4>4 DEF Marked
    <3> QED
      BY <3>1, <3>2
  <2> QED
    BY <2>6, <2>7, <2>8
<1>4. CASE restart
  <2>1. highWater' = Date(today) /\ observed' = [k \in DOMAIN observed |-> 0] /\ today \in 0..MaxDay
    BY <1>4, FloorAssumption DEF restart, FloorTypes
  <2>2. Date(today) \in 0..MaxDay
    BY <1>0, <2>1, DateIsEarlier
  <2> QED
    BY <1>0, <2>1, <2>2
<1>5. MetricsNext => readGroup("arrivals") \/ restart \/ UNCHANGED <<highWater, observed>>
  BY DEF MetricsNext, tick, publishGroup, failGroup, readGroup
<1> QED
  BY <1>2, <1>3, <1>4, <1>5, Families, PartUpdateFrame DEF metricsVars, serviceVars

LEMMA ArrivalsStep ==
    ASSUME FloorTypes, ArrivalsInv, [ServiceNext]_serviceVars
    PROVE  ArrivalsInv'
<1>1. parts \in Seq(PartType)
  BY DEF ArrivalsInv
<1>2. Len(parts) \in Nat /\ MaxPart \in Nat
  BY <1>1, FloorAssumption
<1>3. PartsStep
  BY StepsOnParts
<1>4. parts' \in Seq(PartType) /\ Len(parts') \in Len(parts)..MaxPart
  BY <1>3, PartsKept
<1> QED
  BY <1>2, <1>4, ArrivingStep, ObservedStep DEF ArrivalsInv

--------------------------------------------------------------------------------
(* The shares the pass publishes *)

LEMMA PartIsLess ==
    ASSUME NEW n \in Nat, NEW all, all \subseteq 1..n, NEW some, some \subseteq all
    PROVE  Share(some, all)[1] <= Share(some, all)[2]
<1>1. IsFiniteSet(all)
  BY PlacesFinite
<1>2. some \in SUBSET all
  OBVIOUS
<1>3. Cardinality(some) <= Cardinality(all)
  BY <1>1, <1>2, FS_Subset
<1> QED
  BY <1>3 DEF Share

\* What the queries behind a rate return is a share, whatever they see.
LEMMA QueriesReadShares ==
    ASSUME FloorTypes, ArrivalsInv
    PROVE  IsShares(Backorder) /\ IsShares(Sla) /\ IsShares(Presented)
<1>1. IsShares(Backorder)
  <2>1. Len(parts) \in Nat /\ DOMAIN parts = 1..Len(parts)
    BY DEF ArrivalsInv
  <2>2. ASSUME NEW loc \in Location
        PROVE  Backorder[loc][1] <= Backorder[loc][2]
    <3>1. PartsAt(loc) \subseteq 1..Len(parts)
      BY <2>1 DEF PartsAt
    <3> DEFINE some == {k \in PartsAt(loc) : parts[k].status = "backordered"}
    <3>2. Backorder[loc] = Share(some, PartsAt(loc))
      BY DEF Backorder
    <3>3. some \subseteq PartsAt(loc)
      OBVIOUS
    <3> HIDE DEF some
    <3> QED
      BY <2>1, <3>1, <3>2, <3>3, PartIsLess
  <2>3. DOMAIN Backorder = Location
    BY DEF Backorder
  <2> QED
    BY <2>2, <2>3 DEF IsShares
<1>2. IsShares(Sla)
  <2>1. Len(board) \in Nat /\ DOMAIN board = 1..Len(board)
    BY DEF FloorTypes
  <2>2. ASSUME NEW x \in Location \X QUEUE_TYPES
        PROVE  Sla[x][1] <= Sla[x][2]
    <3> DEFINE all == {n \in At(x[1], x[2]) : board[n].due # 0 /\ Recent(board[n].created)}
               some == {n \in all : Breached(n)}
    <3>1. Sla[x] = Share(some, all)
      BY DEF Sla
    <3>2. all \subseteq 1..Len(board)
      BY <2>1 DEF At
    <3>3. some \subseteq all
      OBVIOUS
    <3> HIDE DEF all, some
    <3> QED
      BY <2>1, <3>1, <3>2, <3>3, PartIsLess
  <2>3. DOMAIN Sla = Location \X QUEUE_TYPES
    BY DEF Sla
  <2> QED
    BY <2>2, <2>3 DEF IsShares
<1>3. IsShares(Presented)
  <2>1. Len(recommendations) \in Nat /\ DOMAIN recommendations = 1..Len(recommendations)
    BY DEF FloorTypes
  <2>2. ASSUME NEW x \in Location \X QUEUE_PRIORITIES
        PROVE  Presented[x][1] <= Presented[x][2]
    <3> DEFINE all == {k \in DOMAIN recommendations :
                        /\ LocationOf[recommendations[k].ro] = x[1] /\ recommendations[k].priority = x[2]
                        /\ Recent(recommendations[k].created)
                        /\ recommendations[k].status \in {"sent_to_customer", "accepted", "declined", "expired"}}
               some == {k \in all : recommendations[k].status = "accepted"}
    <3>1. Presented[x] = Share(some, all)
      BY DEF Presented
    <3>2. all \subseteq 1..Len(recommendations)
      BY <2>1
    <3>3. some \subseteq all
      OBVIOUS
    <3> HIDE DEF all, some
    <3> QED
      BY <2>1, <3>1, <3>2, <3>3, PartIsLess
  <2>3. DOMAIN Presented = Location \X QUEUE_PRIORITIES
    BY DEF Presented
  <2> QED
    BY <2>2, <2>3 DEF IsShares
<1> QED
  BY <1>1, <1>2, <1>3

LEMMA RatioOfShares ==
    ASSUME NEW s, NEW rows
    PROVE  \A x \in ratio(s, rows) : x.series = s /\ (IsShares(rows) => x.n <= x.d)
BY DEF ratio, IsShares

\* A group is published from what it read.
LEMMA PublishedShares ==
    ASSUME NEW g, NEW read,
           \A q \in QueriesOf(g) : read[q] # Nobody,
           \A q \in {"backorder", "sla", "presented"} : read[q] # Nobody => IsShares(read[q])
    PROVE  \A x \in Published(g, read) : x.series \in {"backorder", "sla", "conversion"} => x.n <= x.d
<1>1. CASE g = "parts"
  <2>1. IsShares(read["backorder"])
    BY <1>1 DEF QueriesOf
  <2> QED
    BY <1>1, <2>1, RatioOfShares DEF Published
<1>2. CASE g = "quality"
  <2> DEFINE rows == [loc \in Location |-> <<read["comebacks"][loc], read["closings"][loc]>>]
  <2>1. Published(g, read) = ratio("qc", read["qc"]) \cup ratio("comeback", rows)
    BY <1>2 DEF Published
  <2> HIDE DEF rows
  <2> QED
    BY <2>1, RatioOfShares
<1>3. CASE g = "queues"
  <2>1. IsShares(read["sla"])
    BY <1>3 DEF QueriesOf
  <2> DEFINE depths == {[series |-> "depth", label |-> x, n |-> read["depth"][x], d |-> 1] :
                            x \in {y \in DOMAIN read["depth"] : read["depth"][y] # 0}}
  <2>2. Published(g, read) = ratio("sla", read["sla"]) \cup depths
    BY <1>3 DEF Published
  <2>3. \A x \in depths : x.series = "depth"
    OBVIOUS
  <2> HIDE DEF depths
  <2> QED
    BY <2>1, <2>2, <2>3, RatioOfShares
<1>4. CASE g = "conversion"
  <2>1. IsShares(read["presented"])
    BY <1>4 DEF QueriesOf
  <2> QED
    BY <1>4, <2>1, RatioOfShares DEF Published
<1>5. CASE g \notin {"parts", "quality", "queues", "conversion"}
  BY <1>5 DEF Published
<1> QED
  BY <1>1, <1>2, <1>3, <1>4, <1>5

\* A pass that starts, or moves to the next group, has read nothing.
LEMMA NothingRead ==
    ASSUME NEW i, pass' = [NoPass EXCEPT !.group = i]
    PROVE  /\ \E S : pass' \in [group : S, read : [Query -> S]]
           /\ \A q \in Query : pass'.read[q] = Nobody
<1>1. pass' = [group |-> i, read |-> NoRead]
  BY DEF NoPass
<1> DEFINE S == {i, Nobody}
<1>2. NoRead \in [Query -> S] /\ i \in S
  BY DEF NoRead
<1>3. \A q \in Query : NoRead[q] = Nobody
  BY DEF NoRead
<1> HIDE DEF S
<1>4. pass' \in [group : S, read : [Query -> S]]
  <2>1. ASSUME NEW x \in S, NEW f \in [Query -> S] PROVE [group |-> x, read |-> f] \in [group : S, read : [Query -> S]]
    OBVIOUS
  <2>2. [group |-> i, read |-> NoRead] \in [group : S, read : [Query -> S]]
    BY <1>2, <2>1, Zenon
  <2> QED
    BY <1>1, <2>2, Zenon
<1>5. pass'.read = NoRead
  BY <1>1
<1> QED
  BY <1>3, <1>4, <1>5

LEMMA GaugesStep ==
    ASSUME FloorTypes, ArrivalsInv, GaugesInv, [ServiceNext]_serviceVars
    PROVE  GaugesInv'
<1> DEFINE PassOK == /\ \E S : pass' \in [group : S, read : [Query -> S]]
                     /\ \A q \in {"backorder", "sla", "presented"} : pass'.read[q] # Nobody => IsShares(pass'.read[q])
<1>0. {"backorder", "sla", "presented"} \subseteq Query
  BY DEF Query
<1>1. CASE UNCHANGED <<gauges, pass>>
  BY <1>1 DEF GaugesInv, SharesPublished, IsShares
<1>2. ASSUME UNCHANGED gauges, PassOK
      PROVE  GaugesInv'
  BY <1>2 DEF GaugesInv, SharesPublished, IsShares
<1>3. ASSUME NEW i, pass' = [NoPass EXCEPT !.group = i]
      PROVE  PassOK
  BY <1>0, <1>3, NothingRead
<1>4. CASE tick \/ failGroup
  <2>1. UNCHANGED gauges
    BY <1>4 DEF tick, failGroup
  <2>2. \E i : pass' = [NoPass EXCEPT !.group = i]
    BY <1>4 DEF tick, failGroup, NextGroup
  <2> QED
    BY <1>2, <1>3, <2>1, <2>2
<1>5. CASE publishGroup
  <2> DEFINE g == GROUPS[pass.group]
  <2>1. /\ \A q \in QueriesOf(g) : pass.read[q] # Nobody
        /\ gauges' = [gauges EXCEPT ![g] = Published(g, pass.read)]
    BY <1>5 DEF publishGroup
  <2>2. PassOK
    <3>1. \E i : pass' = [NoPass EXCEPT !.group = i]
      BY <1>5 DEF publishGroup, NextGroup
    <3> QED
      BY <1>3, <3>1
  <2> HIDE DEF g
  <2>3. \A x \in Published(g, pass.read) : x.series \in {"backorder", "sla", "conversion"} => x.n <= x.d
    BY <2>1, PublishedShares DEF GaugesInv
  <2>4. ASSUME NEW h \in DOMAIN gauges'
        PROVE  SharesPublished(h)'
    <3>1. h \in DOMAIN gauges /\ gauges'[h] = IF h = g THEN Published(g, pass.read) ELSE gauges[h]
      BY <2>1
    <3> QED
      BY <2>3, <3>1 DEF GaugesInv, SharesPublished
  <2> QED
    BY <2>2, <2>4 DEF GaugesInv, IsShares
<1>6. CASE restart
  <2>1. gauges' = [h \in DOMAIN gauges |-> {}] /\ pass' = NoPass
    BY <1>6 DEF restart
  <2>2. pass' = [NoPass EXCEPT !.group = 0]
    BY <2>1 DEF NoPass
  <2>3. PassOK
    BY <1>3, <2>2
  <2>4. \A h \in DOMAIN gauges' : SharesPublished(h)'
    BY <2>1 DEF SharesPublished
  <2> QED
    BY <2>3, <2>4 DEF GaugesInv, IsShares
<1>7. ASSUME NEW q \in Query, readGroup(q)
      PROVE  GaugesInv'
  <2>1. pass' = [pass EXCEPT !.read[q] = Rows(q)] /\ UNCHANGED gauges
    BY <1>7 DEF readGroup
  <2>2. PICK S : pass \in [group : S, read : [Query -> S]]
    BY DEF GaugesInv
  <2> DEFINE T == S \cup {Rows(q)}
  <2>3. pass' \in [group : T, read : [Query -> T]]
    BY <2>1, <2>2
  <2>4. \A x \in Query : pass'.read[x] = IF x = q THEN Rows(q) ELSE pass.read[x]
    BY <2>1, <2>2
  <2>5. q \in {"backorder", "sla", "presented"} => IsShares(Rows(q))
    BY QueriesReadShares DEF Rows
  <2>6. \A x \in {"backorder", "sla", "presented"} : pass'.read[x] # Nobody => IsShares(pass'.read[x])
    <3> SUFFICES ASSUME NEW x \in {"backorder", "sla", "presented"}, pass'.read[x] # Nobody
                 PROVE  IsShares(pass'.read[x])
      OBVIOUS
    <3>1. CASE x = q
      BY <1>0, <2>4, <2>5, <3>1
    <3>2. CASE x # q
      BY <1>0, <2>4, <3>2 DEF GaugesInv
    <3> QED
      BY <3>1, <3>2
  <2> HIDE DEF T
  <2> QED
    BY <1>2, <2>1, <2>3, <2>6
<1>8. MetricsNext => tick \/ failGroup \/ publishGroup \/ restart \/ \E q \in Query : readGroup(q)
  BY DEF MetricsNext
<1> QED
  BY <1>1, <1>4, <1>5, <1>6, <1>7, <1>8, Families, PartUpdateFrame DEF metricsVars, serviceVars

--------------------------------------------------------------------------------
(* The theorems of the floor *)

\* Repair orders that were checked in have their row, and only they.
LEMMA InitialBoard ==
    ASSUME ServiceInit
    PROVE  board \in Seq(RowType) /\ RowsAreCounted
<1> DEFINE C == {x \in RO : ro[x] = "checked_in"}
           row(r) == createServiceQueueItem(r, "waiting_checkin")
           S == {row(r) : r \in C}
           g == [r \in C |-> row(r)]
<1>1. /\ ro \in [RO -> {"draft", "checked_in"}] /\ board = SetToSeq(S)
      /\ queue = [r \in RO |-> [q \in QUEUE_TYPES |-> IF q \in RO_STATUS_QUEUE(ro[r]) THEN 1 ELSE 0]]
  BY DEF ServiceInit, Init
<1>2. ASSUME NEW r \in RO
      PROVE  row(r) \in RowType /\ row(r).ro = r /\ row(r).queue = "waiting_checkin" /\ Open(row(r))
  <2>1. "waiting_checkin" \in QUEUE_TYPES /\ today \in Nat
    BY DEF QUEUE_TYPES, ServiceInit
  <2> QED
    BY <2>1, NewRow
<1> HIDE DEF row
<1>3. IsFiniteSet(C)
  BY FloorAssumption, FS_Subset
<1>4. g \in Surjection(C, S)
  BY DEF Surjection
<1>5. IsFiniteSet(S)
  BY <1>3, <1>4, FS_Surjection
<1>6. S \subseteq RowType
  BY <1>2
<1>7. \A y \in S : \E r \in C : y = row(r)
  OBVIOUS
<1>8. \A r \in C : row(r) \in S
  OBVIOUS
<1> HIDE DEF S
<1>9. /\ board \in Seq(S)
      /\ \A i, j \in 1..Len(board) : board[i] = board[j] => i = j
      /\ \A x \in S : \E i \in 1..Len(board) : board[i] = x
  BY <1>1, <1>5, SetToSeqLists
<1>10. board \in Seq(RowType)
  BY <1>6, <1>9
<1>11. ASSUME NEW n \in 1..Len(board) PROVE \E r \in C : board[n] = row(r)
  BY <1>7, <1>9
<1>12. ASSUME NEW r \in RO, NEW q \in QUEUE_TYPES
       PROVE  Cardinality(OpenRows(board, r, q)) = queue[r][q]
  <2>1. OpenRows(board, r, q) = {n \in 1..Len(board) : board[n].ro = r /\ board[n].queue = q /\ Open(board[n])}
    BY <1>10 DEF OpenRows
  <2>2. CASE r \in C /\ q = "waiting_checkin"
    <3>1. PICK k \in 1..Len(board) : board[k] = row(r)
      BY <1>8, <1>9, <2>2
    <3>2. ASSUME NEW n \in 1..Len(board)
          PROVE  board[n].ro = r <=> n = k
      <4>1. PICK x \in C : board[n] = row(x)
        BY <1>11
      <4>2. board[n].ro = x /\ board[k].ro = r
        BY <1>2, <3>1, <4>1
      <4>3. x = r => n = k
        BY <1>9, <3>1, <4>1
      <4> QED
        BY <4>2, <4>3
    <3>3. OpenRows(board, r, q) = {k}
      BY <1>2, <2>1, <2>2, <3>1, <3>2
    <3>4. queue[r][q] = 1
      BY <1>1, <2>2 DEF RO_STATUS_QUEUE
    <3> QED
      BY <3>3, <3>4, FS_Singleton
  <2>3. CASE ~(r \in C /\ q = "waiting_checkin")
    <3>1. OpenRows(board, r, q) = {}
      BY <1>2, <1>11, <2>1, <2>3
    <3>2. queue[r][q] = 0
      BY <1>1, <2>3 DEF RO_STATUS_QUEUE
    <3> QED
      BY <3>1, <3>2, FS_EmptySet
  <2> QED
    BY <2>2, <2>3
<1> QED
  BY <1>10, <1>12 DEF RowsAreCounted

LEMMA ServiceInitInv == ServiceInit => ServiceInv
<1> SUFFICES ASSUME ServiceInit PROVE ServiceInv
  OBVIOUS
<1>1. IInv
  BY InitIInv DEF ServiceInit
<1>2. EstimatesBounded
  <2>1. \A r \in RO : est[r] = <<>> /\ ~Locked(r)
    BY DEF ServiceInit, Init, Locked, NoQuote
  <2> QED
    BY <2>1, BoundAssumption DEF EstimatesBounded
<1>3. FloorTypes
  <2>1. NoRequest \in RequestType /\ today \in 1..MaxDay
    BY FloorAssumption DEF RequestType, ServiceInit
  <2>2. opening \in [Clerk -> RequestType]
    BY <2>1 DEF ServiceInit
  <2> QED
    BY <2>1, <2>2, InitialBoard DEF FloorTypes, ServiceInit
<1>4. FindingsAreRecommendedOnce
  <2>1. ASSUME NEW r \in RO, NEW i \in ItemKey, NEW p \in QUEUE_PRIORITIES
        PROVE  Recommended(r, i, p) = {} /\ Found(r, i, p) = {}
    BY DEF ServiceInit, Recommended, Found
  <2> QED
    BY <2>1, FindingsCounted
<1>5. ArrivalsInv
  <2>1. 0 \in 0..MaxDay /\ highWater \in 0..MaxDay /\ MaxPart \in Nat
    <3>1. PICK t \in 0..today : highWater = Date(t)
      BY DEF ServiceInit
    <3> QED
      BY <3>1, DateIsEarlier, FloorAssumption DEF ServiceInit
  <2>2. NoUpdate \in UpdateType
    BY <2>1 DEF NoUpdate, UpdateType
  <2>3. parts = <<>> /\ arriving = [k \in 1..MaxPart |-> NoUpdate] /\ observed = [k \in 1..MaxPart |-> 0]
    BY DEF ServiceInit
  <2>4. parts \in Seq(PartType) /\ Len(parts) <= MaxPart
    BY <2>1, <2>3
  <2>5. arriving \in [1..MaxPart -> UpdateType] /\ \A k \in 1..MaxPart : arriving[k] = NoUpdate
    BY <2>2, <2>3
  <2>6. observed \in [1..MaxPart -> Nat] /\ \A k \in 1..MaxPart : observed[k] = 0
    BY <2>3
  <2> QED
    BY <2>1, <2>4, <2>5, <2>6 DEF ArrivalsInv
<1>6. GaugesInv
  <2>1. pass = [group |-> 0, read |-> NoRead]
    BY DEF ServiceInit, NoPass
  <2> DEFINE S == {0, Nobody}
  <2>2. NoRead \in [Query -> S] /\ 0 \in S
    BY DEF NoRead
  <2> HIDE DEF S
  <2>3. ASSUME NEW x \in S, NEW f \in [Query -> S] PROVE [group |-> x, read |-> f] \in [group : S, read : [Query -> S]]
    OBVIOUS
  <2>4. [group |-> 0, read |-> NoRead] \in [group : S, read : [Query -> S]]
    BY <2>2, <2>3, Zenon
  <2>5. pass.read = NoRead
    BY <2>1
  <2>6. \A q \in {"backorder", "sla", "presented"} : pass.read[q] = Nobody
    BY <2>5 DEF NoRead, Query
  <2>7. \A g \in DOMAIN gauges : gauges[g] = {}
    BY DEF ServiceInit
  <2> QED
    BY <2>1, <2>4, <2>6, <2>7 DEF GaugesInv, SharesPublished
<1> QED
  BY <1>1, <1>2, <1>3, <1>4, <1>5, <1>6, InitialBoard DEF ServiceInv

LEMMA ServiceStep == ServiceInv /\ [ServiceNext]_serviceVars => ServiceInv' /\ [Next]_vars
<1> SUFFICES ASSUME ServiceInv, [ServiceNext]_serviceVars PROVE ServiceInv' /\ [Next]_vars
  OBVIOUS
<1>1. TypeOK /\ IInv /\ EstimatesBounded /\ FloorTypes /\ RowsAreCounted /\ FindingsAreRecommendedOnce
        /\ ArrivalsInv /\ GaugesInv
  BY DEF ServiceInv, IInv
<1>2. [Next]_vars
  BY <1>1, StepsOfRepairOrders
<1>3. IInv' /\ EstimatesBounded'
  BY <1>1, <1>2, NextIInv, EstimatesStayBounded
<1>4. RowsAreCounted'
  BY <1>1, StepsOnBoard, CountsFollow
<1>5. FloorTypes' /\ FindingsAreRecommendedOnce'
  BY <1>1, FloorTypesStep
<1>6. ArrivalsInv' /\ GaugesInv'
  BY <1>1, ArrivalsStep, GaugesStep
<1> QED
  BY <1>2, <1>3, <1>4, <1>5, <1>6 DEF ServiceInv

\* ServiceInv is an invariant of the floor, and the floor implements module RepairOrder.
THEOREM ServiceInvariant == ServiceSpec => []ServiceInv
<1>1. ServiceInv /\ [ServiceNext]_serviceVars => ServiceInv'
  BY ServiceStep
<1> QED
  BY <1>1, ServiceInitInv, PTL DEF ServiceSpec

\* Whatever inspections, board, parts, comebacks and metrics do, the repair orders behave as
\* module RepairOrder says, so that everything proved of it holds on the floor.
THEOREM FloorImplementsRepairOrder == ServiceSpec => Spec
<1>1. ServiceInit => Init
  BY DEF ServiceInit
<1>2. ServiceInv /\ [ServiceNext]_serviceVars => [Next]_vars
  BY ServiceStep
<1> QED
  BY <1>1, <1>2, ServiceInvariant, PTL DEF ServiceSpec, Spec

\* The rows of the board are the items the repair orders count, one at most and in the queue
\* the status names.
THEOREM BoardAlwaysCounts == ServiceSpec => []BoardCountsTheWork
<1>1. ServiceInv => BoardCountsTheWork
  <2> SUFFICES ASSUME ServiceInv PROVE BoardCountsTheWork
    OBVIOUS
  <2>1. FloorTypes /\ ArrivalsInv /\ RowsAreCounted /\ QueueFollowsStatus
    BY DEF ServiceInv, IInv
  <2>2. FloorTypeOK
    <3>1. ASSUME NEW n \in DOMAIN board
          PROVE  /\ board[n].status \in QUEUE_STATUSES /\ board[n].assigned \in User \cup {Nobody}
                 /\ board[n].queue \in QUEUE_TYPES /\ board[n].priority \in QUEUE_PRIORITIES
      <4>1. board[n] \in RowType
        BY <2>1 DEF FloorTypes
      <4> QED
        BY <4>1 DEF RowType
    <3>2. ASSUME NEW n \in DOMAIN inspections
          PROVE  inspections[n].status \in {"started", "in_progress", "submitted"}
      <4>1. inspections[n] \in InspectionType
        BY <2>1 DEF FloorTypes
      <4> QED
        BY <4>1 DEF InspectionType
    <3>3. ASSUME NEW k \in DOMAIN parts
          PROVE  parts[k].status \in PART_STATUSES /\ parts[k].received \in 0..MaxDay
      <4>1. parts[k] \in PartType
        BY <2>1 DEF ArrivalsInv
      <4> QED
        BY <4>1 DEF PartType
    <3>4. ASSUME NEW k \in DOMAIN tasks PROVE tasks[k].status \in PORTAL_TASK_STATUSES
      <4> DEFINE T == [ro : RO, status : PORTAL_TASK_STATUSES]
      <4>1. tasks \in Seq(T)
        BY <2>1 DEF FloorTypes
      <4> HIDE DEF T
      <4>2. tasks[k] \in T
        BY <4>1
      <4> QED
        BY <4>2 DEF T
    <3>5. ASSUME NEW p \in Clerk PROVE opening[p].held \subseteq RO
      <4>1. opening[p] \in RequestType
        BY <2>1 DEF FloorTypes
      <4> QED
        BY <4>1 DEF RequestType, NoRequest
    <3> QED
      BY <3>1, <3>2, <3>3, <3>4, <3>5 DEF FloorTypeOK
  <2> QED
    BY <2>1, <2>2 DEF BoardCountsTheWork, RowsAreCounted
<1> QED
  BY <1>1, ServiceInvariant, PTL

\* Every finding of a submitted inspection is recommended once, with the priority of its
\* last reading, and nothing else is.
THEOREM FindingsStayRecommendedOnce == ServiceSpec => []FindingsAreRecommendedOnce
<1>1. ServiceInv => FindingsAreRecommendedOnce
  BY DEF ServiceInv
<1> QED
  BY <1>1, ServiceInvariant, PTL

\* The published shares are shares, and the mark has reached the millisecond of every part
\* observed, through failed passes, restarts and updates that commit late.
THEOREM MetricsAlwaysAddUp == ServiceSpec => []MetricsAddUp
<1>1. ServiceInv => MetricsAddUp
  <2> SUFFICES ASSUME ServiceInv PROVE MetricsAddUp
    OBVIOUS
  <2>1. \A g \in DOMAIN gauges : \A x \in gauges[g] :
            x.series \in {"backorder", "sla", "conversion"} => x.n <= x.d
    BY DEF ServiceInv, GaugesInv, SharesPublished
  <2>2. ASSUME NEW k \in DOMAIN observed
        PROVE  observed[k] > 0 => k \in DOMAIN parts /\ parts[k].received # 0 /\ Date(parts[k].received) <= highWater
    <3>1. observed \in [1..MaxPart -> Nat] /\ parts \in Seq(PartType)
      BY DEF ServiceInv, ArrivalsInv
    <3>2. k \in 1..MaxPart /\ DOMAIN parts = 1..Len(parts)
      BY <3>1
    <3> QED
      BY <3>2 DEF ServiceInv, ArrivalsInv, Marked
  <2> QED
    BY <2>1, <2>2 DEF MetricsAddUp
<1> QED
  BY <1>1, ServiceInvariant, PTL

\* No row is reopened, no claimed row is taken from its owner, and no part arrives twice.
THEOREM WhatIsDoneStaysDone == ServiceSpec => DoneStaysDone
<1> DEFINE Kept == /\ \A n \in DOMAIN board :
                        /\ ~Open(board[n]) => ~Open(board'[n])
                        /\ board[n].assigned # Nobody => board'[n].assigned = board[n].assigned
                   /\ \A k \in DOMAIN parts : parts[k].received # 0 => parts'[k].received = parts[k].received
<1>1. ServiceInv /\ [ServiceNext]_serviceVars => [Kept]_allVars
  <2> SUFFICES ASSUME ServiceInv, [ServiceNext]_serviceVars PROVE Kept
    OBVIOUS
  <2>1. TypeOK /\ FloorTypes /\ ArrivalsInv
    BY DEF ServiceInv, IInv
  <2>2. BoardStep /\ PartsStep
    BY <2>1, StepsOnBoard, StepsOnParts
  <2>3. DOMAIN parts = 1..Len(parts)
    BY <2>1 DEF ArrivalsInv
  <2> QED
    BY <2>1, <2>2, <2>3, RowsStayClosed, PartsKept
<1> QED
  BY <1>1, ServiceInvariant, PTL DEF ServiceSpec, DoneStaysDone

================================================================================
