--------------------------------- MODULE StepUp --------------------------------
(***************************************************************************)
(* Provider-backed reauthentication and the single-use grants it mints.    *)
(*                                                                         *)
(* Source: packages/identity-access/src/reauthentication.ts, the step-up   *)
(* routes of apps/api/src/routes/auth.ts, the expiry job of                *)
(* apps/worker/src/main.ts and the callers that spend a grant.             *)
(*                                                                         *)
(* Every function of reauthentication.ts locks the transaction's row first *)
(* and is one action.  A callback is two steps, claim and completion, with *)
(* the provider's round trip between them; a business request is two,      *)
(* the conditional UPDATE that spends the grant and the COMMIT or ROLLBACK *)
(* of the business transaction it runs in.                                 *)
(*                                                                         *)
(* NOW() is the start of the transaction that calls it, and a row lock may *)
(* be waited for: a transaction may find a row unexpired although its      *)
(* deadline has passed, never the reverse.  That is the parameter "late"   *)
(* of claims and completions, and the field "late" of a request.          *)
(***************************************************************************)
EXTENDS Naturals

CONSTANTS
    Txn,       \* reauthentication transactions, each with at most one grant
    Person,    \* user links, each on one local session
    Op,        \* sensitive operations: an action and the resource it names
    Callback,  \* concurrent callback requests
    Request,   \* business requests that spend a grant
    None

ASSUME NoneAssumption == None \notin Txn \cup Person \cup Op

VARIABLES
    txn,        \* txn[t]: the reauthentication_transactions row
    endings,    \* endings[t]: terminal audit events that record a move of t
    grant,      \* grant[t]: the reauthentication_grants row minted from t
    overdue,    \* started transactions whose expires_at has passed
    lapsed,     \* unspent grants whose expires_at has passed
    leg,        \* leg[c]: the transaction a callback has claimed and is exchanging
    request,    \* request[r]: a business transaction, open or committed
    broken      \* persons whose session, link, connection or tenant no longer holds

stepUpVars == <<txn, endings, grant, overdue, lapsed, leg, request, broken>>

--------------------------------------------------------------------------------
NoTxn == [state |-> "absent", claimed |-> FALSE, person |-> None, op |-> None]
NoRequest == [phase |-> "idle", late |-> {}, txn |-> None, person |-> None, op |-> None]

TERMINAL == {"completed", "failed", "expired"}

Init ==
    /\ txn = [t \in Txn |-> NoTxn]
    /\ endings = [t \in Txn |-> 0]
    /\ grant = [t \in Txn |-> "none"]
    /\ overdue = {}
    /\ lapsed = {}
    /\ leg = [c \in Callback |-> None]
    /\ request = [r \in Request |-> NoRequest]
    /\ broken = {}

--------------------------------------------------------------------------------
(* The transaction row *)

\* The one way into a terminal state: the first terminal fact wins and is the one
\* that writes the terminal event.  A replay attempt's own event is not an ending.
terminateWithin(t, s) ==
    IF txn[t].state = "started"
    THEN /\ txn' = [txn EXCEPT ![t].state = s]
         /\ endings' = [endings EXCEPT ![t] = @ + 1]
         /\ overdue' = overdue \ {t}
    ELSE UNCHANGED <<txn, endings, overdue>>

startReauthentication(t, p, o) ==
    /\ txn[t].state = "absent"
    /\ p \notin broken
    /\ txn' = [txn EXCEPT ![t] =
                   [state |-> "started", claimed |-> FALSE, person |-> p, op |-> o]]
    /\ UNCHANGED <<endings, grant, overdue, lapsed, leg, request, broken>>

Replay(t) == txn[t].claimed \/ txn[t].state # "started"

\* A callback that names a row: purpose, state, PKCE verifier and callback URI are
\* compared (matches), and whatever fails ends the row.
claimReauthentication(c, t, matches, late) ==
    /\ leg[c] = None
    /\ txn[t].state # "absent"
    /\ late => t \in overdue
    /\ \/ /\ Replay(t) \/ late \/ ~matches
          /\ terminateWithin(t, IF ~Replay(t) /\ late THEN "expired" ELSE "failed")
          /\ UNCHANGED leg
       \/ /\ ~Replay(t) /\ ~late /\ matches
          /\ txn' = [txn EXCEPT ![t].claimed = TRUE]
          /\ leg' = [leg EXCEPT ![c] = t]
          /\ UNCHANGED <<endings, overdue>>
    /\ UNCHANGED <<grant, lapsed, request, broken>>

\* Provider error, missing code, failed exchange, impersonation, unverifiable token,
\* identity not admitted: the route ends the transaction and its callback.
failReauthentication(c) ==
    /\ leg[c] # None
    /\ terminateWithin(leg[c], "failed")
    /\ leg' = [leg EXCEPT ![c] = None]
    /\ UNCHANGED <<grant, lapsed, request, broken>>

\* The process dies, or its answer is lost, between claim and completion.
CallbackDies(c) ==
    /\ leg[c] # None
    /\ leg' = [leg EXCEPT ![c] = None]
    /\ UNCHANGED <<txn, endings, grant, overdue, lapsed, request, broken>>

\* The subject, the identity chain as it is now, and the proofs only this round trip
\* and this instant can give: a fresh auth_time, the stored nonce and binding, and a
\* connection whose MFA certification is in force.
Proven(t, p, proofs) == p = txn[t].person /\ p \notin broken /\ proofs

\* The token proved person p.  Ended meanwhile: nothing but a replay event.
completeReauthentication(c, p, proofs, late) ==
    /\ leg[c] # None
    /\ late => leg[c] \in overdue
    /\ \/ /\ txn[leg[c]].state # "started"
          /\ UNCHANGED <<txn, endings, overdue, grant>>
       \/ /\ txn[leg[c]].state = "started"
          /\ ~txn[leg[c]].claimed \/ late \/ ~Proven(leg[c], p, proofs)
          /\ terminateWithin(leg[c],
                 IF txn[leg[c]].claimed /\ late THEN "expired" ELSE "failed")
          /\ UNCHANGED grant
       \/ /\ txn[leg[c]].state = "started"
          /\ txn[leg[c]].claimed /\ ~late /\ Proven(leg[c], p, proofs)
          /\ grant' = [grant EXCEPT ![leg[c]] = "live"]
          /\ terminateWithin(leg[c], "completed")
    /\ leg' = [leg EXCEPT ![c] = None]
    /\ UNCHANGED <<lapsed, request, broken>>

\* Mutant of expireStaleReauthenticationTransactions: claimed rows are passed over.
expireStale_UnclaimedOnly(t) ==
    /\ t \in overdue
    /\ txn[t].state = "started" /\ ~txn[t].claimed
    /\ terminateWithin(t, "expired")
    /\ UNCHANGED <<grant, lapsed, leg, request, broken>>

\* One row of the worker's sweep: claimed and moved in one statement.
expireStaleReauthenticationTransactions(t) ==
    /\ t \in overdue
    /\ txn[t].state = "started"
    /\ terminateWithin(t, "expired")
    /\ UNCHANGED <<grant, lapsed, leg, request, broken>>

--------------------------------------------------------------------------------
(* Spending the grant *)

\* Grants whose row an uncommitted business transaction has updated and so locked.
Held == {request[r].txn : r \in {x \in Request : request[x].phase = "paid"}}

\* Mutant of Spendable: the operation is not part of the predicate.
Spendable_AnyOp(t, p, o) == grant[t] = "live" /\ txn[t].person = p

\* The conditional UPDATE's predicate; grants carry their transaction's person,
\* action and resource, and every one was issued under a certified policy.
Spendable(t, p, o) == grant[t] = "live" /\ txn[t].person = p /\ txn[t].op = o

\* BEGIN of a business transaction: its NOW() is fixed here.
BeginRequest(r) ==
    /\ request[r].phase = "idle"
    /\ request' = [request EXCEPT ![r] = [NoRequest EXCEPT !.phase = "open", !.late = lapsed]]
    /\ UNCHANGED <<txn, endings, grant, overdue, lapsed, leg, broken>>

\* Person p's request to perform o presents the grant of t.  The UPDATE waits for a
\* row another request holds and re-evaluates its predicate when that one ends.
consumeReauthenticationGrant(r, t, p, o) ==
    /\ request[r].phase = "open"
    /\ t \notin Held
    /\ Spendable(t, p, o) /\ t \notin request[r].late
    /\ request' = [request EXCEPT ![r] =
                       [phase |-> "paid", late |-> {}, txn |-> t, person |-> p, op |-> o]]
    /\ UNCHANGED <<txn, endings, grant, overdue, lapsed, leg, broken>>

CommitRequest(r) ==
    /\ request[r].phase = "paid"
    /\ request' = [request EXCEPT ![r].phase = "done"]
    /\ grant' = [grant EXCEPT ![request[r].txn] = "spent"]
    /\ lapsed' = lapsed \ {request[r].txn}
    /\ UNCHANGED <<txn, endings, overdue, leg, broken>>

\* Mutant of RollbackRequest: the spend was committed on another connection.
RollbackRequest_SpendKept(r) ==
    /\ request[r].phase = "paid"
    /\ request' = [request EXCEPT ![r] = NoRequest]
    /\ grant' = [grant EXCEPT ![request[r].txn] = "spent"]
    /\ lapsed' = lapsed \ {request[r].txn}
    /\ UNCHANGED <<txn, endings, overdue, leg, broken>>

\* The grant is refused, or the business action fails after the spend: everything
\* the transaction did is undone.
RollbackRequest(r) ==
    /\ request[r].phase \in {"open", "paid"}
    /\ request' = [request EXCEPT ![r] = NoRequest]
    /\ UNCHANGED <<txn, endings, grant, overdue, lapsed, leg, broken>>

--------------------------------------------------------------------------------
(* What happens around the step-up *)

TransactionFallsDue(t) ==
    /\ txn[t].state = "started" /\ t \notin overdue
    /\ overdue' = overdue \cup {t}
    /\ UNCHANGED <<txn, endings, grant, lapsed, leg, request, broken>>

GrantLapses(t) ==
    /\ grant[t] = "live" /\ t \notin lapsed
    /\ lapsed' = lapsed \cup {t}
    /\ UNCHANGED <<txn, endings, grant, overdue, leg, request, broken>>

\* The session is revoked, the link deactivated, the connection or tenant suspended.
IdentityBreaks(p) ==
    /\ p \notin broken
    /\ broken' = broken \cup {p}
    /\ UNCHANGED <<txn, endings, grant, overdue, lapsed, leg, request>>

--------------------------------------------------------------------------------
Next ==
    \/ \E t \in Txn, p \in Person, o \in Op : startReauthentication(t, p, o)
    \/ \E c \in Callback, t \in Txn, matches, late \in BOOLEAN :
           claimReauthentication(c, t, matches, late)
    \/ \E c \in Callback : failReauthentication(c) \/ CallbackDies(c)
    \/ \E c \in Callback, p \in Person, proofs, late \in BOOLEAN :
           completeReauthentication(c, p, proofs, late)
    \/ \E t \in Txn : expireStaleReauthenticationTransactions(t)
    \/ \E r \in Request : BeginRequest(r) \/ CommitRequest(r) \/ RollbackRequest(r)
    \/ \E r \in Request, t \in Txn, p \in Person, o \in Op :
           consumeReauthenticationGrant(r, t, p, o)
    \/ \E t \in Txn : TransactionFallsDue(t) \/ GrantLapses(t)
    \/ \E p \in Person : IdentityBreaks(p)

\* Time passes, and the worker re-arms its sweep after every pass.  Nothing else is
\* fair: people abandon step-ups, processes die and requests may hang.
StepUpFairness ==
    \A t \in Txn : /\ WF_stepUpVars(TransactionFallsDue(t))
                   /\ WF_stepUpVars(expireStaleReauthenticationTransactions(t))

Safety == Init /\ [][Next]_stepUpVars
Spec == Safety /\ StepUpFairness

--------------------------------------------------------------------------------
(* Properties *)

TxnType == [state : {"absent", "started"} \cup TERMINAL, claimed : BOOLEAN,
            person : Person \cup {None}, op : Op \cup {None}]
RequestType == [phase : {"idle", "open", "paid", "done"}, late : SUBSET Txn,
                txn : Txn \cup {None}, person : Person \cup {None}, op : Op \cup {None}]

\* Every row keeps its shape.
StepUpTypeOK ==
    /\ txn \in [Txn -> TxnType]
    /\ endings \in [Txn -> Nat]
    /\ grant \in [Txn -> {"none", "live", "spent"}]
    /\ overdue \subseteq Txn /\ lapsed \subseteq Txn /\ broken \subseteq Person
    /\ leg \in [Callback -> Txn \cup {None}]
    /\ request \in [Request -> RequestType]

\* A step-up that was started ends once in the audit trail and never twice, however
\* claims, replays, failures, completions and sweeps of it race; nothing else ends.
EndsOnce ==
    \A t \in Txn : endings[t] = IF txn[t].state \in TERMINAL THEN 1 ELSE 0

\* Grants and deeds correspond: a spent grant paid for exactly one committed
\* request, a committed request has spent its grant, and no two requests are paid
\* by one grant.  A rolled-back request leaves its grant as it was.
SpentForOneDeed ==
    /\ \A t \in Txn : grant[t] = "spent" <=>
           \E r \in Request : request[r].phase = "done" /\ request[r].txn = t
    /\ \A q, r \in Request :
           (/\ request[q].phase \in {"paid", "done"}
            /\ request[r].phase \in {"paid", "done"}
            /\ request[q].txn = request[r].txn) => q = r

\* A grant exists only for a step-up that completed, and at most one callback is
\* ever past the claim of a step-up that can still complete.
GrantFollowsClaim ==
    /\ \A t \in Txn : grant[t] # "none" <=> txn[t].state = "completed"
    /\ \A c, d \in Callback : leg[c] = leg[d] /\ leg[c] # None => c = d
    /\ \A c \in Callback : leg[c] # None => txn[leg[c]].claimed

\* A step-up is accounted for: one ending, a grant only for the callback that claimed it,
\* and one committed deed for a spent grant, however callbacks, sweeps and requests race.
GrantsAreEarned == EndsOnce /\ SpentForOneDeed /\ GrantFollowsClaim

\* The permits of the abstract specification: a hold that is not committed is not
\* visible, and failed and expired are the same refusal.
PermitOf(t) ==
    IF txn[t].state = "absent" THEN "none"
    ELSE IF txn[t].state = "started" THEN "asked"
    ELSE IF txn[t].state # "completed" THEN "refused"
    ELSE IF grant[t] = "spent" THEN "used" ELSE "granted"
DeedOf(r) ==
    IF request[r].phase = "done"
    THEN [permit |-> request[r].txn,
          for |-> [person |-> request[r].person, op |-> request[r].op]]
    ELSE [permit |-> None, for |-> [person |-> None, op |-> None]]

Permit == [t \in Txn |-> PermitOf(t)]
Bound == [t \in Txn |-> [person |-> txn[t].person, op |-> txn[t].op]]
Deed == [r \in Request |-> DeedOf(r)]

Promise == INSTANCE OneUseGrant WITH permit <- Permit, bound <- Bound, deed <- Deed

\* Claims, replays, crashes, sweeps, rollbacks and racing spends implement a permit
\* that is decided once and used at most once, for the person and the operation the
\* step-up was started for.
ImplementsOneUseGrant == Promise!Spec

\* No step-up stays in flight for ever: abandoned, replayed, or claimed by a process
\* that died, it ends.
EveryStepUpEnds ==
    \A t \in Txn : txn[t].state = "started" ~> txn[t].state \in TERMINAL
================================================================================
