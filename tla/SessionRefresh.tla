----------------------------- MODULE SessionRefresh -----------------------------
(***************************************************************************)
(* Refreshing the provider session behind one cookie session.              *)
(*                                                                         *)
(* Source: packages/identity-access/src/session.ts, its provider adapter,  *)
(* and the request path of apps/api/src/middleware/auth.ts.                *)
(*                                                                         *)
(* A request that finds its session due runs three phases: a claim and a   *)
(* persist, each one transaction on the locked row and one action here,    *)
(* and between them an exchange with the identity provider under no lock   *)
(* and no transaction.  What serialises attempts is a lease that time ends.*)
(*                                                                         *)
(* Refresh tokens are single-use: the provider accepts the last one it     *)
(* issued and no other.  Tokens are numbered in the order they are issued. *)
(* NOW() is the start of a transaction, so a lock wait may hide that a     *)
(* deadline has passed: the parameters gone and leaseOver are what a       *)
(* transaction sees of the session's expiry and of the lease's.            *)
(***************************************************************************)
EXTENDS Naturals

CONSTANTS
    Attempt,   \* requests that maintain the session; each one's lease id is its own
    AuthTime,  \* instants a new token may give as auth_time; the login's is 1
    None

ASSUME SessionAssumption ==
    /\ None \notin Attempt
    /\ None \notin Nat
    /\ AuthTime \subseteq Nat

VARIABLES
    row,      \* the identity_sessions row
    expired,  \* its expires_at has passed
    due,      \* the provider access token is inside the refresh leeway
    lapsed,   \* attempts whose lease deadline has passed
    att,      \* att[a]: how far attempt a is, the token it claimed and the one it got
    sent,     \* exchanges the provider has not handled yet
    latest    \* the refresh token the provider issued last

vars == <<row, expired, due, lapsed, att, sent, latest>>

--------------------------------------------------------------------------------
NoSession == [state |-> "absent", digest |-> None, sealed |-> None, lease |-> None,
              authTime |-> 0]
NoAttempt == [phase |-> "idle", token |-> None, got |-> None, why |-> "none"]

\* How an exchange can end at the provider and at the token verifier.
Verdict == {"good", "untrusted", "denied", "spent"}

Init ==
    /\ row = NoSession
    /\ expired = FALSE /\ due = FALSE
    /\ lapsed = {}
    /\ att = [a \in Attempt |-> NoAttempt]
    /\ sent = {}
    /\ latest = 0

\* The login takes the provider's first refresh token into custody, if it got one.
createSessionWithin(refreshable) ==
    /\ row.state = "absent"
    /\ row' = [NoSession EXCEPT !.state = "live", !.authTime = 1,
                                !.digest = IF refreshable THEN latest ELSE None,
                                !.sealed = IF refreshable THEN latest ELSE None]
    /\ UNCHANGED <<expired, due, lapsed, att, sent, latest>>

--------------------------------------------------------------------------------
(* Revocation *)

\* The one statement that revokes: the credential, its digest and its lease go with it.
Revoked ==
    IF row.state = "live"
    THEN [row EXCEPT !.state = "revoked", !.digest = None, !.sealed = None,
                     !.lease = None]
    ELSE row

\* Logout by cookie or by id, and the sweep over a user link's sessions.
revokeSessions ==
    /\ row.state = "live"
    /\ row' = Revoked
    /\ UNCHANGED <<expired, due, lapsed, att, sent, latest>>

--------------------------------------------------------------------------------
(* One attempt *)

\* The request is answered and forgets what it was told; its token stays on record.
Ends(a, outcome) ==
    att' = [att EXCEPT ![a].phase = outcome, ![a].got = None, ![a].why = "none"]

\* A request resolves the live session and judges it due from its own copy.
maintainProviderSession(a) ==
    /\ att[a].phase = "idle"
    /\ row.state = "live" /\ ~expired
    /\ due /\ row.sealed # None
    /\ Ends(a, "begun")
    /\ UNCHANGED <<row, expired, due, lapsed, sent, latest>>

\* What a transaction may find: no live row, always when it is revoked and perhaps
\* when it has expired.
SeesGone(gone) ==
    /\ row.state # "live" => gone
    /\ gone => row.state # "live" \/ expired

\* An unexpired lease: another attempt is in flight.
InFlight(leaseOver) == row.lease # None /\ ~leaseOver

\* Phase 1.  Nothing to claim, nothing due, in flight, or state that cannot be
\* opened: the request is served on what it has, unless the session is gone.
claimRefreshAttempt(a, readable, gone, leaseOver) ==
    /\ att[a].phase = "begun"
    /\ SeesGone(gone)
    /\ leaseOver => row.lease \in lapsed
    /\ \/ /\ gone
          /\ Ends(a, "ended")
          /\ UNCHANGED <<row, sent>>
       \/ /\ ~gone /\ (~due \/ InFlight(leaseOver) \/ row.sealed = None \/ ~readable)
          /\ Ends(a, "served")
          /\ UNCHANGED <<row, sent>>
       \/ /\ ~gone /\ due /\ ~InFlight(leaseOver) /\ row.sealed # None /\ readable
          /\ row.digest # row.sealed
          /\ row' = Revoked
          /\ Ends(a, "ended")
          /\ UNCHANGED sent
       \/ /\ ~gone /\ due /\ ~InFlight(leaseOver) /\ row.sealed # None /\ readable
          /\ row.digest = row.sealed
          /\ row' = [row EXCEPT !.lease = a]
          /\ att' = [att EXCEPT ![a].phase = "exchanging", ![a].token = row.sealed]
          /\ sent' = sent \cup {a}
    /\ UNCHANGED <<expired, due, lapsed, latest>>

\* The provider handles an exchange: it refuses a token that is not its latest, may
\* deny any (the provider's session is over), or spends the token and issues the
\* next.  Only an attempt that still waits can hear the answer; unheard, a denial
\* is also the exchange that never arrives, lost or aborted on the way.  What is
\* refused, impersonated or cannot be verified (untrusted) ends the session.
refreshSession(a, heard, verdict) ==
    /\ a \in sent
    /\ heard => att[a].phase = "exchanging"
    /\ sent' = sent \ {a}
    /\ verdict = "spent" <=> att[a].token # latest
    /\ latest' = IF verdict \in {"spent", "denied"} THEN latest ELSE latest + 1
    /\ att' = IF ~heard THEN att
              ELSE IF verdict = "good"
              THEN [att EXCEPT ![a].phase = "answered", ![a].got = latest + 1]
              ELSE [att EXCEPT ![a].phase = "refused", ![a].why = verdict]
    /\ UNCHANGED <<row, expired, due, lapsed>>

\* Mutant of withDeadline: only an error ends the wait, so a provider may hang.
withDeadline_ErrorOnly(a) ==
    /\ att[a].phase = "exchanging" /\ a \notin sent
    /\ Ends(a, "silent")
    /\ UNCHANGED <<row, expired, due, lapsed, sent, latest>>

\* The bound elapses, or the exchange fails in a way that is not a refusal.
withDeadline(a) ==
    /\ att[a].phase = "exchanging"
    /\ Ends(a, "silent")
    /\ UNCHANGED <<row, expired, due, lapsed, sent, latest>>

\* Mutant of releaseRefreshLease: keyed on the session only.
releaseRefreshLease_AnyLease(a) ==
    /\ att[a].phase = "silent"
    /\ row' = [row EXCEPT !.lease = None]
    /\ Ends(a, "served")
    /\ UNCHANGED <<expired, due, lapsed, sent, latest>>

\* A transient failure: its own claim is released and the request is served.
releaseRefreshLease(a) ==
    /\ att[a].phase = "silent"
    /\ row' = IF row.lease = a THEN [row EXCEPT !.lease = None] ELSE row
    /\ Ends(a, "served")
    /\ UNCHANGED <<expired, due, lapsed, sent, latest>>

\* A refusal is a fact about the session, whoever's claim is current.
revokeLeasedSession(a) ==
    /\ att[a].phase = "refused"
    /\ row' = Revoked
    /\ Ends(a, "ended")
    /\ UNCHANGED <<expired, due, lapsed, sent, latest>>

\* Mutant of Rotated: the auth_time of the new token replaces the stored one.
Rotated_AnyAuthTime(a, t) ==
    [row EXCEPT !.digest = att[a].got, !.sealed = att[a].got, !.lease = None,
                !.authTime = t]

\* The row a rotation leaves.
Rotated(a, t) ==
    [row EXCEPT !.digest = att[a].got, !.sealed = att[a].got, !.lease = None,
                !.authTime = IF t > @ THEN t ELSE @]

\* The conditional UPDATE's predicate.
rotateRefreshStateRow(a) == row.digest = att[a].token /\ row.lease = a

\* Phase 3, on the row as it is now.
persistRefreshedState(a, matches, t, gone) ==
    /\ att[a].phase = "answered"
    /\ SeesGone(gone)
    /\ \/ /\ gone
          /\ Ends(a, "ended")
          /\ UNCHANGED <<row, due>>
       \/ /\ ~gone /\ row.lease # a
          /\ row' = Revoked /\ Ends(a, "ended")
          /\ UNCHANGED due
       \/ /\ ~gone /\ row.lease = a /\ ~matches
          /\ row' = Revoked /\ Ends(a, "ended")
          /\ UNCHANGED due
       \/ /\ ~gone /\ row.lease = a /\ matches /\ ~rotateRefreshStateRow(a)
          /\ row' = Revoked /\ Ends(a, "ended")
          /\ UNCHANGED due
       \/ /\ ~gone /\ row.lease = a /\ matches /\ rotateRefreshStateRow(a)
          /\ row' = Rotated(a, t) /\ Ends(a, "refreshed")
          /\ due' = FALSE
    /\ UNCHANGED <<expired, lapsed, sent, latest>>

\* The process dies with the attempt in hand.
AttemptDies(a) ==
    /\ att[a].phase \in {"begun", "exchanging", "answered", "refused", "silent"}
    /\ Ends(a, "dead")
    /\ UNCHANGED <<row, expired, due, lapsed, sent, latest>>

--------------------------------------------------------------------------------
(* Time and the provider *)

LeaseLapses(a) ==
    /\ row.lease = a /\ a \notin lapsed
    /\ lapsed' = lapsed \cup {a}
    /\ UNCHANGED <<row, expired, due, att, sent, latest>>

SessionExpires ==
    /\ row.state # "absent" /\ ~expired
    /\ expired' = TRUE
    /\ UNCHANGED <<row, due, lapsed, att, sent, latest>>

isProviderRefreshDue ==
    /\ row.state # "absent" /\ ~due
    /\ due' = TRUE
    /\ UNCHANGED <<row, expired, lapsed, att, sent, latest>>

--------------------------------------------------------------------------------
Advance(a) ==
    \/ \E readable, gone, leaseOver \in BOOLEAN :
           claimRefreshAttempt(a, readable, gone, leaseOver)
    \/ withDeadline(a)
    \/ releaseRefreshLease(a)
    \/ revokeLeasedSession(a)
    \/ \E matches, gone \in BOOLEAN, t \in AuthTime :
           persistRefreshedState(a, matches, t, gone)

Next ==
    \/ \E refreshable \in BOOLEAN : createSessionWithin(refreshable)
    \/ revokeSessions
    \/ \E a \in Attempt :
           \/ maintainProviderSession(a)
           \/ Advance(a)
           \/ \E heard \in BOOLEAN, verdict \in Verdict :
                  refreshSession(a, heard, verdict)
           \/ AttemptDies(a)
           \/ LeaseLapses(a)
    \/ SessionExpires \/ isProviderRefreshDue

\* A process that lives carries its request on; the deadline timer is its own.  The
\* provider, the network and the clocks are not fair.
Fairness == \A a \in Attempt : WF_vars(Advance(a))

Safety == Init /\ [][Next]_vars
Spec == Safety /\ Fairness

--------------------------------------------------------------------------------
(* Properties *)

InHand == {"exchanging", "answered", "refused", "silent"}
Over == {"served", "refreshed", "ended", "dead"}
Token == Nat \cup {None}

RowType == [state : {"absent", "live", "revoked"}, digest : Token, sealed : Token,
            lease : Attempt \cup {None}, authTime : Nat]
AttType == [phase : {"idle", "begun"} \cup InHand \cup Over, token : Token, got : Token,
            why : {"none"} \cup Verdict]

\* The row, the attempts and the provider keep their shapes.
SessionTypeOK ==
    /\ row \in RowType
    /\ expired \in BOOLEAN /\ due \in BOOLEAN
    /\ lapsed \subseteq Attempt /\ sent \subseteq Attempt
    /\ att \in [Attempt -> AttType]
    /\ latest \in Nat

\* The lease protects the token it was taken for: while an attempt holds the lease
\* the stored digest and sealed state are the token it claimed, so the conditional
\* rotation under the row lock can only succeed.
LeaseGuardsToken ==
    /\ row.digest = row.sealed
    /\ row.lease # None =>
           /\ row.state = "live"
           /\ att[row.lease].token = row.digest
           /\ row.digest # None

\* Single spend: two attempts never both have a claim in time.  An attempt that has
\* not finished and whose lease has not run out is the one the live row names.
ClaimIsExclusive ==
    \A a \in Attempt :
        att[a].phase \in InHand /\ a \notin lapsed /\ row.state = "live" => row.lease = a

\* Custody follows the provider.  A live session holds the token the provider issued
\* last, or the one before it while an attempt that spent it has not been persisted:
\* no sequence of claims, losses, reclaims and rotations leaves it further behind.
CustodyFollowsProvider ==
    row.state = "live" /\ row.digest # None =>
        \/ latest = row.digest
        \/ /\ latest = row.digest + 1
           /\ \E a \in Attempt : /\ att[a].token = row.digest
                                 /\ att[a].phase \notin {"idle", "begun", "refreshed"}
                                 /\ a \notin sent

\* Nothing survives revocation: no sealed token, no digest and no lease, whatever
\* attempt was in flight.
RevokedHoldsNothing ==
    row.state = "revoked" => row.digest = None /\ row.sealed = None /\ row.lease = None

\* A request that was told its session is over was told the truth.
EndedMeansDead ==
    \A a \in Attempt : att[a].phase = "ended" => row.state = "revoked" \/ expired

\* The single-use token is in safe hands: one claim in time, the stored token is the one
\* claimed and at most one behind the provider's, revocation leaves nothing behind, and
\* nobody is told of an end that did not happen.
TokenIsGuarded ==
    /\ LeaseGuardsToken /\ ClaimIsExclusive /\ CustodyFollowsProvider
    /\ RevokedHoldsNothing /\ EndedMeansDead

\* A refresh renews the provider's credential and nothing else: no step brings a
\* revoked session back, rewinds auth_time or goes back to an earlier token.
RefreshOnlyRenews ==
    [][ /\ row.state = "revoked" => row'.state = "revoked"
        /\ row.state = "live" => row'.authTime >= row.authTime
        /\ row.digest # None /\ row'.digest # None => row'.digest >= row.digest ]_vars

\* No request hangs on the provider: every attempt of a living process is answered.
EveryAttemptAnswered ==
    \A a \in Attempt : att[a].phase = "begun" ~> att[a].phase \in Over

\* session.ts says that a transient failure, a provider that does not answer in time
\* included, changes nothing because destroying session state over the network is an
\* outage: then, with every claim in time, no session is revoked because a token that
\* an unheard answer had spent is presented again.
\* Refuted: see the README, section 5.
SilenceNeverRevokes ==
    [][row.state = "live" /\ row'.state = "revoked" /\ lapsed = {} =>
           \A a \in Attempt :
               ~(att[a].phase = "refused" /\ att[a].why = "spent" /\ att'[a].phase = "ended")]_vars
================================================================================
