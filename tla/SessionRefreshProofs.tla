-------------------------- MODULE SessionRefreshProofs --------------------------
(***************************************************************************)
(* The refresh protocol keeps custody of the provider's token for any      *)
(* number of concurrent attempts.                                          *)
(*                                                                         *)
(* The inductive invariant adds TokensKnown: nothing exists before the     *)
(* login, an exchange under way presents a token no newer than the stored  *)
(* one, and an answer in hand is the successor of the token presented.     *)
(* From it: the provider can be at most one token ahead, because only the  *)
(* stored token can be presented, and a rotation closes the gap.           *)
(***************************************************************************)
EXTENDS SessionRefresh, TLAPS

TokensKnown ==
    /\ row.state = "absent" =>
           /\ row.digest = None /\ row.lease = None /\ sent = {}
           /\ \A a \in Attempt : att[a].phase = "idle"
    /\ \A a \in sent :
           /\ att[a].phase \in {"exchanging", "silent", "served", "dead"}
           /\ att[a].token \in Nat
           /\ row.state = "live" /\ row.digest # None => att[a].token <= row.digest
    /\ \A a \in Attempt :
           att[a].phase = "answered" =>
               /\ att[a].token \in Nat
               /\ att[a].got = att[a].token + 1
               /\ att[a].got <= latest

SessionInv ==
    /\ SessionTypeOK
    /\ LeaseGuardsToken
    /\ ClaimIsExclusive
    /\ CustodyFollowsProvider
    /\ RevokedHoldsNothing
    /\ EndedMeansDead
    /\ TokensKnown

USE SessionAssumption DEF InHand, Over, Token, Verdict

\* Before the login nothing is in custody and nothing is in flight.
LEMMA SessionStarts == Init => SessionInv
<1> SUFFICES ASSUME Init PROVE SessionInv
  OBVIOUS
<1>1. NoSession \in RowType /\ NoAttempt \in AttType
  BY DEF NoSession, NoAttempt, RowType, AttType
<1>2. SessionTypeOK
  BY <1>1 DEF Init, SessionTypeOK
<1>3. /\ row.state = "absent" /\ row.digest = None /\ row.sealed = None
      /\ row.lease = None /\ sent = {}
      /\ \A a \in Attempt : att[a].phase = "idle"
  BY DEF Init, NoSession, NoAttempt
<1>4. QED
  BY <1>2, <1>3 DEF SessionInv, LeaseGuardsToken, ClaimIsExclusive,
     CustodyFollowsProvider, RevokedHoldsNothing, EndedMeansDead, TokensKnown

\* The rows the statements leave have the row's type.
LEMMA RevokedRow ==
    ASSUME row \in RowType
    PROVE  /\ Revoked \in RowType
           /\ row.state = "live" =>
                  /\ Revoked.state = "revoked" /\ Revoked.digest = None
                  /\ Revoked.sealed = None /\ Revoked.lease = None
                  /\ Revoked.authTime = row.authTime
           /\ row.state # "live" => Revoked = row
BY DEF Revoked, RowType

\* Ending an attempt touches that attempt only and keeps its token.
LEMMA EndsAttempt ==
    ASSUME att \in [Attempt -> AttType], NEW a \in Attempt,
           NEW o \in {"begun", "silent"} \cup Over, Ends(a, o)
    PROVE  /\ att' \in [Attempt -> AttType]
           /\ att'[a].phase = o /\ att'[a].token = att[a].token
           /\ \A b \in Attempt : b # a => att'[b] = att[b]
<1>1. [att[a] EXCEPT !.phase = o, !.got = None, !.why = "none"] \in AttType
  BY DEF AttType
<1>2. att' = [att EXCEPT ![a] = [att[a] EXCEPT !.phase = o, !.got = None, !.why = "none"]]
  BY DEF Ends, AttType
<1>3. [att[a] EXCEPT !.phase = o, !.got = None, !.why = "none"].phase = o
  BY DEF AttType
<1>4. [att[a] EXCEPT !.phase = o, !.got = None, !.why = "none"].token = att[a].token
  BY DEF AttType
<1>5. QED
  BY <1>1, <1>2, <1>3, <1>4

--------------------------------------------------------------------------------
(* The shapes of a step *)

\* An attempt moves on and neither the row nor the provider does.
Moves(a, o) ==
    /\ Ends(a, o)
    /\ att[a].phase = "idle" <=> o = "begun"
    /\ o = "begun" => row.state = "live"
    /\ o = "silent" => att[a].phase = "exchanging"
    /\ o = "ended" => a \notin sent /\ (row.state = "revoked" \/ expired)
    /\ o # "refreshed"
    /\ UNCHANGED <<row, expired, lapsed, sent, latest>>

\* The row is revoked, and perhaps an attempt that has its answer ends with it.
Kills ==
    /\ row.state = "live"
    /\ row' = Revoked
    /\ \/ UNCHANGED att
       \/ \E a \in Attempt : a \notin sent /\ Ends(a, "ended")
    /\ UNCHANGED <<expired, lapsed, sent, latest>>

\* An attempt takes the lease and presents the stored token.
Claims(a) ==
    /\ row.state = "live" /\ row.sealed # None
    /\ row.lease = None \/ row.lease \in lapsed
    /\ att[a].phase = "begun"
    /\ row' = [row EXCEPT !.lease = a]
    /\ att' = [att EXCEPT ![a].phase = "exchanging", ![a].token = row.sealed]
    /\ sent' = sent \cup {a}
    /\ UNCHANGED <<expired, lapsed, latest>>

\* The attempt that holds the lease stores what it got.
Rotates(a, t) ==
    /\ att[a].phase = "answered"
    /\ row.state = "live" /\ row.lease = a /\ row.digest = att[a].token
    /\ row' = Rotated(a, t) /\ Ends(a, "refreshed")
    /\ UNCHANGED <<expired, lapsed, sent, latest>>

\* Only clocks move.
Ticks ==
    /\ lapsed \subseteq lapsed' /\ lapsed' \subseteq Attempt
    /\ expired' \in BOOLEAN /\ (expired => expired')
    /\ UNCHANGED <<row, att, sent, latest>>

\* A step has one of the shapes above, or is the login, a release or the provider's.
LEMMA StepShapes ==
    ASSUME SessionInv, [Next]_vars
    PROVE  /\ due' \in BOOLEAN
           /\ \/ \E refreshable \in BOOLEAN : createSessionWithin(refreshable)
              \/ \E a \in Attempt, o \in {"begun", "silent"} \cup Over : Moves(a, o)
              \/ Kills
              \/ \E a \in Attempt : Claims(a) \/ releaseRefreshLease(a)
              \/ \E a \in Attempt, t \in AuthTime : Rotates(a, t)
              \/ \E a \in Attempt, heard \in BOOLEAN, verdict \in Verdict :
                     refreshSession(a, heard, verdict)
              \/ Ticks
<1> USE DEF SessionInv, SessionTypeOK, SeesGone
<1>1. CASE UNCHANGED vars
  BY <1>1 DEF vars, Ticks
<1>2. ASSUME NEW refreshable \in BOOLEAN, createSessionWithin(refreshable)
      PROVE  due' \in BOOLEAN
  BY <1>2 DEF createSessionWithin
<1>3. CASE revokeSessions
  BY <1>3 DEF revokeSessions, Kills
<1>4. ASSUME NEW a \in Attempt, maintainProviderSession(a)
      PROVE  due' \in BOOLEAN /\ Moves(a, "begun")
  BY <1>4 DEF maintainProviderSession, Moves
<1>5. ASSUME NEW a \in Attempt, NEW readable \in BOOLEAN, NEW gone \in BOOLEAN,
             NEW leaseOver \in BOOLEAN, claimRefreshAttempt(a, readable, gone, leaseOver)
      PROVE  /\ due' \in BOOLEAN
             /\ Moves(a, "ended") \/ Moves(a, "served") \/ Claims(a)
  <2> USE <1>5 DEF claimRefreshAttempt
  <2>1. a \notin sent /\ row.state # "absent" /\ row.digest = row.sealed
    BY DEF TokensKnown, LeaseGuardsToken
  <2>2. CASE gone
    BY <2>1, <2>2 DEF Moves, RowType
  <2>3. CASE ~gone /\ (~due \/ InFlight(leaseOver) \/ row.sealed = None \/ ~readable)
    BY <2>3 DEF Moves
  <2>4. CASE ~gone /\ due /\ ~InFlight(leaseOver) /\ row.sealed # None /\ readable
    BY <2>1, <2>4 DEF Claims, InFlight
  <2> QED
    BY <2>2, <2>3, <2>4
<1>6. ASSUME NEW a \in Attempt, withDeadline(a)
      PROVE  due' \in BOOLEAN /\ Moves(a, "silent")
  BY <1>6 DEF withDeadline, Moves
<1>7. ASSUME NEW a \in Attempt, releaseRefreshLease(a)
      PROVE  due' \in BOOLEAN
  BY <1>7 DEF releaseRefreshLease
<1>8. ASSUME NEW a \in Attempt, revokeLeasedSession(a)
      PROVE  due' \in BOOLEAN /\ (Kills \/ Moves(a, "ended"))
  <2>1. a \notin sent /\ row.state # "absent"
    BY <1>8 DEF revokeLeasedSession, TokensKnown
  <2>2. CASE row.state = "live"
    BY <1>8, <2>1, <2>2 DEF revokeLeasedSession, Kills
  <2>3. CASE row.state # "live"
    BY <1>8, <2>1, <2>3, RevokedRow DEF revokeLeasedSession, Moves, RowType
  <2> QED
    BY <2>2, <2>3
<1>9. ASSUME NEW a \in Attempt, NEW matches \in BOOLEAN, NEW gone \in BOOLEAN,
             NEW t \in AuthTime, persistRefreshedState(a, matches, t, gone)
      PROVE  due' \in BOOLEAN /\ (Moves(a, "ended") \/ Kills \/ Rotates(a, t))
  <2> USE <1>9 DEF persistRefreshedState
  <2>1. a \notin sent /\ row.state # "absent"
    BY DEF TokensKnown
  <2>2. CASE gone
    BY <2>1, <2>2 DEF Moves, RowType
  <2>3. CASE ~gone /\ row' = Revoked /\ Ends(a, "ended") /\ UNCHANGED due
    BY <2>1, <2>3 DEF Kills
  <2>4. CASE ~gone /\ row.lease = a /\ rotateRefreshStateRow(a) /\ row' = Rotated(a, t)
             /\ Ends(a, "refreshed") /\ due' = FALSE
    BY <2>4 DEF Rotates, rotateRefreshStateRow
  <2> QED
    BY <2>2, <2>3, <2>4
<1>10. ASSUME NEW a \in Attempt, AttemptDies(a)
       PROVE  due' \in BOOLEAN /\ Moves(a, "dead")
  BY <1>10 DEF AttemptDies, Moves
<1>11. ASSUME NEW a \in Attempt, LeaseLapses(a)
       PROVE  due' \in BOOLEAN /\ Ticks
  BY <1>11 DEF LeaseLapses, Ticks
<1>12. CASE SessionExpires \/ isProviderRefreshDue
  BY <1>12 DEF SessionExpires, isProviderRefreshDue, Ticks
<1>13. ASSUME NEW a \in Attempt, NEW heard \in BOOLEAN, NEW verdict \in Verdict,
              refreshSession(a, heard, verdict)
       PROVE  due' \in BOOLEAN
  BY <1>13 DEF refreshSession
<1> QED
  BY <1>1, <1>2, <1>3, <1>4, <1>5, <1>6, <1>7, <1>8, <1>9, <1>10, <1>11, <1>12, <1>13
     DEF Next, Advance

--------------------------------------------------------------------------------
(* Every shape preserves the invariant *)

\* The login stores the provider's latest token, before any attempt exists.
LEMMA LoginKeeps ==
    ASSUME SessionInv, NEW refreshable \in BOOLEAN, createSessionWithin(refreshable),
           due' \in BOOLEAN
    PROVE  SessionInv'
<1> DEFINE tok == IF refreshable THEN latest ELSE None
<1>1. tok \in Token
  BY DEF SessionInv, SessionTypeOK
<1>2. /\ row' \in RowType
      /\ row'.state = "live" /\ row'.digest = tok /\ row'.sealed = tok /\ row'.lease = None
  BY <1>1 DEF createSessionWithin, NoSession, RowType
<1>3. \A a \in Attempt : att'[a].phase = "idle"
  BY DEF createSessionWithin, SessionInv, TokensKnown
<1>4. sent' = {} /\ att' = att /\ latest' = latest /\ lapsed' = lapsed /\ expired' = expired
  BY DEF createSessionWithin, SessionInv, TokensKnown
<1> QED
  BY <1>2, <1>3, <1>4 DEF SessionInv, SessionTypeOK, LeaseGuardsToken, ClaimIsExclusive,
     CustodyFollowsProvider, RevokedHoldsNothing, EndedMeansDead, TokensKnown

\* An attempt that ends, or waits to release, disturbs no claim but its own.
LEMMA MovesKeeps ==
    ASSUME SessionInv, NEW a \in Attempt, NEW o \in {"begun", "silent"} \cup Over,
           Moves(a, o), due' \in BOOLEAN
    PROVE  SessionInv'
<1>1. /\ att' \in [Attempt -> AttType]
      /\ att'[a].phase = o /\ att'[a].token = att[a].token
      /\ \A b \in Attempt : b # a => att'[b] = att[b]
  BY EndsAttempt DEF Moves, SessionInv, SessionTypeOK
<1>2. UNCHANGED <<row, expired, lapsed, sent, latest>>
  BY DEF Moves
<1>3. SessionTypeOK'
  BY <1>1, <1>2 DEF SessionInv, SessionTypeOK
<1>4. LeaseGuardsToken' /\ RevokedHoldsNothing'
  BY <1>1, <1>2 DEF SessionInv, SessionTypeOK, RowType, LeaseGuardsToken, RevokedHoldsNothing
<1>5. ClaimIsExclusive'
  BY <1>1, <1>2 DEF Moves, SessionInv, ClaimIsExclusive
<1>6. CustodyFollowsProvider'
  BY <1>1, <1>2 DEF Moves, SessionInv, CustodyFollowsProvider
<1>7. EndedMeansDead'
  BY <1>1, <1>2 DEF Moves, SessionInv, EndedMeansDead
<1>8. TokensKnown'
  BY <1>1, <1>2 DEF Moves, SessionInv, SessionTypeOK, TokensKnown
<1> QED
  BY <1>3, <1>4, <1>5, <1>6, <1>7, <1>8 DEF SessionInv

\* A revoked row holds nothing to guard, whatever is still in flight.
LEMMA KillsKeeps ==
    ASSUME SessionInv, Kills, due' \in BOOLEAN
    PROVE  SessionInv'
<1>1. /\ row' \in RowType
      /\ row'.state = "revoked" /\ row'.digest = None /\ row'.sealed = None
      /\ row'.lease = None
  BY RevokedRow DEF Kills, SessionInv, SessionTypeOK
<1>2. UNCHANGED <<expired, lapsed, sent, latest>>
  BY DEF Kills
<1>3. /\ att' \in [Attempt -> AttType]
      /\ \A b \in sent : att'[b] = att[b]
      /\ \A b \in Attempt : att'[b].phase = "answered" => att'[b] = att[b]
  <2>1. CASE UNCHANGED att
    BY <2>1 DEF SessionInv, SessionTypeOK
  <2>2. CASE \E a \in Attempt : a \notin sent /\ Ends(a, "ended")
    BY <2>2, EndsAttempt DEF SessionInv, SessionTypeOK
  <2> QED
    BY <2>1, <2>2 DEF Kills
<1> QED
  BY <1>1, <1>2, <1>3 DEF SessionInv, SessionTypeOK, LeaseGuardsToken, ClaimIsExclusive,
     CustodyFollowsProvider, RevokedHoldsNothing, EndedMeansDead, TokensKnown

\* A claim finds the lease free or run out, and binds it to the stored token.
LEMMA ClaimsKeeps ==
    ASSUME SessionInv, NEW a \in Attempt, Claims(a), due' \in BOOLEAN
    PROVE  SessionInv'
<1>1. /\ row' \in RowType /\ row'.lease = a
      /\ row'.state = "live" /\ row'.digest = row.digest /\ row'.sealed = row.sealed
  BY DEF Claims, SessionInv, SessionTypeOK, RowType
<1>2. [att[a] EXCEPT !.phase = "exchanging", !.token = row.sealed] \in AttType
  <2>1. att[a] \in AttType /\ row.sealed \in Token
    BY DEF SessionInv, SessionTypeOK, RowType
  <2> QED
    BY <2>1 DEF AttType
<1>3. /\ att' \in [Attempt -> AttType]
      /\ att'[a].phase = "exchanging" /\ att'[a].token = row.sealed
      /\ \A b \in Attempt : b # a => att'[b] = att[b]
  BY <1>2 DEF Claims, SessionInv, SessionTypeOK, AttType
<1>4. /\ UNCHANGED <<expired, lapsed, latest>> /\ sent' = sent \cup {a}
      /\ row.state = "live" /\ row.sealed # None
      /\ row.lease = None \/ row.lease \in lapsed
      /\ att[a].phase = "begun"
  BY DEF Claims
<1>5. row.sealed \in Nat /\ row.digest = row.sealed
  BY <1>4 DEF SessionInv, SessionTypeOK, RowType, LeaseGuardsToken
<1>6. SessionTypeOK'
  BY <1>1, <1>3, <1>4 DEF SessionInv, SessionTypeOK
<1>7. LeaseGuardsToken' /\ RevokedHoldsNothing'
  BY <1>1, <1>3, <1>4, <1>5 DEF LeaseGuardsToken, RevokedHoldsNothing
<1>8. ClaimIsExclusive'
  BY <1>1, <1>3, <1>4 DEF SessionInv, ClaimIsExclusive
<1>9. CustodyFollowsProvider'
  BY <1>1, <1>3, <1>4 DEF SessionInv, CustodyFollowsProvider
<1>10. EndedMeansDead'
  BY <1>1, <1>3, <1>4 DEF SessionInv, EndedMeansDead
<1>11. TokensKnown'
  BY <1>1, <1>3, <1>4, <1>5 DEF SessionInv, SessionTypeOK, TokensKnown
<1> QED
  BY <1>6, <1>7, <1>8, <1>9, <1>10, <1>11 DEF SessionInv

\* A release gives up the claim of the attempt that ends with it, and no other.
LEMMA ReleaseKeeps ==
    ASSUME SessionInv, NEW a \in Attempt, releaseRefreshLease(a), due' \in BOOLEAN
    PROVE  SessionInv'
<1>1. /\ att' \in [Attempt -> AttType]
      /\ att'[a].phase = "served" /\ att'[a].token = att[a].token
      /\ \A b \in Attempt : b # a => att'[b] = att[b]
  BY EndsAttempt DEF releaseRefreshLease, SessionInv, SessionTypeOK
<1>2. /\ row' \in RowType
      /\ row'.state = row.state /\ row'.digest = row.digest /\ row'.sealed = row.sealed
      /\ row'.lease = IF row.lease = a THEN None ELSE row.lease
  BY DEF releaseRefreshLease, SessionInv, SessionTypeOK, RowType
<1>3. UNCHANGED <<expired, lapsed, sent, latest>> /\ att[a].phase = "silent"
  BY DEF releaseRefreshLease
<1>4. SessionTypeOK'
  BY <1>1, <1>2, <1>3 DEF SessionInv, SessionTypeOK
<1>5. LeaseGuardsToken' /\ RevokedHoldsNothing'
  BY <1>1, <1>2 DEF SessionInv, SessionTypeOK, RowType, LeaseGuardsToken, RevokedHoldsNothing
<1>6. ClaimIsExclusive'
  BY <1>1, <1>2, <1>3 DEF SessionInv, ClaimIsExclusive
<1>7. CustodyFollowsProvider'
  BY <1>1, <1>2, <1>3 DEF SessionInv, CustodyFollowsProvider
<1>8. EndedMeansDead'
  BY <1>1, <1>2, <1>3 DEF SessionInv, EndedMeansDead
<1>9. TokensKnown'
  BY <1>1, <1>2, <1>3 DEF SessionInv, SessionTypeOK, TokensKnown
<1> QED
  BY <1>4, <1>5, <1>6, <1>7, <1>8, <1>9 DEF SessionInv

\* A rotation closes the gap: the answer in hand is the provider's latest token.
LEMMA RotatesKeeps ==
    ASSUME SessionInv, NEW a \in Attempt, NEW t \in AuthTime, Rotates(a, t),
           due' \in BOOLEAN
    PROVE  SessionInv' /\ row'.state = "live" /\ row'.authTime >= row.authTime
           /\ row'.digest >= row.digest
<1>1. /\ att[a].phase = "answered" /\ row.state = "live" /\ row.lease = a
      /\ row.digest = att[a].token /\ UNCHANGED <<expired, lapsed, sent, latest>>
  BY DEF Rotates
<1>2. /\ att' \in [Attempt -> AttType]
      /\ att'[a].phase = "refreshed" /\ att'[a].token = att[a].token
      /\ \A b \in Attempt : b # a => att'[b] = att[b]
  BY EndsAttempt DEF Rotates, SessionInv, SessionTypeOK
<1>3. /\ row.digest \in Nat /\ att[a].got = row.digest + 1 /\ att[a].got \in Nat
      /\ latest \in Nat /\ att[a].got <= latest
  BY <1>1 DEF SessionInv, SessionTypeOK, TokensKnown
<1>4. latest = row.digest + 1
  BY <1>1, <1>3 DEF SessionInv, CustodyFollowsProvider
<1>5. t \in Nat /\ row.authTime \in Nat
  BY DEF SessionInv, SessionTypeOK, RowType
<1>6. /\ row' \in RowType /\ row'.state = "live"
      /\ row'.digest = latest /\ row'.sealed = latest /\ row'.lease = None
      /\ row'.authTime >= row.authTime
  <2>1. row \in RowType /\ att[a].got = latest /\ row' = Rotated(a, t)
    BY <1>3, <1>4 DEF Rotates, SessionInv, SessionTypeOK
  <2>2. row'.authTime = IF t > row.authTime THEN t ELSE row.authTime
    BY <2>1 DEF Rotated, RowType
  <2>3. /\ row'.state = row.state /\ row'.digest = latest /\ row'.sealed = latest
        /\ row'.lease = None
    BY <2>1 DEF Rotated, RowType
  <2>4. row' \in RowType
    BY <1>3, <1>5, <2>1 DEF Rotated, RowType
  <2> QED
    BY <1>1, <1>5, <2>2, <2>3, <2>4
<1>7. SessionTypeOK'
  BY <1>1, <1>2, <1>6 DEF SessionInv, SessionTypeOK
<1>8. LeaseGuardsToken' /\ RevokedHoldsNothing'
  BY <1>6 DEF LeaseGuardsToken, RevokedHoldsNothing
<1>9. ClaimIsExclusive'
  BY <1>1, <1>2 DEF SessionInv, ClaimIsExclusive
<1>10. CustodyFollowsProvider'
  BY <1>1, <1>6 DEF CustodyFollowsProvider
<1>11. EndedMeansDead'
  BY <1>1, <1>2 DEF SessionInv, EndedMeansDead
<1>12. TokensKnown'
  BY <1>1, <1>2, <1>3, <1>4, <1>6 DEF SessionInv, SessionTypeOK, TokensKnown
<1>13. row'.digest >= row.digest
  BY <1>3, <1>4, <1>6
<1> QED
  BY <1>6, <1>7, <1>8, <1>9, <1>10, <1>11, <1>12, <1>13 DEF SessionInv

\* The provider issues a token only for the stored one, to the attempt that holds it.
LEMMA ExchangeKeeps ==
    ASSUME SessionInv, NEW a \in Attempt, NEW heard \in BOOLEAN, NEW verdict \in Verdict,
           refreshSession(a, heard, verdict), due' \in BOOLEAN
    PROVE  SessionInv'
<1>1. /\ a \in sent /\ sent' = sent \ {a} /\ UNCHANGED <<row, expired, lapsed>>
      /\ heard => att[a].phase = "exchanging"
      /\ verdict = "spent" <=> att[a].token # latest
      /\ latest' = IF verdict \in {"spent", "denied"} THEN latest ELSE latest + 1
  BY DEF refreshSession
<1>2. latest \in Nat /\ latest' \in Nat /\ latest <= latest' /\ att[a].token \in Nat
  BY <1>1 DEF SessionInv, SessionTypeOK, TokensKnown
<1>3. /\ [att[a] EXCEPT !.phase = "answered", !.got = latest + 1] \in AttType
      /\ [att[a] EXCEPT !.phase = "refused", !.why = verdict] \in AttType
  <2>1. att[a] \in AttType /\ latest + 1 \in Token
    BY <1>2 DEF SessionInv, SessionTypeOK
  <2> QED
    BY <2>1 DEF AttType
<1>4. /\ att' \in [Attempt -> AttType]
      /\ att'[a].token = att[a].token
      /\ \A b \in Attempt : b # a => att'[b] = att[b]
      /\ \/ att'[a] = att[a]
         \/ /\ att[a].phase = "exchanging"
            /\ \/ att'[a].phase = "refused"
               \/ /\ att'[a].phase = "answered" /\ att'[a].got = latest + 1
                  /\ verdict = "good"
  BY <1>1, <1>3 DEF refreshSession, SessionInv, SessionTypeOK, AttType
<1>5. att'[a].phase \notin {"idle", "begun", "refreshed"}
  BY <1>1, <1>4 DEF SessionInv, TokensKnown
<1>6. SessionTypeOK'
  BY <1>1, <1>2, <1>4 DEF SessionInv, SessionTypeOK
<1>7. LeaseGuardsToken' /\ RevokedHoldsNothing'
  BY <1>1, <1>4 DEF SessionInv, SessionTypeOK, RowType, LeaseGuardsToken, RevokedHoldsNothing
<1>8. ClaimIsExclusive'
  BY <1>1, <1>4 DEF SessionInv, ClaimIsExclusive
<1>9. CustodyFollowsProvider'
  <2> SUFFICES ASSUME row.state = "live", row.digest # None
               PROVE  \/ latest' = row.digest
                      \/ /\ latest' = row.digest + 1
                         /\ \E b \in Attempt :
                                /\ att'[b].token = row.digest
                                /\ att'[b].phase \notin {"idle", "begun", "refreshed"}
                                /\ b \notin sent'
    BY <1>1 DEF CustodyFollowsProvider
  <2>1. row.digest \in Nat /\ att[a].token <= row.digest
    BY <1>1 DEF SessionInv, SessionTypeOK, RowType, TokensKnown
  <2>2. CASE latest' = latest
    BY <2>2, <1>1, <1>4, <1>5 DEF SessionInv, CustodyFollowsProvider
  <2>3. CASE latest' # latest
    <3>1. latest' = latest + 1 /\ att[a].token = latest
      BY <1>1, <2>3
    <3>2. latest = row.digest
      BY <1>2, <2>1, <3>1 DEF SessionInv, CustodyFollowsProvider
    <3>3. att'[a].token = row.digest /\ a \notin sent'
      BY <1>1, <1>4, <3>1, <3>2
    <3> QED
      BY <1>5, <3>1, <3>2, <3>3
  <2> QED
    BY <2>2, <2>3
<1>10. EndedMeansDead'
  BY <1>1, <1>4 DEF SessionInv, EndedMeansDead
<1>11. TokensKnown'
  <2>1. att'[a].phase = "answered" =>
            att'[a].got = att'[a].token + 1 /\ att'[a].got <= latest'
    BY <1>1, <1>2, <1>4 DEF SessionInv, TokensKnown
  <2>2. \A b \in Attempt : b # a /\ att'[b].phase = "answered" =>
            /\ att'[b].token \in Nat
            /\ att'[b].got = att'[b].token + 1
            /\ att'[b].got <= latest'
    BY <1>2, <1>4 DEF SessionInv, TokensKnown
  <2>3. row.state # "absent"
    BY <1>1 DEF SessionInv, TokensKnown
  <2>4. \A b \in sent' : b # a /\ b \in sent /\ b \in Attempt /\ att'[b] = att[b]
    BY <1>1, <1>4 DEF SessionInv, SessionTypeOK
  <2> QED
    BY <1>1, <1>2, <1>4, <2>1, <2>2, <2>3, <2>4 DEF SessionInv, TokensKnown
<1> QED
  BY <1>6, <1>7, <1>8, <1>9, <1>10, <1>11 DEF SessionInv

\* Time takes claims away and never gives one.
LEMMA TicksKeep ==
    ASSUME SessionInv, Ticks, due' \in BOOLEAN
    PROVE  SessionInv'
BY DEF Ticks, SessionInv, SessionTypeOK, LeaseGuardsToken, ClaimIsExclusive,
     CustodyFollowsProvider, RevokedHoldsNothing, EndedMeansDead, TokensKnown

\* Every step preserves the invariant.
LEMMA SessionStep == SessionInv /\ [Next]_vars => SessionInv'
<1> SUFFICES ASSUME SessionInv, [Next]_vars PROVE SessionInv'
  OBVIOUS
<1> QED
  BY StepShapes, LoginKeeps, MovesKeeps, KillsKeeps, ClaimsKeeps, ReleaseKeeps,
     RotatesKeeps, ExchangeKeeps, TicksKeep

\* The invariant holds always.
LEMMA SessionHolds == Safety => []SessionInv
BY SessionStarts, SessionStep, PTL DEF Safety

--------------------------------------------------------------------------------
(* Results *)

\* For any number of attempts, the row, the attempts and the provider stay typed.
THEOREM SessionTypeCorrect == Safety => []SessionTypeOK
<1>1. SessionInv => SessionTypeOK
  BY DEF SessionInv
<1> QED
  BY <1>1, SessionHolds, PTL

\* The lease protects its token, so the conditional rotation in persistRefreshedState
\* never loses and the replay branch of claimRefreshAttempt is never taken.
THEOREM LeasesGuardTokens == Safety => []LeaseGuardsToken
<1>1. SessionInv => LeaseGuardsToken
  BY DEF SessionInv
<1> QED
  BY <1>1, SessionHolds, PTL

\* Single spend: at most one unfinished attempt has a claim in time.
THEOREM ClaimsAreExclusive == Safety => []ClaimIsExclusive
<1>1. SessionInv => ClaimIsExclusive
  BY DEF SessionInv
<1> QED
  BY <1>1, SessionHolds, PTL

\* The stored token is the provider's latest, or one behind it while an answer has
\* not been persisted.
THEOREM CustodyIsCurrent == Safety => []CustodyFollowsProvider
<1>1. SessionInv => CustodyFollowsProvider
  BY DEF SessionInv
<1> QED
  BY <1>1, SessionHolds, PTL

\* Revocation destroys the credential for good, whatever was in flight.
THEOREM RevocationDestroys == Safety => []RevokedHoldsNothing
<1>1. SessionInv => RevokedHoldsNothing
  BY DEF SessionInv
<1> QED
  BY <1>1, SessionHolds, PTL

\* A request is told that its session is over only when it is.
THEOREM EndedIsTrue == Safety => []EndedMeansDead
<1>1. SessionInv => EndedMeansDead
  BY DEF SessionInv
<1> QED
  BY <1>1, SessionHolds, PTL

\* No step revives a revoked session, rewinds auth_time or stores an earlier token.
THEOREM RefreshRenewsOnly == Safety => RefreshOnlyRenews
<1> DEFINE Renews == /\ row.state = "revoked" => row'.state = "revoked"
                     /\ row.state = "live" => row'.authTime >= row.authTime
                     /\ row.digest # None /\ row'.digest # None => row'.digest >= row.digest
<1>1. SessionInv /\ [Next]_vars => [Renews]_vars
  <2> SUFFICES ASSUME SessionInv, [Next]_vars PROVE Renews
    OBVIOUS
  <2>1. row \in RowType /\ row.authTime \in Nat /\ (row.digest # None => row.digest \in Nat)
    BY DEF SessionInv, SessionTypeOK, RowType
  <2>2. ASSUME NEW refreshable \in BOOLEAN, createSessionWithin(refreshable) PROVE Renews
    BY <2>2 DEF createSessionWithin, SessionInv, TokensKnown
  <2>3. ASSUME UNCHANGED row PROVE Renews
    BY <2>1, <2>3
  <2>4. CASE Kills
    BY <2>1, <2>4, RevokedRow DEF Kills
  <2>5. ASSUME NEW a \in Attempt, Claims(a) \/ releaseRefreshLease(a) PROVE Renews
    <3>1. /\ row'.state = row.state /\ row'.authTime = row.authTime
          /\ row'.digest = row.digest
      BY <2>1, <2>5 DEF Claims, releaseRefreshLease, RowType
    <3> QED
      BY <2>1, <3>1
  <2>6. ASSUME NEW a \in Attempt, NEW t \in AuthTime, Rotates(a, t), due' \in BOOLEAN
        PROVE  Renews
    <3>1. row.state = "live"
      BY <2>6 DEF Rotates
    <3> QED
      BY <2>6, <3>1, RotatesKeeps
  <2>7. ASSUME NEW a \in Attempt, NEW o \in {"begun", "silent"} \cup Over, Moves(a, o)
        PROVE  UNCHANGED row
    BY <2>7 DEF Moves
  <2>8. ASSUME NEW a \in Attempt, NEW heard \in BOOLEAN, NEW verdict \in Verdict,
               refreshSession(a, heard, verdict)
        PROVE  UNCHANGED row
    BY <2>8 DEF refreshSession
  <2>9. ASSUME Ticks PROVE UNCHANGED row
    BY <2>9 DEF Ticks
  <2> HIDE DEF Renews
  <2> QED
    BY StepShapes, <2>2, <2>3, <2>4, <2>5, <2>6, <2>7, <2>8, <2>9
<1> QED
  BY <1>1, SessionHolds, PTL DEF Safety, RefreshOnlyRenews

\* Lease, stored token, provider and revocation agree, for every set of attempts.
THEOREM TokenStaysGuarded == Safety => []TokenIsGuarded
  BY LeasesGuardTokens, ClaimsAreExclusive, CustodyIsCurrent, RevocationDestroys,
     EndedIsTrue, PTL DEF TokenIsGuarded

================================================================================
