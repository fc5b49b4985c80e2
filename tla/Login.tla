---------------------------------- MODULE Login ----------------------------------
(***************************************************************************)
(* Signing in: the login transaction a browser is sent to the provider     *)
(* with, the callback that claims it and admits the person, the sessions   *)
(* that result, and requests that present a session cookie or a provider's *)
(* own bearer token.                                                       *)
(*                                                                         *)
(* Source: packages/identity-access/src/login-transaction.ts,              *)
(* login-admission.ts, user-link.ts, session.ts (bearer sessions and       *)
(* revalidation), apps/api/src/routes/auth.ts and middleware/auth.ts.      *)
(*                                                                         *)
(* A callback is a process: it claims the transaction, talks to the        *)
(* provider, admits in one transaction of its own, and writes a refusal in *)
(* another; it may stop after any of them.  The sweep of expired           *)
(* transactions, administration and other requests run in between.  A      *)
(* bearer request runs resolve, classify and establish as separate         *)
(* statements.  Ticks count down what is left of a lifetime.               *)
(***************************************************************************)
EXTENDS Access

CONSTANTS
    Identity,       \* what a verified provider answer may name: organization and subject
    Bearer,         \* bearer requests that may run at once
    BearerToken,    \* tokens: the provider session each belongs to, and the identity it names
    LoginTtl, SessionTtl,
    MaxLogin, MaxSession \* bounds

VARIABLES
    logins,        \* login_transactions
    callbacks,     \* the callback of each transaction: where it is
    sessions,      \* identity_sessions
    bearing,       \* bearer requests: where each is
    authenticated  \* sessions whose request passed authentication and awaits its decision

ASSUME LoginAssumption ==
    /\ \A i \in Identity : i.subject \in Subject
    /\ LoginTtl \in Nat /\ SessionTtl \in Nat /\ MaxLogin \in Nat /\ MaxSession \in Nat

loginVars == <<logins, callbacks, sessions, bearing, authenticated>>
OnLogin == UNCHANGED accessVars

LoginTransaction == [status : {"pending", "consuming", "succeeded", "failed"}, left : 0..LoginTtl]

\* A session repeats the identity it was made for; login is the transaction it came from,
\* key the bearer key it stands for.
Session ==
    [link : Link, connection : Connection, login : 0..MaxLogin, key : {Nobody} \cup (BearerToken \X Link \X Connection),
     left : 0..SessionTtl, revoked : BOOLEAN]
Idle == [token |-> Nobody, link |-> Nobody, connection |-> Nobody, at |-> "idle"]

NewSession(l, c, login, key) ==
    [link |-> l, connection |-> c, login |-> login, key |-> key, left |-> SessionTtl, revoked |-> FALSE]

--------------------------------------------------------------------------------
(* The login transaction *)

startLoginTransaction ==
    /\ Len(logins) < MaxLogin
    /\ logins' = Append(logins, [status |-> "pending", left |-> LoginTtl])
    /\ UNCHANGED <<callbacks, sessions, bearing, authenticated>> /\ OnLogin

failLoginTransactionWithin(t) ==
    IF logins[t].status \in {"pending", "consuming"} THEN [logins EXCEPT ![t].status = "failed"] ELSE logins

\* All of the callback's secrets agree and the transaction is in time: this callback goes on.
claimLoginTransaction(t) ==
    /\ logins[t].status = "pending" /\ logins[t].left > 0
    /\ logins' = [logins EXCEPT ![t].status = "consuming"]
    /\ callbacks' = [callbacks EXCEPT ![t] = "claimed"]
    /\ UNCHANGED <<sessions, bearing, authenticated>> /\ OnLogin

\* It is late, or the purpose, state, nonce, verifier or redirect disagrees.  A callback for a
\* transaction that is not pending is refused and changes nothing.
claimRefused(t) ==
    /\ logins[t].status = "pending"
    /\ logins' = failLoginTransactionWithin(t)
    /\ UNCHANGED <<callbacks, sessions, bearing, authenticated>> /\ OnLogin

\* Mutant of expireStaleLoginTransactions: a login that was claimed is not looked for.
expireUnclaimed(t) ==
    /\ logins[t].status = "pending" /\ logins[t].left = 0
    /\ logins' = [logins EXCEPT ![t].status = "failed"]
    /\ UNCHANGED <<callbacks, sessions, bearing, authenticated>> /\ OnLogin

expireStaleLoginTransactions(t) ==
    /\ logins[t].status \in {"pending", "consuming"} /\ logins[t].left = 0
    /\ logins' = [logins EXCEPT ![t].status = "failed"]
    /\ UNCHANGED <<callbacks, sessions, bearing, authenticated>> /\ OnLogin

--------------------------------------------------------------------------------
(* Admission *)

\* The link an identity names at a connection: bound to it, or pending and bound to none.
findUserLinkClaim(i, c) ==
    {l \in Link : /\ links[l].status # "none"
                  /\ links[l].home = connections[c].home /\ links[l].subject = i.subject
                  /\ links[l].connection = c \/ (links[l].status = "pending" /\ links[l].connection = Nobody)}

foreignBoundClaimIds(i, c) ==
    {l \in Link : /\ links[l].status # "none"
                  /\ links[l].home = connections[c].home /\ links[l].subject = i.subject
                  /\ links[l].connection # c}

\* A first sight of the identity leaves a pending link without any role.
observeUserLinkOnLogin(i, c, l) ==
    /\ findUserLinkClaim(i, c) = {} /\ foreignBoundClaimIds(i, c) = {}
    /\ links[l].status = "none"
    /\ links' = [links EXCEPT ![l] = PendingLink(connections[c].home, i.subject)]

EffectiveHierarchy(t) ==
    \E u \in Unit : /\ UnitLevel[u] = "legal_entity" /\ units[u] = "active"
                    /\ units[UnitParent[u]] = "active" /\ UnitParent[UnitParent[u]] = t

admitConnection(i) ==
    {c \in Connection :
        /\ connections[c].status = "active" /\ connections[c].org = i.org
        /\ connections[c].issuer = TrustedIssuer
        /\ connections[c].home # Platform =>
            tenants[connections[c].home] = "active" /\ EffectiveHierarchy(connections[c].home)}

admitUserLink(i, c) == {l \in findUserLinkClaim(i, c) : Activated(l) /\ links[l].connection = c}

\* The provider refuses, the code does not exchange, the token does not verify, or the
\* person is impersonated: the callback ends the transaction.
providerRefuses(t) ==
    /\ callbacks[t] = "claimed"
    /\ callbacks' = [callbacks EXCEPT ![t] = "refused"]
    /\ UNCHANGED <<logins, sessions, bearing, authenticated>> /\ OnLogin

succeedLoginTransactionWithin(t) == logins[t].status = "consuming" /\ logins[t].left > 0

\* Mutant of admitLoginAndEstablishSession: the session is kept although the login was over.
admitAndKeepSession(t, i) ==
    /\ callbacks[t] = "claimed" /\ Len(sessions) < MaxSession
    /\ \E c \in admitConnection(i), l \in Link :
        /\ l \in admitUserLink(i, c)
        /\ sessions' = Append(sessions, NewSession(l, c, t, Nobody))
        /\ IF succeedLoginTransactionWithin(t)
           THEN /\ logins' = [logins EXCEPT ![t].status = "succeeded"]
                /\ callbacks' = [callbacks EXCEPT ![t] = "done"]
           ELSE callbacks' = [callbacks EXCEPT ![t] = "refused"] /\ UNCHANGED logins
    /\ UNCHANGED <<bearing, authenticated>> /\ OnLogin

\* Session and success together, in one transaction; or neither.
admitLoginAndEstablishSession(t, i) ==
    /\ callbacks[t] = "claimed" /\ Len(sessions) < MaxSession
    /\ \E c \in admitConnection(i), l \in Link :
        /\ l \in admitUserLink(i, c)
        /\ IF succeedLoginTransactionWithin(t)
           THEN /\ logins' = [logins EXCEPT ![t].status = "succeeded"]
                /\ sessions' = Append(sessions, NewSession(l, c, t, Nobody))
                /\ callbacks' = [callbacks EXCEPT ![t] = "done"]
           ELSE callbacks' = [callbacks EXCEPT ![t] = "refused"] /\ UNCHANGED <<logins, sessions>>
    /\ UNCHANGED <<bearing, authenticated>> /\ OnLogin

\* The identity is not admitted; what was observed of it is kept.
admissionRefused(t, i) ==
    /\ callbacks[t] = "claimed"
    /\ \A c \in admitConnection(i) : admitUserLink(i, c) = {}
    /\ \/ \E c \in admitConnection(i), l \in Link : observeUserLinkOnLogin(i, c, l)
       \/ (\A c \in admitConnection(i) : findUserLinkClaim(i, c) \cup foreignBoundClaimIds(i, c) # {}) /\ UNCHANGED links
    /\ callbacks' = [callbacks EXCEPT ![t] = "refused"]
    /\ UNCHANGED <<logins, sessions, bearing, authenticated>>
    /\ UNCHANGED <<tenants, units, connections, bindings, grants, requests, support, approving, revoking, deciding, decisions>>

failLoginTransaction(t) ==
    /\ callbacks[t] = "refused"
    /\ logins' = failLoginTransactionWithin(t)
    /\ callbacks' = [callbacks EXCEPT ![t] = "done"]
    /\ UNCHANGED <<sessions, bearing, authenticated>> /\ OnLogin

\* The process stops between two of its steps.
callbackStops(t) ==
    /\ callbacks[t] \in {"claimed", "refused"}
    /\ callbacks' = [callbacks EXCEPT ![t] = "done"]
    /\ UNCHANGED <<logins, sessions, bearing, authenticated>> /\ OnLogin

--------------------------------------------------------------------------------
(* Sessions *)

\* The whole identity behind a session or a token, as it stands now.
IdentityIsEffective(l, c) ==
    /\ Activated(l) /\ links[l].connection = c
    /\ connections[c].status = "active" /\ connections[c].issuer = TrustedIssuer
    /\ links[l].home # Platform => tenants[links[l].home] = "active"

revalidateSessionIdentity(s) ==
    /\ ~sessions[s].revoked /\ sessions[s].left > 0
    /\ IdentityIsEffective(sessions[s].link, sessions[s].connection)

\* The middleware for a cookie: its last statement looks at the whole identity again.
authenticate(s) ==
    /\ sessions[s].key = Nobody /\ revalidateSessionIdentity(s)
    /\ authenticated' = authenticated \cup {s}
    /\ UNCHANGED <<logins, callbacks, sessions, bearing>> /\ OnLogin

\* Signing out, or ending one's other session.
revokeSession(s) ==
    /\ ~sessions[s].revoked
    /\ sessions' = [sessions EXCEPT ![s].revoked = TRUE]
    /\ UNCHANGED <<logins, callbacks, bearing, authenticated>> /\ OnLogin

--------------------------------------------------------------------------------
(* Bearer tokens *)

bearerSessionKey(b) == <<b.token, b.link, b.connection>>
KeyRows(k) == {s \in DOMAIN sessions : sessions[s].key = k}
Resolved(k) == {s \in KeyRows(k) : revalidateSessionIdentity(s)}

\* The middleware's own checks of the token's connection, tenant and link.
presentBearer(p, token, l, c) ==
    /\ bearing[p] = Idle
    /\ c \in {d \in Connection : connections[d].org = token.identity.org}
    /\ links[l].subject = token.identity.subject /\ IdentityIsEffective(l, c)
    /\ bearing' = [bearing EXCEPT ![p] = [token |-> token, link |-> l, connection |-> c, at |-> "resolve"]]
    /\ UNCHANGED <<logins, callbacks, sessions, authenticated>> /\ OnLogin

\* Statement by statement: a live session serves; a row that is not live refuses; no row
\* goes on to establish one, and whoever finds another was faster resolves again.
resolveBearerSession(p) ==
    LET live == Resolved(bearerSessionKey(bearing[p])) IN
    /\ bearing[p].at \in {"resolve", "afterRace"}
    /\ bearing' = [bearing EXCEPT ![p] =
            IF live = {} /\ bearing[p].at = "resolve" THEN [@ EXCEPT !.at = "classify"] ELSE Idle]
    /\ authenticated' = authenticated \cup live
    /\ UNCHANGED <<logins, callbacks, sessions>> /\ OnLogin

classifyMissingBearerSession(p) ==
    /\ bearing[p].at = "classify"
    /\ bearing' = [bearing EXCEPT ![p] =
            IF KeyRows(bearerSessionKey(bearing[p])) = {} THEN [@ EXCEPT !.at = "establish"] ELSE Idle]
    /\ UNCHANGED <<logins, callbacks, sessions, authenticated>> /\ OnLogin

mayEstablish(b) ==
    IdentityIsEffective(b.link, b.connection) /\ KeyRows(bearerSessionKey(b)) = {}

establishBearerSession(p) ==
    LET b == bearing[p] IN
    /\ b.at = "establish" /\ Len(sessions) < MaxSession
    /\ IF mayEstablish(b)
       THEN /\ sessions' = Append(sessions, NewSession(b.link, b.connection, 0, bearerSessionKey(b)))
            /\ authenticated' = authenticated \cup {Len(sessions) + 1}
            /\ bearing' = [bearing EXCEPT ![p] = Idle]
       ELSE /\ bearing' = [bearing EXCEPT ![p].at = "afterRace"]
            /\ UNCHANGED <<sessions, authenticated>>
    /\ UNCHANGED <<logins, callbacks>> /\ OnLogin

\* The policy decision is for the session's own link.
requireAction(s, i) ==
    /\ s \in authenticated /\ i.actor = sessions[s].link
    /\ decide(i)
    /\ authenticated' = authenticated \ {s}
    /\ UNCHANGED <<logins, callbacks, sessions, bearing>>

--------------------------------------------------------------------------------

tickLogin ==
    /\ \/ \E t \in DOMAIN logins : logins[t].left > 0
       \/ \E s \in DOMAIN sessions : sessions[s].left > 0
    /\ logins' = [t \in DOMAIN logins |->
            IF logins[t].left > 0 THEN [logins[t] EXCEPT !.left = @ - 1] ELSE logins[t]]
    /\ sessions' = [s \in DOMAIN sessions |->
            IF sessions[s].left > 0 THEN [sessions[s] EXCEPT !.left = @ - 1] ELSE sessions[s]]
    /\ UNCHANGED <<callbacks, bearing, authenticated>> /\ OnLogin

HasSession == {sessions[s].link : s \in DOMAIN sessions}

CallbackNext ==
    \/ startLoginTransaction
    \/ \E t \in DOMAIN logins :
        \/ claimLoginTransaction(t) \/ claimRefused(t) \/ providerRefuses(t)
        \/ \E i \in Identity : admitLoginAndEstablishSession(t, i) \/ admissionRefused(t, i)
        \/ failLoginTransaction(t) \/ callbackStops(t)
        \/ expireStaleLoginTransactions(t)

SessionNext ==
    \/ \E s \in DOMAIN sessions : authenticate(s) \/ revokeSession(s)
    \/ \E p \in Bearer :
        \/ \E token \in BearerToken, l \in Link, c \in Connection : presentBearer(p, token, l, c)
        \/ resolveBearerSession(p) \/ classifyMissingBearerSession(p) \/ establishBearerSession(p)

LoginTypeOK ==
    /\ logins \in Seq(LoginTransaction) /\ Len(logins) <= MaxLogin
    /\ callbacks \in [1..MaxLogin -> {"none", "claimed", "refused", "done"}]
    /\ sessions \in Seq(Session) /\ Len(sessions) <= MaxSession
    /\ authenticated \subseteq DOMAIN sessions

\* A login that is recorded as succeeded has exactly one session, and no other login has
\* any: the sweep, a second callback and a refusal written late never leave a session
\* whose login failed, or a success without its session (login-admission.ts:
\* admitLoginAndEstablishSession; login-transaction.ts: succeedLoginTransactionWithin,
\* failLoginTransaction, expireStaleLoginTransactions).
LoginAndSessionTogether ==
    \A t \in DOMAIN logins :
        Cardinality({s \in DOMAIN sessions : sessions[s].login = t})
            = IF logins[t].status = "succeeded" THEN 1 ELSE 0

\* A bearer token stands for one session row for good: two first requests at once do not
\* make two, and a token whose session was revoked never gets another one
\* (session.ts: resolveOrEstablishBearerSession).
OneSessionPerBearer ==
    \A r, s \in DOMAIN sessions :
        sessions[r].key # Nobody /\ sessions[r].key = sessions[s].key => r = s

\* Every session has one origin, a login or a bearer token, and no origin has two.
SessionsHaveOneOrigin == LoginAndSessionTogether /\ OneSessionPerBearer

\* Every login ends, one way or the other, though its callback may stop anywhere.
LoginsEnd ==
    \A t \in 1..MaxLogin :
        t \in DOMAIN logins ~> t \in DOMAIN logins /\ logins[t].status \in {"succeeded", "failed"}

\* Time passes and the worker's sweep keeps running.
LoginFairness ==
    /\ WF_<<accessVars, loginVars>>(tickLogin)
    /\ \A t \in 1..MaxLogin : WF_<<accessVars, loginVars>>(t \in DOMAIN logins /\ expireStaleLoginTransactions(t))

================================================================================
