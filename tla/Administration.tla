----------------------------- MODULE Administration -----------------------------
(***************************************************************************)
(* The administration surface: settings, hours, policies and invitations   *)
(* of a dealership, commands that carry an idempotency key and a step-up   *)
(* token, and the outbox that announces invitations.                       *)
(*                                                                         *)
(* Source: packages/identity-access/src/admin-settings.ts and              *)
(* admin-outbox.ts, and apps/api/src/routes/admin.ts.                      *)
(*                                                                         *)
(* A keyed command looks for its key, works, and inserts the key, all in   *)
(* one transaction; the unique index on the key decides between two that   *)
(* found none, and the loser is rolled back and tried once more.  The      *)
(* dispatcher calls the delivery port inside its transaction, which may    *)
(* fail after the port has answered; the failure is written in a second    *)
(* transaction, and the process may stop before it.                        *)
(***************************************************************************)
EXTENDS Login, TLC

CONSTANTS
    Key,            \* idempotency keys a person uses
    Command,        \* the requests that may carry one
    Clerk,          \* command requests that may run at once
    Email, Policy, PolicyValue,
    MaxVersion, MaxInvitation, MaxFailure \* bounds

VARIABLES
    settings,     \* version of dealership_settings, 0 for no row
    hours,        \* the open days of dealership_business_hours
    policies,     \* dealership_policies
    invitations,  \* staff_invitations, and the admin_outbox event of each
    tokens,       \* step-up tokens not spent yet, by the command they were issued for
    keys,         \* idempotency_keys, by actor and key: the command each stands for, or Nobody
    running,      \* command requests past the search for their key
    ran,          \* the commands that took effect, with their actor and key, in order
    port,         \* what the delivery port was handed, in order
    unwritten,    \* events whose failure is to be written
    failures      \* how many dispatches have failed so far

\* What the routes admit as a command: only the unit, or a link and, for a role, its scope.
ASSUME CommandAssumption ==
    /\ \A c \in Command :
        /\ c.kind = "unit" => c.unit \in Unit
        /\ c.kind \in {"grant", "revoke", "deactivate"} => c.link \in Link
        /\ c.kind = "grant" => c.role \in PLATFORM_ROLES \cup DEALERSHIP_ROLES /\ c.scope \in Scope
    /\ Nobody \notin Command /\ Nobody \notin Key
    /\ MaxVersion \in Nat /\ MaxInvitation \in Nat /\ MaxFailure \in Nat

adminVars == <<settings, hours, policies, invitations, tokens, keys, running, ran, port, unwritten, failures>>
vars == <<accessVars, loginVars, adminVars>>
OnAdmin == UNCHANGED <<accessVars, loginVars>>

StaffInvitation ==
    [email : Email, scope : Tenant \cup Unit, status : {"pending", "revoked"},
     delivered : BOOLEAN, attempts : Nat, wait : Nat]
NoCommand == [actor |-> Nobody, key |-> Nobody, command |-> Nobody]

--------------------------------------------------------------------------------
(* Settings, hours and policies *)

\* A save names the version it was made from; another one is refused.
upsertDealershipSettings(t, expected) ==
    /\ settings[t] = expected /\ expected < MaxVersion
    /\ settings' = [settings EXCEPT ![t] = @ + 1]
    /\ UNCHANGED <<hours, policies, invitations, tokens, keys, running, ran, port, unwritten, failures>> /\ OnAdmin

\* The whole week at once: a day opens before it closes, or is closed and has no times.
validDay(d) == IF d.closed THEN d.open = 0 /\ d.close = 0 ELSE d.open < d.close

replaceBusinessHours(t, days) ==
    /\ \A d \in DOMAIN days : d \in 0..6 /\ validDay(days[d])
    /\ hours[t] # days
    /\ hours' = [hours EXCEPT ![t] = days]
    /\ UNCHANGED <<settings, policies, invitations, tokens, keys, running, ran, port, unwritten, failures>> /\ OnAdmin

setDealershipPolicy(t, key, value) ==
    /\ policies[t][key] # value
    /\ policies' = [policies EXCEPT ![t][key] = value]
    /\ UNCHANGED <<settings, hours, invitations, tokens, keys, running, ran, port, unwritten, failures>> /\ OnAdmin

--------------------------------------------------------------------------------
(* Invitations *)

\* The invitation and its outbox event are written together.
createStaffInvitation(email, s) ==
    /\ Len(invitations) < MaxInvitation
    /\ s \in Unit => units[s] # "none"
    /\ \A n \in DOMAIN invitations : invitations[n].email = email => invitations[n].status # "pending"
    /\ invitations' = Append(invitations,
            [email |-> email, scope |-> s, status |-> "pending", delivered |-> FALSE, attempts |-> 0, wait |-> 0])
    /\ UNCHANGED <<settings, hours, policies, tokens, keys, running, ran, port, unwritten, failures>> /\ OnAdmin

revokeStaffInvitation(n) ==
    /\ invitations[n].status = "pending"
    /\ invitations' = [invitations EXCEPT ![n].status = "revoked"]
    /\ UNCHANGED <<settings, hours, policies, tokens, keys, running, ran, port, unwritten, failures>> /\ OnAdmin

--------------------------------------------------------------------------------
(* The outbox *)

\* Mutant of DueEvents: an event is tried once.
NeverTried == {n \in DOMAIN invitations : ~invitations[n].delivered /\ invitations[n].attempts = 0}

DueEvents == {n \in DOMAIN invitations : ~invitations[n].delivered /\ invitations[n].wait = 0}
OldestDue(n) == n \in DueEvents /\ \A m \in DueEvents : n <= m
OnOutbox == UNCHANGED <<settings, hours, policies, tokens, keys, running, ran>> /\ OnAdmin

dispatchEvent(n) ==
    /\ OldestDue(n)
    /\ port' = Append(port, n)
    /\ invitations' = [invitations EXCEPT ![n].delivered = TRUE, ![n].attempts = @ + 1]
    /\ UNCHANGED <<unwritten, failures>> /\ OnOutbox

\* The port throws, or it answers and the transaction is lost, the ledger row with it.
dispatchFails(n) ==
    /\ OldestDue(n) /\ failures < MaxFailure
    /\ failures' = failures + 1
    /\ port' \in {port, Append(port, n)}
    /\ unwritten' \in {unwritten, unwritten \cup {n}}
    /\ UNCHANGED invitations /\ OnOutbox

backoff(attempts) == IF attempts + 1 < 8 THEN attempts + 1 ELSE 8

\* Another dispatcher may have delivered the event by now: then nothing is written.
recordFailure(n) ==
    /\ n \in unwritten
    /\ unwritten' = unwritten \ {n}
    /\ invitations' = IF invitations[n].delivered THEN invitations
                      ELSE [invitations EXCEPT ![n].attempts = @ + 1, ![n].wait = backoff(invitations[n].attempts)]
    /\ UNCHANGED <<port, failures>> /\ OnOutbox

tickAdmin ==
    /\ \E n \in DOMAIN invitations : invitations[n].wait > 0
    /\ invitations' = [n \in DOMAIN invitations |->
            IF invitations[n].wait > 0 THEN [invitations[n] EXCEPT !.wait = @ - 1] ELSE invitations[n]]
    /\ UNCHANGED <<port, unwritten, failures>> /\ OnOutbox

--------------------------------------------------------------------------------
(* Keyed commands *)

issueStepUp(c) ==
    /\ c \notin tokens /\ c.kind # "unit"
    /\ tokens' = tokens \cup {c}
    /\ UNCHANGED <<settings, hours, policies, invitations, keys, running, ran, port, unwritten, failures>> /\ OnAdmin

spendStepUp(c) == c \in tokens /\ tokens' = tokens \ {c}

\* The key is not known yet: the command goes on.  A known key answers from the row, or
\* refuses another command under it; either changes nothing.
beginCommand(k, actor, key, c) ==
    /\ running[k] = NoCommand /\ keys[<<actor, key>>] = Nobody
    /\ running' = [running EXCEPT ![k] = [actor |-> actor, key |-> key, command |-> c]]
    /\ UNCHANGED <<settings, hours, policies, invitations, tokens, keys, ran, port, unwritten, failures>> /\ OnAdmin

\* The commands: one per route.  Revoking or deactivating what already is changes nothing
\* and succeeds.
tenantHoldsUserLink(actor, l) == links[actor].home \in Tenant /\ links[l].home = links[actor].home /\ requireActor(l)

createUnitCommand(actor, c) ==
    c.kind = "unit" /\ createOrganizationUnit(actor, c.unit, "active") /\ UNCHANGED tokens

grantRoleCommand(actor, c) ==
    /\ c.kind = "grant" /\ tenantHoldsUserLink(actor, c.link) /\ spendStepUp(c)
    /\ grantRole(actor, c.link, c.role, c.scope)

\* The row of a binding that is not active any more is one a command dealt with.
tenantHoldsRoleBinding(actor, b) ==
    /\ tenantHoldsUserLink(actor, b.link)
    /\ b \in bindings \/ \E i \in DOMAIN ran :
        ran[i][2].kind \in {"grant", "revoke"} /\ <<ran[i][2].link, ran[i][2].role, ran[i][2].scope>> = <<b.link, b.role, b.scope>>

revokeRoleCommand(actor, c) ==
    LET b == [link |-> c.link, role |-> c.role, scope |-> c.scope] IN
    /\ c.kind = "revoke" /\ tenantHoldsRoleBinding(actor, b) = TRUE /\ spendStepUp(c)
    /\ IF b \in bindings THEN revokeRole(actor, b) ELSE UNCHANGED accessVars

deactivateCommand(actor, c) ==
    /\ c.kind = "deactivate" /\ c.link # actor /\ tenantHoldsUserLink(actor, c.link) /\ spendStepUp(c)
    /\ IF links[c.link].status = "deactivated" THEN UNCHANGED accessVars ELSE deactivateUserLink(actor, c.link)

commandWork(actor, c) ==
    createUnitCommand(actor, c) \/ grantRoleCommand(actor, c) \/ revokeRoleCommand(actor, c) \/ deactivateCommand(actor, c)

\* Mutant of mayStoreKey: the unique index on the key is not there.
storeAnyKey(actor, key) == TRUE

mayStoreKey(actor, key) == keys[<<actor, key>>] = Nobody

\* Work and key commit together.
runIdempotentAdminCommand(k) ==
    LET actor == running[k].actor key == running[k].key c == running[k].command IN
    /\ running[k] # NoCommand /\ mayStoreKey(actor, key)
    /\ commandWork(actor, c)
    /\ keys' = [keys EXCEPT ![<<actor, key>>] = c]
    /\ ran' = Append(ran, <<<<actor, key>>, c>>)
    /\ running' = [running EXCEPT ![k] = NoCommand]
    /\ UNCHANGED <<settings, hours, policies, invitations, port, unwritten, failures>> /\ UNCHANGED loginVars

\* A request without a key runs as often as it is sent.
runUnkeyedCommand(actor, c) ==
    /\ commandWork(actor, c)
    /\ ran' = Append(ran, <<<<actor, Nobody>>, c>>)
    /\ UNCHANGED <<settings, hours, policies, invitations, keys, running, port, unwritten, failures>> /\ UNCHANGED loginVars

\* The key was taken meanwhile, or the work is refused: all of it is rolled back.
commandRolledBack(k) ==
    /\ running[k] # NoCommand
    /\ running' = [running EXCEPT ![k] = NoCommand]
    /\ UNCHANGED <<settings, hours, policies, invitations, tokens, keys, ran, port, unwritten, failures>> /\ OnAdmin

--------------------------------------------------------------------------------

SettingsNext ==
    \E t \in Tenant :
        \/ \E expected \in 0..MaxVersion : upsertDealershipSettings(t, expected)
        \/ \E open, close \in 0..2, closed \in BOOLEAN :
            replaceBusinessHours(t, 0 :> [open |-> open, close |-> close, closed |-> closed])
        \/ \E key \in Policy, value \in PolicyValue : setDealershipPolicy(t, key, value)

OutboxNext ==
    \/ \E email \in Email, s \in Tenant \cup Unit : createStaffInvitation(email, s)
    \/ \E n \in DOMAIN invitations :
        revokeStaffInvitation(n) \/ dispatchEvent(n) \/ dispatchFails(n) \/ recordFailure(n)
    \/ tickAdmin

CommandNext ==
    \/ \E c \in Command : issueStepUp(c)
    \/ \E k \in Clerk :
        \/ \E actor \in Link, key \in Key, c \in Command : beginCommand(k, actor, key, c)
        \/ runIdempotentAdminCommand(k) \/ commandRolledBack(k)
    \/ \E actor \in Link, c \in Command : runUnkeyedCommand(actor, c)

\* An empty database; the bootstrap of the first administrator is what it can start with.
AdministrationInit ==
    /\ tenants = [t \in Tenant |-> "none"] /\ units = [u \in Unit |-> "none"]
    /\ connections = [c \in Connection |-> NoConnection] /\ links = [l \in Link |-> NoLink] /\ bindings = {}
    /\ grants = {} /\ requests = <<>> /\ support = [r \in 1..MaxRequest |-> NoSupport]
    /\ approving = {} /\ revoking = {} /\ deciding = {} /\ decisions = <<>>
    /\ logins = <<>> /\ callbacks = [t \in 1..MaxLogin |-> "none"] /\ sessions = <<>>
    /\ bearing = [p \in Bearer |-> Idle] /\ authenticated = {}
    /\ settings = [t \in Tenant |-> 0] /\ hours = [t \in Tenant |-> <<>>]
    /\ policies = [t \in Tenant |-> [p \in Policy |-> "unset"]]
    /\ invitations = <<>> /\ tokens = {} /\ keys = [k \in Link \X Key |-> Nobody] /\ running = [k \in Clerk |-> NoCommand]
    /\ ran = <<>> /\ port = <<>> /\ unwritten = {} /\ failures = 0

\* Everything at once: administration, people signing in, commands and the worker.
AdministrationNext ==
    \/ /\ \/ OrganizationNext \/ ConnectionsNext \/ LinksNext(HasSession) \/ RolesNext
          \/ SupportNext \/ PolicyNext \/ tickAccess
       /\ UNCHANGED <<loginVars, adminVars>>
    \/ /\ \/ CallbackNext \/ SessionNext \/ tickLogin
          \/ \E s \in authenticated, i \in PolicyInput : requireAction(s, i)
       /\ UNCHANGED adminVars
    \/ CommandNext \/ SettingsNext \/ OutboxNext

AdministrationSpec == AdministrationInit /\ [][AdministrationNext]_vars

AdministrationTypeOK ==
    /\ AccessTypeOK /\ LoginTypeOK
    /\ settings \in [Tenant -> 0..MaxVersion]
    /\ invitations \in Seq(StaffInvitation) /\ Len(invitations) <= MaxInvitation
    /\ tokens \subseteq Command
    /\ keys \in [Link \X Key -> Command \cup {Nobody}]
    /\ failures \in 0..MaxFailure

\* What the tables hold is well formed, through every mutation and the bootstrap.
AccessIsWellFormed ==
    AdministrationTypeOK /\ RolesMatchTheirScope /\ LinksAreBoundAtHome /\ SupportIsApprovedByTheTenant

\* A command sent twice under one key takes effect once, also when both requests looked for
\* the key before either had stored it, and one key never stands for two commands
\* (admin-settings.ts: runIdempotentAdminCommand).
CommandsRunOnce ==
    \A i, j \in DOMAIN ran : ran[i][1] = ran[j][1] /\ ran[i][1][2] # Nobody => i = j

\* Every invitation is announced in the end, through any number of failed dispatches
\* followed by ones that succeed (admin-outbox.ts: dispatchDueAdminOutboxEvents).
InvitationsAreAnnounced ==
    \A n \in 1..MaxInvitation :
        n \in DOMAIN invitations ~> n \in DOMAIN invitations /\ invitations[n].delivered

\* Time passes and the worker's dispatcher and sweeps keep running.
Fairness ==
    /\ LoginFairness
    /\ WF_vars(tickAdmin)
    /\ \A n \in 1..MaxInvitation : WF_vars(n \in DOMAIN invitations /\ dispatchEvent(n))

================================================================================
