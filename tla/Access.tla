--------------------------------- MODULE Access ---------------------------------
(***************************************************************************)
(* Who may do what: tenants and their organization units, the provider     *)
(* connections and user links that identify a person, role bindings, the   *)
(* policy engine that answers every request, and delegated support access. *)
(*                                                                         *)
(* Source: packages/identity-access/src/mutations.ts, bootstrap.ts,        *)
(* policy.ts, actor.ts and support-access.ts, and                          *)
(* packages/organization/src/repository.ts.                                *)
(*                                                                         *)
(* A mutation is one transaction and one action.  Those that decide on a   *)
(* read which others may overtake are split: approving a request, revoking *)
(* a support session, and a policy decision, whose queries run outside the *)
(* transaction that records it.  The composite foreign keys of migration   *)
(* 057 make a link's binding equal to its connection's organization and    *)
(* issuer, so a binding is the connection alone and the mutations that     *)
(* would break it are refused.                                             *)
(* Audit rows, authorization versions and names are left out; so are the   *)
(* effective windows, which no code writes after the row's creation.       *)
(***************************************************************************)
EXTENDS Naturals, FiniteSets, Sequences

CONSTANTS
    Tenant,
    Platform,       \* the home of what belongs to no tenant, and the scope of its roles
    Unit,           \* dealer groups, legal entities, rooftops and departments
    UnitLevel, UnitParent,
    Resource, ResourceUnit, \* customer resources, and the unit each one belongs to
    Connection, ProviderOrg, Issuer,
    TrustedIssuer,  \* the issuer the deployment is configured with
    Link, Subject,
    Action, Catalog, \* the published actions: plane, allowed roles, whether one names a resource
    TENANT_ADMIN_ROLE,
    Nobody,         \* no link, no connection, no resource, no scope
    Validity,       \* ticks an MFA certification is valid for
    Duration,       \* ticks a support session is granted for
    RequestInput, PolicyInput,
    MaxRequest,     \* bound: support access requests
    MaxDecision     \* bound: policy decisions

VARIABLES
    tenants, units, connections, links,
    bindings,   \* the active role_bindings: link, role and scope
    grants,     \* reauthentication grants for approving a request, not spent yet
    requests,   \* support_access_requests
    support,    \* support_access_sessions, by request: request_id is UNIQUE
    approving,  \* approvals past their checks, holding the request's lock: <<actor, request>>
    revoking,   \* revocations past their authority check: <<actor, request>>
    deciding,   \* policy decisions read and not recorded yet
    decisions   \* policy_decisions, in order

accessVars == <<tenants, units, connections, links, bindings, grants, requests, support, approving, revoking, deciding, decisions>>

OrganizationStatus == {"pending_configuration", "active", "suspended", "archived"}
OrgUnitStatus == {"pending_configuration", "active", "inactive", "archived"}
Home == Tenant \cup {Platform}
Scope == Home \cup Unit \cup Resource

ProviderConnection ==
    [home : Home, org : ProviderOrg, issuer : Issuer, status : {"active", "disabled"},
     certifiedBy : Link \cup {Nobody}, validFor : 0..Validity, revokedBy : Link \cup {Nobody}]
NoConnection ==
    [home |-> Platform, org |-> Nobody, issuer |-> Nobody, status |-> "none",
     certifiedBy |-> Nobody, validFor |-> 0, revokedBy |-> Nobody]

UserLink ==
    [home : Home, subject : Subject, status : {"pending", "activated", "deactivated"},
     connection : Connection \cup {Nobody}]
NoLink == [home |-> Platform, subject |-> Nobody, status |-> "none", connection |-> Nobody]

RoleBinding == [link : Link, role : UNION {Catalog[a].roles : a \in Action}, scope : Scope]

SupportAccessRequest ==
    [tenant : Tenant, requester : Link, actions : SUBSET Action, scope : Tenant \cup Unit,
     status : {"pending", "approved", "denied"}, decidedBy : Link \cup {Nobody}]
SupportAccessSession ==
    [actor : Link \cup {Nobody}, left : 0..Duration, ending : {"none", "running", "revoked", "expired"}]
NoSupport == [actor |-> Nobody, left |-> 0, ending |-> "none"]

\* A unit hangs off a unit of the level above it, a dealer group off its tenant.
UNIT_PARENT == [dealer_group |-> "tenant", legal_entity |-> "dealer_group",
                rooftop |-> "legal_entity", department |-> "rooftop"]
LevelOf(s) == IF s = Platform THEN "platform" ELSE IF s \in Tenant THEN "tenant"
              ELSE IF s \in Unit THEN UnitLevel[s] ELSE "resource"

PLATFORM_ROLES == UNION {Catalog[a].roles : a \in {x \in Action : Catalog[x].plane = "control_plane"}}
DEALERSHIP_ROLES == UNION {Catalog[a].roles : a \in {x \in Action : Catalog[x].plane = "tenant"}}

ASSUME HierarchyAssumption == \A u \in Unit : LevelOf(UnitParent[u]) = UNIT_PARENT[UnitLevel[u]]

\* What createActionCatalog and the load of mutations.ts refuse.
createActionCatalog ==
    /\ \A a \in Action :
        /\ Catalog[a].roles # {} /\ Catalog[a].plane \in {"tenant", "control_plane"}
        /\ Catalog[a].plane = "control_plane" => ~Catalog[a].resource
    /\ PLATFORM_ROLES \cap DEALERSHIP_ROLES = {}
    /\ {"identity.support.approve", "identity.support.revoke", "platform.support.request",
        "identity.connection.certify_mfa_policy", "platform.connection.certify_mfa_policy"} \subseteq Action

ASSUME CatalogAssumption == createActionCatalog

\* What a caller asks the policy engine: an action, on a tenant or on the platform, at a
\* unit or a resource or at neither.
IsPolicyInput(i) ==
    /\ i.actor \in Link /\ i.target \in Home
    /\ i.scopeHint \in Unit \cup {Nobody} /\ i.resource \in Resource \cup {Nobody}

ASSUME PolicyInputAssumption == \A i \in PolicyInput : IsPolicyInput(i)

\* What a request for support access names.
ASSUME RequestInputAssumption ==
    \A i \in RequestInput : i.tenant \in Tenant /\ i.actions \subseteq Action /\ i.scope \in Tenant \cup Unit

\* The platform is no tenant and Nobody is nothing; the first administrator's role is a dealership's.
ASSUME AccessAssumption ==
    /\ Platform \notin Tenant /\ Nobody \notin Connection \cup Link
    /\ TrustedIssuer \in Issuer /\ TENANT_ADMIN_ROLE \in DEALERSHIP_ROLES
    /\ Validity \in Nat /\ Duration \in Nat /\ MaxRequest \in Nat /\ MaxDecision \in Nat

--------------------------------------------------------------------------------
(* Readings *)

requireActor(l) == links[l].status # "none"
Exists(h) == IF h = Platform THEN TRUE ELSE tenants[h] # "none"
Activated(l) == links[l].status = "activated"
BoundTo(c) == {l \in Link : links[l].connection = c}
ActiveConnections(h) == {c \in Connection : connections[c].status = "active" /\ connections[c].home = h}

Up(s) == IF s \in Unit THEN UnitParent[s] ELSE s
Chain(s) == {s, Up(s), Up(Up(s)), Up(Up(Up(s))), Up(Up(Up(Up(s))))}
isEffective(s) == IF s \in Tenant THEN tenants[s] = "active" ELSE units[s] = "active"

\* The chain of a node to its tenant when all of it is effective, nothing otherwise.
resolveAncestry(t, s) ==
    IF t \in Chain(s) /\ \A n \in Chain(s) : isEffective(n) THEN Chain(s) ELSE {}

Holds(l, action) == {b \in bindings : b.link = l /\ b.role \in Catalog[action].roles}
coversTenantWide(b, t) == b.scope = t
coversPlatformAction(b) == b.scope = Platform

mayActTenantWide(action, t, l) ==
    Activated(l) /\ links[l].home = t /\ \E b \in Holds(l, action) : coversTenantWide(b, t)
mayActPlatformWide(action, l) ==
    Activated(l) /\ links[l].home = Platform /\ \E b \in Holds(l, action) : coversPlatformAction(b)
holdsPlatformSupportAuthority(l) == mayActPlatformWide("platform.support.request", l)

--------------------------------------------------------------------------------
(* Tenants and units *)

createOrganization(actor, t, status) ==
    /\ requireActor(actor) /\ tenants[t] = "none"
    /\ tenants' = [tenants EXCEPT ![t] = status]
    /\ UNCHANGED <<units, connections, links, bindings, grants, requests, support, approving, revoking, deciding, decisions>>

changeOrganizationStatus(actor, t, status) ==
    /\ requireActor(actor) /\ tenants[t] \notin {"none", status}
    /\ tenants' = [tenants EXCEPT ![t] = status]
    /\ UNCHANGED <<units, connections, links, bindings, grants, requests, support, approving, revoking, deciding, decisions>>

\* The composite foreign key asks for the parent, in the same tenant.
createOrganizationUnit(actor, u, status) ==
    /\ requireActor(actor) /\ units[u] = "none"
    /\ IF UnitParent[u] \in Unit THEN units[UnitParent[u]] # "none" ELSE tenants[UnitParent[u]] # "none"
    /\ units' = [units EXCEPT ![u] = status]
    /\ UNCHANGED <<tenants, connections, links, bindings, grants, requests, support, approving, revoking, deciding, decisions>>

changeOrganizationUnitStatus(actor, u, status) ==
    /\ requireActor(actor) /\ units[u] \notin {"none", status}
    /\ units' = [units EXCEPT ![u] = status]
    /\ UNCHANGED <<tenants, connections, links, bindings, grants, requests, support, approving, revoking, deciding, decisions>>

--------------------------------------------------------------------------------
(* Provider connections *)

OnConnections == UNCHANGED <<tenants, units, links, bindings, grants, requests, support, approving, revoking, deciding, decisions>>
OrgIsFree(org, c) == \A d \in Connection \ {c} : connections[d].org # org
SoleActive(h, c) == ActiveConnections(h) \subseteq {c}

NewConnection(h, org, issuer) ==
    [NoConnection EXCEPT !.home = h, !.org = org, !.issuer = issuer, !.status = "active"]

createProviderMapping(actor, c, h, org, issuer) ==
    /\ requireActor(actor) /\ connections[c].status = "none" /\ Exists(h)
    /\ OrgIsFree(org, c) /\ SoleActive(h, c)
    /\ connections' = [connections EXCEPT ![c] = NewConnection(h, org, issuer)]
    /\ OnConnections

\* A link bound to the connection pins its organization and its issuer.
remapProviderConnection(actor, c, org, status) ==
    /\ requireActor(actor) /\ connections[c].status # "none"
    /\ org # connections[c].org => BoundTo(c) = {} /\ OrgIsFree(org, c)
    /\ status = "active" => SoleActive(connections[c].home, c)
    /\ connections' = [connections EXCEPT ![c].org = org, ![c].status = status]
    /\ OnConnections

changeProviderIssuer(actor, c, issuer) ==
    /\ requireActor(actor) /\ connections[c].status # "none"
    /\ connections[c].issuer # issuer /\ BoundTo(c) = {}
    /\ connections' = [connections EXCEPT ![c].issuer = issuer]
    /\ OnConnections

requireCertificationAuthority(actor, h) ==
    /\ h # Platform => tenants[h] = "active"
    /\ \/ mayActPlatformWide("platform.connection.certify_mfa_policy", actor)
       \/ h # Platform /\ mayActTenantWide("identity.connection.certify_mfa_policy", h, actor)

\* Certifying clears an earlier revocation; withdrawing a certification here leaves it.
certifyProviderMfaPolicy(actor, c, certified) ==
    /\ connections[c].status # "none" /\ requireCertificationAuthority(actor, connections[c].home)
    /\ connections' = [connections EXCEPT
            ![c].certifiedBy = IF certified THEN actor ELSE Nobody,
            ![c].validFor = IF certified THEN Validity ELSE 0,
            ![c].revokedBy = IF certified THEN Nobody ELSE @]
    /\ OnConnections

revokeProviderMfaPolicyCertification(actor, c) ==
    /\ connections[c].status # "none" /\ requireCertificationAuthority(actor, connections[c].home)
    /\ connections' = [connections EXCEPT ![c].certifiedBy = Nobody, ![c].validFor = 0, ![c].revokedBy = actor]
    /\ OnConnections

--------------------------------------------------------------------------------
(* User links *)

OnLinks == UNCHANGED <<tenants, units, connections, bindings, grants, requests, support, approving, revoking, deciding, decisions>>
IdentityIsFree(h, subject) == \A l \in Link : links[l].status # "none" => <<links[l].home, links[l].subject>> # <<h, subject>>

PendingLink(h, subject) == [NoLink EXCEPT !.home = h, !.subject = subject, !.status = "pending"]

provisionUserLink(actor, l, h, subject) ==
    /\ requireActor(actor) /\ links[l].status = "none" /\ Exists(h) /\ IdentityIsFree(h, subject)
    /\ links' = [links EXCEPT ![l] = PendingLink(h, subject)]
    /\ OnLinks

\* Exactly one active connection of the link's home, which the link is bound to.
activateUserLink(actor, l) ==
    /\ requireActor(actor) /\ links[l].status = "pending"
    /\ \E c \in Connection :
        /\ ActiveConnections(links[l].home) = {c}
        /\ links' = [links EXCEPT ![l].status = "activated", ![l].connection = c]
    /\ OnLinks

deactivateUserLink(actor, l) ==
    /\ requireActor(actor) /\ links[l].status \notin {"none", "deactivated"}
    /\ links' = [links EXCEPT ![l].status = "deactivated"]
    /\ OnLinks

\* A session keeps the identity its link had: the foreign key refuses to move such a link.
relinkUserLink(actor, l, c, hasSession) ==
    /\ requireActor(actor) /\ links[l].status \notin {"none", "deactivated"}
    /\ c \in ActiveConnections(links[l].home) /\ links[l].connection # c
    /\ ~hasSession
    /\ links' = [links EXCEPT ![l].connection = c]
    /\ OnLinks

--------------------------------------------------------------------------------
(* Roles *)

OnBindings == UNCHANGED <<tenants, units, connections, links, grants, requests, support, approving, revoking, deciding, decisions>>

assertRoleScope(role, s) == role \in PLATFORM_ROLES <=> s = Platform

\* The foreign key asks for a link of the scope's own home.
grantRole(actor, l, role, s) ==
    /\ requireActor(actor) /\ links[l].status # "none"
    /\ assertRoleScope(role, s)
    /\ IF s = Platform THEN links[l].home = Platform ELSE links[l].home \in Tenant
    /\ s \in Tenant => s = links[l].home
    /\ [link |-> l, role |-> role, scope |-> s] \notin bindings
    /\ bindings' = bindings \cup {[link |-> l, role |-> role, scope |-> s]}
    /\ OnBindings

\* Mutant of changeRole: the new role's scope is not asserted.
changeRoleAnywhere(actor, b, role) ==
    /\ requireActor(actor) /\ b \in bindings /\ b.role # role
    /\ [b EXCEPT !.role = role] \notin bindings
    /\ bindings' = (bindings \ {b}) \cup {[b EXCEPT !.role = role]}
    /\ OnBindings

\* Checked after the update, whose rollback the failed assertion is.
changeRole(actor, b, role) ==
    /\ requireActor(actor) /\ b \in bindings /\ b.role # role
    /\ assertRoleScope(role, b.scope)
    /\ [b EXCEPT !.role = role] \notin bindings
    /\ bindings' = (bindings \ {b}) \cup {[b EXCEPT !.role = role]}
    /\ OnBindings

revokeRole(actor, b) ==
    /\ requireActor(actor) /\ b \in bindings
    /\ bindings' = bindings \ {b}
    /\ OnBindings

revokeRolesForUserLink(actor, l) ==
    /\ requireActor(actor) /\ \E b \in bindings : b.link = l
    /\ bindings' = {b \in bindings : b.link # l}
    /\ OnBindings

--------------------------------------------------------------------------------
(* Bootstrap of a tenant's first administrator *)

\* The organization is mapped here, at this issuer and active; or nowhere, and the
\* tenant has no other active connection.
ConnectionToUse(t, org, c) ==
    \/ /\ connections[c].org = org /\ connections[c].home = t
       /\ connections[c].issuer = TrustedIssuer /\ connections[c].status = "active"
    \/ connections[c].status = "none" /\ OrgIsFree(org, c) /\ ActiveConnections(t) = {}
planConnection(t, org, c) ==
    IF connections[c].status = "none" THEN NewConnection(t, org, TrustedIssuer) ELSE connections[c]

\* The administrator's link is new, or one that is not deactivated and not bound elsewhere.
LinkToUse(t, subject, c, l) ==
    \/ /\ links[l].home = t /\ links[l].subject = subject
       /\ links[l].status \in {"pending", "activated"} /\ links[l].connection \in {Nobody, c}
    \/ links[l].status = "none" /\ IdentityIsFree(t, subject)
planUserLink(t, subject, c, l) ==
    [home |-> t, subject |-> subject, status |-> "activated", connection |-> c]

planTenant(t) == IF tenants[t] \in {"none", "pending_configuration"} THEN "active" ELSE tenants[t]
planRoleBinding(t, l) == [link |-> l, role |-> TENANT_ADMIN_ROLE, scope |-> t]

bootstrapIdentityOrigin(t, org, subject, c, l) ==
    /\ ConnectionToUse(t, org, c) /\ LinkToUse(t, subject, c, l)
    /\ tenants' = [tenants EXCEPT ![t] = planTenant(t)]
    /\ connections' = [connections EXCEPT ![c] = planConnection(t, org, c)]
    /\ links' = [links EXCEPT ![l] = planUserLink(t, subject, c, l)]
    /\ bindings' = bindings \cup {planRoleBinding(t, l)}
    /\ UNCHANGED <<units, grants, requests, support, approving, revoking, deciding, decisions>>

--------------------------------------------------------------------------------
(* Support access *)

OnSupport == UNCHANGED <<tenants, units, connections, links, bindings, deciding, decisions>>
Unlocked(r) == \A a \in Link : <<a, r>> \notin approving

requestSupportAccess(actor, input) ==
    /\ requireActor(actor) /\ tenants[input.tenant] # "none"
    /\ holdsPlatformSupportAuthority(actor)
    /\ Len(requests) < MaxRequest
    /\ requests' = Append(requests,
            [tenant |-> input.tenant, requester |-> actor, actions |-> input.actions, scope |-> input.scope,
             status |-> "pending", decidedBy |-> Nobody])
    /\ UNCHANGED <<grants, support, approving, revoking>> /\ OnSupport

\* The step-up that issues the grant (module StepUp): for this person and this request.
stepUp(actor, r) ==
    /\ Activated(actor) /\ requests[r].status = "pending"
    /\ grants' = grants \cup {<<actor, r>>}
    /\ UNCHANGED <<requests, support, approving, revoking>> /\ OnSupport

mayDecide(actor, r) ==
    /\ requests[r].status = "pending" /\ Unlocked(r) /\ requests[r].requester # actor
    /\ mayActTenantWide("identity.support.approve", requests[r].tenant, actor)

denySupportAccess(actor, r) ==
    /\ mayDecide(actor, r)
    /\ requests' = [requests EXCEPT ![r].status = "denied", ![r].decidedBy = actor]
    /\ UNCHANGED <<grants, support, approving, revoking>> /\ OnSupport

\* The approval's checks and the spending of its grant, under the request's lock.
beginApproval(actor, r) ==
    /\ mayDecide(actor, r) /\ holdsPlatformSupportAuthority(requests[r].requester)
    /\ <<actor, r>> \in grants
    /\ grants' = grants \ {<<actor, r>>}
    /\ approving' = approving \cup {<<actor, r>>}
    /\ UNCHANGED <<requests, support, revoking>> /\ OnSupport

SupportSession(r) == [actor |-> requests[r].requester, left |-> Duration, ending |-> "running"]

\* No session starts for a requester who has lost the authority by now.
startSupportSessionWithin(r) ==
    IF holdsPlatformSupportAuthority(requests[r].requester)
    THEN [support EXCEPT ![r] = SupportSession(r)] ELSE support

\* The triggers of migrations 059 and 060 refuse a scope that is not effective, and
\* with it the whole transaction: the grant is given back.
approveSupportAccess(actor, r) ==
    /\ <<actor, r>> \in approving
    /\ approving' = approving \ {<<actor, r>>}
    /\ IF requests[r].scope \in Unit => resolveAncestry(requests[r].tenant, requests[r].scope) # {}
       THEN /\ requests' = [requests EXCEPT ![r].status = "approved", ![r].decidedBy = actor]
            /\ support' = startSupportSessionWithin(r)
            /\ UNCHANGED grants
       ELSE grants' = grants \cup {<<actor, r>>} /\ UNCHANGED <<requests, support>>
    /\ UNCHANGED revoking /\ OnSupport

\* For an approved request that was left without its session.
startSupportSession(actor, r) ==
    /\ requests[r].status = "approved" /\ support[r] = NoSupport
    /\ mayActTenantWide("identity.support.approve", requests[r].tenant, actor)
    /\ support' = startSupportSessionWithin(r)
    /\ UNCHANGED <<requests, grants, approving, revoking>> /\ OnSupport

stillRunning(r) == support[r].ending = "running" /\ support[r].left > 0

readRevocation(actor, r) ==
    /\ requireActor(actor) /\ stillRunning(r)
    /\ mayActTenantWide("identity.support.revoke", requests[r].tenant, actor) \/ support[r].actor = actor
    /\ revoking' = revoking \cup {<<actor, r>>}
    /\ UNCHANGED <<requests, grants, support, approving>> /\ OnSupport

\* NOW() is the start of the transaction, so of the three conditions only the two
\* endings can have changed since the read.
revokeSupportSession(actor, r) ==
    /\ <<actor, r>> \in revoking
    /\ revoking' = revoking \ {<<actor, r>>}
    /\ support' = IF support[r].ending = "running" THEN [support EXCEPT ![r].ending = "revoked"] ELSE support
    /\ UNCHANGED <<requests, grants, approving>> /\ OnSupport

expireDueSupportSessions(r) ==
    /\ support[r].ending = "running" /\ support[r].left = 0
    /\ support' = [support EXCEPT ![r].ending = "expired"]
    /\ UNCHANGED <<requests, grants, approving, revoking>> /\ OnSupport

--------------------------------------------------------------------------------
(* The policy engine *)

\* The nodes above what the request names; nothing for a tenant-wide request.
Ancestry(i) ==
    IF i.resource # Nobody THEN resolveAncestry(i.target, ResourceUnit[i.resource])
    ELSE IF i.scopeHint # Nobody THEN resolveAncestry(i.target, i.scopeHint) ELSE {}

covers(b, i) ==
    IF Catalog[i.action].plane = "control_plane" THEN coversPlatformAction(b)
    ELSE IF b.scope \in Resource THEN b.scope = i.resource
    ELSE IF Ancestry(i) = {} THEN coversTenantWide(b, i.target)
    ELSE b.scope \in Ancestry(i)

Covering(i) == {b \in Holds(i.actor, i.action) : covers(b, i)}

sessionCovers(r, i) ==
    /\ support[r].actor = i.actor /\ requests[r].tenant = i.target
    /\ support[r].ending # "revoked" /\ support[r].left > 0 /\ requests[r].status = "approved"
    /\ i.action \in requests[r].actions
    /\ requests[r].scope = i.target \/ requests[r].scope \in Ancestry(i)

\* What is refused before any binding is looked at.
Refused(i) ==
    \/ i.action \notin Action
    \/ /\ Catalog[i.action].plane = "control_plane"
       /\ i.resource # Nobody \/ i.scopeHint # Nobody
    \/ links[i.actor].home # Platform /\ i.target # links[i.actor].home
    \/ /\ Catalog[i.action].plane = "tenant"
       /\ \/ i.target = Platform \/ tenants[i.target] # "active"
          \/ Catalog[i.action].resource # (i.resource # Nobody)
          \/ (i.resource # Nobody \/ i.scopeHint # Nobody) /\ Ancestry(i) = {}

scopeDepth == [platform |-> 0, tenant |-> 1, dealer_group |-> 2, legal_entity |-> 3,
               rooftop |-> 4, department |-> 5, resource |-> 6]
narrowestBinding(bs) ==
    CHOOSE b \in bs : \A o \in bs : scopeDepth[LevelOf(b.scope)] >= scopeDepth[LevelOf(o.scope)]

SupportAuthority(l) == {b \in Holds(l, "platform.support.request") : coversPlatformAction(b)}

Verdict(i, answer, relied, at, r) ==
    [input |-> i, answer |-> answer, relied |-> relied, at |-> at, request |-> r]
Denied(i) == Verdict(i, "deny", {}, Nobody, 0)
AllowedByRole(i) ==
    Verdict(i, "allow", Covering(i), narrowestBinding(Covering(i)).scope, 0)
AllowedBySupport(i, r) ==
    Verdict(i, "allow", {CHOOSE b \in SupportAuthority(i.actor) : TRUE}, Nobody, r)

OnPolicy == UNCHANGED <<tenants, units, connections, links, bindings, grants, requests, support, approving, revoking>>

\* A dealership link and a control-plane action need a role binding; a platform link
\* reaches a tenant through a support session and its own platform authority.
Verdicts(i) ==
    IF Refused(i) THEN {Denied(i)}
    ELSE IF links[i.actor].home # Platform \/ Catalog[i.action].plane = "control_plane"
    THEN IF Covering(i) = {} THEN {Denied(i)} ELSE {AllowedByRole(i)}
    ELSE LET rs == {r \in DOMAIN requests : sessionCovers(r, i)} IN
         IF SupportAuthority(i.actor) = {} \/ rs = {} THEN {Denied(i)}
         ELSE {AllowedBySupport(i, r) : r \in rs}

decide(i) ==
    /\ Cardinality(deciding) + Len(decisions) < MaxDecision
    /\ \E v \in Verdicts(i) : deciding' = deciding \cup {v}
    /\ UNCHANGED decisions /\ OnPolicy

\* The triggers on policy_decisions look again when the row is written.
StillStands(v) ==
    v.answer = "allow" =>
        /\ v.relied \subseteq bindings
        /\ v.at \in Tenant \cup Unit => resolveAncestry(v.input.target, v.at) # {}
        /\ v.input.resource # Nobody => Ancestry(v.input) # {}
        /\ v.request # 0 =>
            /\ support[v.request].ending # "revoked" /\ support[v.request].left > 0
            /\ Activated(v.input.actor)

\* Mutant of record: the row is written as it was decided.
recordAsDecided(v) ==
    /\ v \in deciding
    /\ deciding' = deciding \ {v}
    /\ decisions' = Append(decisions, v)
    /\ OnPolicy

\* A verdict that no longer stands records nothing and the request fails.
record(v) ==
    /\ v \in deciding
    /\ deciding' = deciding \ {v}
    /\ decisions' = IF StillStands(v) THEN Append(decisions, v) ELSE decisions
    /\ OnPolicy

--------------------------------------------------------------------------------

tickAccess ==
    /\ \/ \E c \in Connection : connections[c].validFor > 0
       \/ \E r \in DOMAIN support : support[r].left > 0
    /\ connections' = [c \in Connection |->
            IF connections[c].validFor > 0 THEN [connections[c] EXCEPT !.validFor = @ - 1] ELSE connections[c]]
    /\ support' = [r \in DOMAIN support |->
            IF support[r].left > 0 THEN [support[r] EXCEPT !.left = @ - 1] ELSE support[r]]
    /\ UNCHANGED <<tenants, units, links, bindings, grants, requests, approving, revoking, deciding, decisions>>

OrganizationNext ==
    \E actor \in Link :
        \/ \E t \in Tenant, status \in OrganizationStatus :
                createOrganization(actor, t, status) \/ changeOrganizationStatus(actor, t, status)
        \/ \E u \in Unit, status \in OrgUnitStatus :
                createOrganizationUnit(actor, u, status) \/ changeOrganizationUnitStatus(actor, u, status)

ConnectionsNext ==
    \E actor \in Link, c \in Connection :
        \/ \E h \in Home, org \in ProviderOrg, i \in Issuer : createProviderMapping(actor, c, h, org, i)
        \/ \E org \in ProviderOrg, status \in {"active", "disabled"} : remapProviderConnection(actor, c, org, status)
        \/ \E i \in Issuer : changeProviderIssuer(actor, c, i)
        \/ \E certified \in BOOLEAN : certifyProviderMfaPolicy(actor, c, certified)
        \/ revokeProviderMfaPolicyCertification(actor, c)

\* hasSession says which links have a session.
LinksNext(hasSession) ==
    \/ \E actor, l \in Link :
        \/ \E h \in Home, subject \in Subject : provisionUserLink(actor, l, h, subject)
        \/ activateUserLink(actor, l) \/ deactivateUserLink(actor, l)
        \/ \E c \in Connection : relinkUserLink(actor, l, c, l \in hasSession)
    \/ \E t \in Tenant, org \in ProviderOrg, subject \in Subject, c \in Connection, l \in Link :
            bootstrapIdentityOrigin(t, org, subject, c, l)

RolesNext ==
    \E actor, l \in Link :
        \/ \E role \in PLATFORM_ROLES \cup DEALERSHIP_ROLES, s \in Scope : grantRole(actor, l, role, s)
        \/ \E b \in bindings, role \in PLATFORM_ROLES \cup DEALERSHIP_ROLES : changeRole(actor, b, role)
        \/ \E b \in bindings : revokeRole(actor, b)
        \/ revokeRolesForUserLink(actor, l)

SupportNext ==
    \/ \E actor \in Link, input \in RequestInput : requestSupportAccess(actor, input)
    \/ \E r \in DOMAIN requests :
        \/ \E actor \in Link :
            \/ stepUp(actor, r) \/ denySupportAccess(actor, r) \/ beginApproval(actor, r)
            \/ approveSupportAccess(actor, r) \/ startSupportSession(actor, r)
            \/ readRevocation(actor, r) \/ revokeSupportSession(actor, r)
        \/ expireDueSupportSessions(r)

PolicyNext ==
    \/ \E i \in PolicyInput : decide(i)
    \/ \E v \in deciding : record(v)

--------------------------------------------------------------------------------
(* What must hold *)

AccessTypeOK ==
    /\ tenants \in [Tenant -> OrganizationStatus \cup {"none"}]
    /\ units \in [Unit -> OrgUnitStatus \cup {"none"}]
    /\ connections \in [Connection -> ProviderConnection \cup {NoConnection}]
    /\ links \in [Link -> UserLink \cup {NoLink}]
    /\ bindings \subseteq RoleBinding
    /\ requests \in Seq(SupportAccessRequest) /\ Len(requests) <= MaxRequest
    /\ support \in [1..MaxRequest -> SupportAccessSession]
    /\ grants \cup approving \cup revoking \subseteq Link \X (1..MaxRequest)
    /\ Len(decisions) <= MaxDecision

\* A role of the platform's control plane is bound only at the platform, to a link of the
\* platform, and a dealership's role never is, whichever of grantRole, changeRole and
\* bootstrap wrote the binding (mutations.ts: assertRoleScope, and the foreign key on the
\* link's own tenant).
RolesMatchTheirScope ==
    \A b \in bindings :
        /\ b.role \in PLATFORM_ROLES <=> b.scope = Platform
        /\ b.scope = Platform <=> links[b.link].home = Platform

\* An activated link is bound to a connection of its own home, and one home has at most
\* one active connection, through every remapping, relinking and bootstrap (activateUserLink,
\* relinkUserLink, remapProviderConnection, planConnection, planUserLink).
LinksAreBoundAtHome ==
    /\ \A l \in Link :
        /\ Activated(l) => links[l].connection # Nobody
        /\ links[l].connection # Nobody => connections[links[l].connection].home = links[l].home
    /\ \A h \in Home : Cardinality(ActiveConnections(h)) <= 1

\* A support session exists only under a request that somebody of the tenant itself, and not
\* the requester, approved (mutations.ts: decideSupportAccess, startSupportSession).
SupportIsApprovedByTheTenant ==
    \A r \in DOMAIN requests :
        support[r].ending # "none" =>
            /\ requests[r].status = "approved" /\ support[r].actor = requests[r].requester
            /\ requests[r].decidedBy # requests[r].requester
            /\ links[requests[r].decidedBy].home = requests[r].tenant

\* A support session ends once: a revocation that lost to the sweep, or the other way
\* round, does not relabel the ending (mutations.ts: revokeSupportSession,
\* expireDueSupportSessions).
EndingStands ==
    \A r \in 1..MaxRequest :
        support[r].ending \in {"revoked", "expired"} => support'[r].ending = support[r].ending

\* No decision that serves a request under support access is recorded after the session was
\* revoked or ran out, or after the person lost the platform authority, however long the
\* engine took between its reads and its record (policy.ts: decide, record).
EndedIsNotServed ==
    \A n \in DOMAIN decisions' \ DOMAIN decisions :
        decisions'[n].request # 0 =>
            /\ stillRunning(decisions'[n].request)
            /\ holdsPlatformSupportAuthority(decisions'[n].input.actor)

\* Delegated support access ends for good, for the session row and for the requests it
\* serves, although revocation, sweep and policy engine each act on an earlier read.
SupportEndsForGood == [][EndingStands /\ EndedIsNotServed]_accessVars

================================================================================
