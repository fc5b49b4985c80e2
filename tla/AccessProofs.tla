------------------------------ MODULE AccessProofs ------------------------------
(***************************************************************************)
(* Access, login and administration keep their promises for every set of   *)
(* tenants, people, connections, tokens and commands, whatever runs        *)
(* together.                                                               *)
(*                                                                         *)
(* What the access tables hold is proved from the shape of a step: it      *)
(* replaces at most one link, one connection and adds at most one kind of  *)
(* role, and a link that exists keeps its home.  Everything that refers to *)
(* a person's home (roles, approvals, decisions read earlier) stands on    *)
(* that last fact.                                                         *)
(*                                                                         *)
(* The last section proves the safety properties of StepUp, and that it    *)
(* implements OneUseGrant, for any number of step-ups, people, operations, *)
(* callbacks and requests.  StepUpInv adds RowsFit: a request that has     *)
(* paid holds a live grant of its own person and operation, and an absent  *)
(* row is not claimed.                                                     *)
(***************************************************************************)
EXTENDS Administration, StepUp, FiniteSetTheorems, TLAPS

--------------------------------------------------------------------------------
(* What steps do to the access tables *)

\* A callback sees an identity for the first time.
Observed ==
    \E i \in Identity, c \in Connection, l \in Link :
        connections[c].status = "active" /\ observeUserLinkOnLogin(i, c, l) /\ OnLinks

AccessStep ==
    \/ OrganizationNext \/ ConnectionsNext \/ LinksNext(HasSession) \/ RolesNext
    \/ SupportNext \/ PolicyNext \/ tickAccess
    \/ Observed \/ UNCHANGED accessVars

\* The work of an administration command is one of the mutations.
LEMMA CommandIsMutation ==
    ASSUME NEW actor \in Link, NEW c \in Command, commandWork(actor, c)
    PROVE  OrganizationNext \/ LinksNext(HasSession) \/ RolesNext \/ UNCHANGED accessVars
<1>1. CASE createUnitCommand(actor, c)
  <2>1. c.unit \in Unit /\ createOrganizationUnit(actor, c.unit, "active") /\ "active" \in OrgUnitStatus
    BY <1>1, CommandAssumption DEF createUnitCommand, OrgUnitStatus
  <2>2. \E u \in Unit, status \in OrgUnitStatus : createOrganizationUnit(actor, u, status)
    BY <2>1
  <2> QED
    BY <2>2 DEF OrganizationNext
<1>2. CASE grantRoleCommand(actor, c)
  <2>1. /\ c.link \in Link /\ c.role \in PLATFORM_ROLES \cup DEALERSHIP_ROLES /\ c.scope \in Scope
        /\ grantRole(actor, c.link, c.role, c.scope)
    BY <1>2, CommandAssumption DEF grantRoleCommand
  <2> QED
    BY <2>1 DEF RolesNext
<1>3. CASE revokeRoleCommand(actor, c)
  <2> DEFINE b == [link |-> c.link, role |-> c.role, scope |-> c.scope]
  <2>1. CASE b \in bindings
    <3>1. revokeRole(actor, b)
      BY <1>3, <2>1 DEF revokeRoleCommand
    <3> QED
      BY <3>1, <2>1 DEF RolesNext
  <2>2. CASE b \notin bindings
    BY <1>3, <2>2 DEF revokeRoleCommand
  <2> QED
    BY <2>1, <2>2
<1>4. CASE deactivateCommand(actor, c)
  <2>1. c.link \in Link
    BY <1>4, CommandAssumption DEF deactivateCommand
  <2>2. CASE links[c.link].status = "deactivated"
    BY <1>4, <2>2 DEF deactivateCommand
  <2>3. CASE links[c.link].status # "deactivated"
    <3>1. deactivateUserLink(actor, c.link)
      BY <1>4, <2>3 DEF deactivateCommand
    <3> QED
      BY <2>1, <3>1 DEF LinksNext
  <2> QED
    BY <2>2, <2>3
<1> QED
  BY <1>1, <1>2, <1>3, <1>4 DEF commandWork

\* Commands that are running were begun by somebody.
RunningTyped == running \in [Clerk -> [actor : Link, key : Key, command : Command] \cup {NoCommand}]

\* Whatever runs, the access tables see one of the access steps.
LEMMA AccessSteps ==
    ASSUME RunningTyped, [AdministrationNext]_vars
    PROVE  AccessStep
<1> USE DEF AccessStep
<1>1. CASE UNCHANGED vars
  BY <1>1 DEF vars
<1>2. CASE OrganizationNext \/ ConnectionsNext \/ LinksNext(HasSession) \/ RolesNext
           \/ SupportNext \/ PolicyNext \/ tickAccess
  BY <1>2
<1>3. CASE CallbackNext
  <2>1. CASE \E t \in DOMAIN logins, i \in Identity : admissionRefused(t, i)
    <3>1. PICK t \in DOMAIN logins, i \in Identity : admissionRefused(t, i)
      BY <2>1
    <3>2. CASE UNCHANGED links
      BY <3>1, <3>2 DEF admissionRefused, accessVars
    <3>3. CASE \E c \in admitConnection(i), l \in Link : observeUserLinkOnLogin(i, c, l)
      <4>1. OnLinks
        BY <3>1 DEF admissionRefused, OnLinks
      <4>2. PICK c \in admitConnection(i), l \in Link : observeUserLinkOnLogin(i, c, l)
        BY <3>3
      <4>3. c \in Connection /\ connections[c].status = "active"
        BY <4>2 DEF admitConnection
      <4> QED
        BY <4>1, <4>2, <4>3 DEF Observed
    <3> QED
      BY <3>1, <3>2, <3>3 DEF admissionRefused
  <2>2. CASE startLoginTransaction
    BY <2>2 DEF startLoginTransaction, OnLogin
  <2>3. ASSUME NEW t \in DOMAIN logins,
               \/ claimLoginTransaction(t) \/ claimRefused(t) \/ providerRefuses(t)
               \/ failLoginTransaction(t) \/ callbackStops(t) \/ expireStaleLoginTransactions(t)
        PROVE  UNCHANGED accessVars
    BY <2>3 DEF claimLoginTransaction, claimRefused, providerRefuses, failLoginTransaction, callbackStops,
                expireStaleLoginTransactions, OnLogin
  <2>4. ASSUME NEW t \in DOMAIN logins, NEW i \in Identity, admitLoginAndEstablishSession(t, i)
        PROVE  UNCHANGED accessVars
    BY <2>4 DEF admitLoginAndEstablishSession, OnLogin
  <2> QED
    BY <1>3, <2>1, <2>2, <2>3, <2>4 DEF CallbackNext
<1>4. CASE SessionNext
  <2>1. UNCHANGED accessVars
    BY <1>4 DEF SessionNext, authenticate, revokeSession, presentBearer, resolveBearerSession,
                classifyMissingBearerSession, establishBearerSession, OnLogin
  <2> QED
    BY <2>1
<1>5. CASE tickLogin
  BY <1>5 DEF tickLogin, OnLogin
<1>6. CASE \E s \in authenticated, i \in PolicyInput : requireAction(s, i)
  BY <1>6 DEF requireAction, PolicyNext
<1>7. CASE CommandNext
  <2>1. ASSUME NEW c \in Command, issueStepUp(c) PROVE UNCHANGED accessVars
    BY <2>1 DEF issueStepUp, OnAdmin
  <2>2. ASSUME NEW k \in Clerk, \E actor \in Link, key \in Key, c \in Command : beginCommand(k, actor, key, c)
        PROVE  UNCHANGED accessVars
    BY <2>2 DEF beginCommand, OnAdmin
  <2>3. ASSUME NEW k \in Clerk, commandRolledBack(k) PROVE UNCHANGED accessVars
    BY <2>3 DEF commandRolledBack, OnAdmin
  <2>4. ASSUME NEW k \in Clerk, runIdempotentAdminCommand(k) PROVE AccessStep
    <3>1. running[k] \in [actor : Link, key : Key, command : Command]
      BY <2>4 DEF RunningTyped, runIdempotentAdminCommand
    <3>2. commandWork(running[k].actor, running[k].command)
      BY <2>4 DEF runIdempotentAdminCommand
    <3>3. running[k].actor \in Link /\ running[k].command \in Command
      BY <3>1
    <3> QED
      BY <3>2, <3>3, CommandIsMutation
  <2>5. ASSUME NEW actor \in Link, NEW c \in Command, runUnkeyedCommand(actor, c) PROVE AccessStep
    BY <2>5, CommandIsMutation DEF runUnkeyedCommand
  <2> QED
    BY <1>7, <2>1, <2>2, <2>3, <2>4, <2>5 DEF CommandNext
<1>8. CASE SettingsNext
  BY <1>8 DEF SettingsNext, upsertDealershipSettings, replaceBusinessHours, setDealershipPolicy, OnAdmin
<1>9. CASE OutboxNext
  BY <1>9 DEF OutboxNext, createStaffInvitation, revokeStaffInvitation, dispatchEvent, dispatchFails,
              recordFailure, tickAdmin, OnOutbox, OnAdmin
<1> QED
  BY <1>1, <1>2, <1>3, <1>4, <1>5, <1>6, <1>7, <1>8, <1>9 DEF AdministrationNext

--------------------------------------------------------------------------------
(* Tenants, connections, links and roles *)

IdentityTyped ==
    /\ tenants \in [Tenant -> OrganizationStatus \cup {"none"}]
    /\ units \in [Unit -> OrgUnitStatus \cup {"none"}]
    /\ connections \in [Connection -> ProviderConnection \cup {NoConnection}]
    /\ links \in [Link -> UserLink \cup {NoLink}]
    /\ bindings \subseteq RoleBinding

\* A binding is where its role and its link belong, and its link exists.
Matches(b, ls) ==
    /\ b.role \in PLATFORM_ROLES <=> b.scope = Platform
    /\ b.scope = Platform <=> ls[b.link].home = Platform
    /\ ls[b.link].status # "none"

\* A link that is bound, or must be, is bound to a connection that exists, of its home.
BoundAtHome(row, cs) ==
    /\ row.status = "activated" => row.connection # Nobody
    /\ row.connection # Nobody =>
        cs[row.connection].status # "none" /\ cs[row.connection].home = row.home

OneActive ==
    \A c, d \in Connection :
        /\ connections[c].status = "active" /\ connections[d].status = "active"
        /\ connections[c].home = connections[d].home
        => c = d

IdentityInv ==
    /\ IdentityTyped
    /\ \A b \in bindings : Matches(b, links)
    /\ \A l \in Link : BoundAtHome(links[l], connections)
    /\ OneActive

\* What a step may do to each table.
LinkReplaced(l, row) ==
    /\ links' = [links EXCEPT ![l] = row]
    /\ links[l].status # "none" => row.home = links[l].home
    /\ BoundAtHome(row, connections')
LinksShape == UNCHANGED links \/ \E l \in Link, row \in UserLink : LinkReplaced(l, row)

ConnectionReplaced(c, row) ==
    /\ connections' = [connections EXCEPT ![c] = row]
    /\ connections[c].status # "none" => row.home = connections[c].home
    /\ row.status = "active" => SoleActive(row.home, c)
ConnectionsAge ==
    /\ connections' \in [Connection -> ProviderConnection \cup {NoConnection}]
    /\ \A c \in Connection :
        connections'[c].home = connections[c].home /\ connections'[c].status = connections[c].status
ConnectionsShape ==
    ConnectionsAge \/ \E c \in Connection, row \in ProviderConnection : ConnectionReplaced(c, row)

BindingsShape ==
    \E new \in SUBSET RoleBinding :
        bindings' \subseteq bindings \cup new /\ \A b \in new : Matches(b, links')

IdentityShape ==
    /\ tenants' \in [Tenant -> OrganizationStatus \cup {"none"}]
    /\ units' \in [Unit -> OrgUnitStatus \cup {"none"}]
    /\ LinksShape /\ ConnectionsShape /\ BindingsShape

\* A link that exists goes on existing, and never changes its home.
LinksKept ==
    \A l \in Link : links[l].status # "none" =>
        links'[l].status # "none" /\ links'[l].home = links[l].home

\* From the shape of the step on links.
LEMMA LinksAreKept ==
    ASSUME IdentityTyped, LinksShape
    PROVE  LinksKept /\ links' \in [Link -> UserLink \cup {NoLink}]
<1>1. CASE UNCHANGED links
  BY <1>1 DEF LinksKept, IdentityTyped
<1>2. ASSUME NEW l \in Link, NEW row \in UserLink, LinkReplaced(l, row)
      PROVE  LinksKept /\ links' \in [Link -> UserLink \cup {NoLink}]
  <2>1. row.status # "none"
    BY DEF UserLink
  <2> QED
    BY <1>2, <2>1 DEF LinkReplaced, LinksKept, IdentityTyped
<1> QED
  BY <1>1, <1>2 DEF LinksShape

\* The invariant follows from the shape of the step alone.
LEMMA IdentityShapeKeeps ==
    ASSUME IdentityInv, IdentityShape
    PROVE  IdentityInv' /\ LinksKept
<1> USE DEF IdentityShape
<1>t. IdentityTyped
  BY DEF IdentityInv
<1>k. LinksKept /\ links' \in [Link -> UserLink \cup {NoLink}]
  BY <1>t, LinksAreKept
<1>c. /\ connections' \in [Connection -> ProviderConnection \cup {NoConnection}]
      /\ \A c \in Connection : connections[c].status # "none" =>
            connections'[c].status # "none" /\ connections'[c].home = connections[c].home
  <2>1. CASE ConnectionsAge
    BY <2>1 DEF ConnectionsAge
  <2>2. ASSUME NEW c \in Connection, NEW row \in ProviderConnection, ConnectionReplaced(c, row)
        PROVE  <1>c!1 /\ <1>c!2
    <3>1. row.status # "none"
      BY DEF ProviderConnection
    <3> QED
      BY <2>2, <3>1, <1>t DEF ConnectionReplaced, IdentityTyped
  <2> QED
    BY <2>1, <2>2 DEF ConnectionsShape
<1>1. IdentityTyped'
  BY <1>t, <1>k, <1>c DEF IdentityTyped, BindingsShape
<1>2. \A b \in bindings' : Matches(b, links')
  <2> SUFFICES ASSUME NEW b \in bindings', b \in bindings PROVE Matches(b, links')
    BY DEF BindingsShape
  <2>1. b.link \in Link /\ Matches(b, links)
    BY <1>t DEF IdentityInv, IdentityTyped, RoleBinding
  <2> QED
    BY <2>1, <1>k DEF Matches, LinksKept
<1>3. \A l \in Link : BoundAtHome(links'[l], connections')
  <2> SUFFICES ASSUME NEW l \in Link PROVE BoundAtHome(links'[l], connections')
    OBVIOUS
  <2>1. CASE links'[l] = links[l]
    <3>1. BoundAtHome(links[l], connections)
      BY DEF IdentityInv
    <3>2. links[l].connection # Nobody => links[l].connection \in Connection
      BY <1>t DEF IdentityTyped, UserLink, NoLink
    <3> QED
      BY <2>1, <3>1, <3>2, <1>c DEF BoundAtHome
  <2>2. CASE links'[l] # links[l]
    <3>1. PICK m \in Link, row \in UserLink : LinkReplaced(m, row)
      BY <2>2 DEF LinksShape
    <3>2. links'[l] = row
      BY <2>2, <3>1, <1>t DEF LinkReplaced, IdentityTyped
    <3> QED
      BY <3>1, <3>2 DEF LinkReplaced
  <2> QED
    BY <2>1, <2>2
<1>4. OneActive'
  <2>1. CASE ConnectionsAge
    BY <2>1 DEF ConnectionsAge, OneActive, IdentityInv
  <2>2. ASSUME NEW c \in Connection, NEW row \in ProviderConnection, ConnectionReplaced(c, row)
        PROVE  OneActive'
    <3>1. /\ connections'[c] = row
          /\ \A d \in Connection \ {c} : connections'[d] = connections[d]
      BY <2>2, <1>t DEF ConnectionReplaced, IdentityTyped
    <3>2. \A d \in Connection \ {c} :
            row.status = "active" /\ connections[d].status = "active" => connections[d].home # row.home
      BY <2>2 DEF ConnectionReplaced, SoleActive, ActiveConnections
    <3>3. OneActive
      BY DEF IdentityInv
    <3> QED
      BY <3>1, <3>2, <3>3 DEF OneActive
  <2> QED
    BY <2>1, <2>2 DEF ConnectionsShape
<1> QED
  BY <1>1, <1>2, <1>3, <1>4, <1>k DEF IdentityInv

\* A step that leaves a table alone has its shape.
LEMMA QuietShapes ==
    ASSUME IdentityTyped
    PROVE  /\ UNCHANGED tenants => tenants' \in [Tenant -> OrganizationStatus \cup {"none"}]
           /\ UNCHANGED units => units' \in [Unit -> OrgUnitStatus \cup {"none"}]
           /\ UNCHANGED links => LinksShape
           /\ UNCHANGED connections => ConnectionsShape
           /\ bindings' \subseteq bindings => BindingsShape
<1>1. bindings' \subseteq bindings => BindingsShape
  <2>1. {} \in SUBSET RoleBinding
    OBVIOUS
  <2> QED
    BY <2>1 DEF BindingsShape
<1> QED
  BY <1>1 DEF IdentityTyped, LinksShape, ConnectionsShape, ConnectionsAge

\* Tenants and units.
LEMMA OrganizationShape == ASSUME IdentityInv, OrganizationNext PROVE IdentityShape
<1>t. IdentityTyped
  BY DEF IdentityInv
<1>1. UNCHANGED <<links, connections, bindings>>
  BY DEF OrganizationNext, createOrganization, changeOrganizationStatus, createOrganizationUnit,
         changeOrganizationUnitStatus
<1>2. /\ tenants' \in [Tenant -> OrganizationStatus \cup {"none"}]
      /\ units' \in [Unit -> OrgUnitStatus \cup {"none"}]
  BY <1>t DEF OrganizationNext, createOrganization, changeOrganizationStatus, createOrganizationUnit,
         changeOrganizationUnitStatus, IdentityTyped
<1> QED
  BY <1>1, <1>2, <1>t, QuietShapes DEF IdentityShape

\* A mutation of connections touches nothing else.
LEMMA ConnectionsAlone == ASSUME ConnectionsNext PROVE OnConnections
<1>1. PICK actor \in Link, c \in Connection :
        \/ \E h \in Home, org \in ProviderOrg, i \in Issuer : createProviderMapping(actor, c, h, org, i)
        \/ \E org \in ProviderOrg, status \in {"active", "disabled"} : remapProviderConnection(actor, c, org, status)
        \/ \E i \in Issuer : changeProviderIssuer(actor, c, i)
        \/ \E certified \in BOOLEAN : certifyProviderMfaPolicy(actor, c, certified)
        \/ revokeProviderMfaPolicyCertification(actor, c)
  BY DEF ConnectionsNext
<1>2. \A h, org, i : createProviderMapping(actor, c, h, org, i) => OnConnections
  BY DEF createProviderMapping
<1>3. \A org, status : remapProviderConnection(actor, c, org, status) => OnConnections
  BY DEF remapProviderConnection
<1>4. \A i : changeProviderIssuer(actor, c, i) => OnConnections
  BY DEF changeProviderIssuer
<1>5. \A certified : certifyProviderMfaPolicy(actor, c, certified) => OnConnections
  BY DEF certifyProviderMfaPolicy
<1>6. revokeProviderMfaPolicyCertification(actor, c) => OnConnections
  BY DEF revokeProviderMfaPolicyCertification
<1> QED
  BY <1>1, <1>2, <1>3, <1>4, <1>5, <1>6

\* Connections.
LEMMA ConnectionShape == ASSUME IdentityInv, ConnectionsNext PROVE IdentityShape
<1>t. IdentityTyped
  BY DEF IdentityInv
<1>u. UNCHANGED <<tenants, units, links, bindings>>
  BY ConnectionsAlone DEF OnConnections
<1>z. 0 \in 0..Validity
  BY AccessAssumption
<1> SUFFICES ConnectionsShape
  BY <1>u, <1>t, QuietShapes DEF IdentityShape
<1>r. ASSUME NEW c \in Connection, connections[c].status # "none"
      PROVE  connections[c] \in ProviderConnection
  BY <1>r, <1>t DEF IdentityTyped, NoConnection
<1>o. ASSUME NEW c \in Connection, connections[c].status = "active"
      PROVE  SoleActive(connections[c].home, c)
  BY <1>o DEF IdentityInv, OneActive, SoleActive, ActiveConnections
<1>s. SUFFICES ASSUME NEW actor \in Link, NEW c \in Connection,
                      \/ \E h \in Home, org \in ProviderOrg, i \in Issuer : createProviderMapping(actor, c, h, org, i)
                      \/ \E org \in ProviderOrg, status \in {"active", "disabled"} : remapProviderConnection(actor, c, org, status)
                      \/ \E i \in Issuer : changeProviderIssuer(actor, c, i)
                      \/ \E certified \in BOOLEAN : certifyProviderMfaPolicy(actor, c, certified)
                      \/ revokeProviderMfaPolicyCertification(actor, c)
               PROVE  \E row \in ProviderConnection : ConnectionReplaced(c, row)
  BY DEF ConnectionsNext, ConnectionsShape
<1>1. ASSUME NEW h \in Home, NEW org \in ProviderOrg, NEW i \in Issuer, createProviderMapping(actor, c, h, org, i)
      PROVE  \E row \in ProviderConnection : ConnectionReplaced(c, row)
  <2>1. NewConnection(h, org, i) \in ProviderConnection /\ NewConnection(h, org, i).home = h
    BY <1>z DEF NewConnection, NoConnection, ProviderConnection
  <2> QED
    BY <1>1, <2>1 DEF createProviderMapping, ConnectionReplaced
<1>2. ASSUME NEW org \in ProviderOrg, NEW status \in {"active", "disabled"}, remapProviderConnection(actor, c, org, status)
      PROVE  \E row \in ProviderConnection : ConnectionReplaced(c, row)
  <2> DEFINE row == [connections[c] EXCEPT !.org = org, !.status = status]
  <2>1. connections[c] \in ProviderConnection
    BY <1>2, <1>r DEF remapProviderConnection
  <2>2. row \in ProviderConnection /\ row.home = connections[c].home /\ row.status = status
    BY <2>1 DEF ProviderConnection
  <2>3. connections' = [connections EXCEPT ![c] = row]
    BY <1>2, <1>t DEF remapProviderConnection, IdentityTyped
  <2> QED
    BY <1>2, <2>2, <2>3 DEF remapProviderConnection, ConnectionReplaced
<1>3. ASSUME NEW i \in Issuer, changeProviderIssuer(actor, c, i)
      PROVE  \E row \in ProviderConnection : ConnectionReplaced(c, row)
  <2> DEFINE row == [connections[c] EXCEPT !.issuer = i]
  <2>1. connections[c] \in ProviderConnection
    BY <1>3, <1>r DEF changeProviderIssuer
  <2>2. row \in ProviderConnection /\ row.home = connections[c].home /\ row.status = connections[c].status
    BY <2>1 DEF ProviderConnection
  <2>3. connections' = [connections EXCEPT ![c] = row]
    BY <1>3 DEF changeProviderIssuer
  <2> QED
    BY <1>o, <2>2, <2>3 DEF ConnectionReplaced
<1>4. ASSUME NEW certified \in BOOLEAN, certifyProviderMfaPolicy(actor, c, certified)
      PROVE  \E row \in ProviderConnection : ConnectionReplaced(c, row)
  <2> DEFINE row == [connections[c] EXCEPT !.certifiedBy = IF certified THEN actor ELSE Nobody,
                                           !.validFor = IF certified THEN Validity ELSE 0,
                                           !.revokedBy = IF certified THEN Nobody ELSE connections[c].revokedBy]
  <2>1. connections[c] \in ProviderConnection
    BY <1>4, <1>r DEF certifyProviderMfaPolicy
  <2>2. row \in ProviderConnection /\ row.home = connections[c].home /\ row.status = connections[c].status
    <3>1. (IF certified THEN Validity ELSE 0) \in 0..Validity
      BY AccessAssumption
    <3> QED
      BY <2>1, <3>1 DEF ProviderConnection
  <2>3. connections' = [connections EXCEPT ![c] = row]
    BY <1>4 DEF certifyProviderMfaPolicy
  <2> QED
    BY <1>o, <2>2, <2>3 DEF ConnectionReplaced
<1>5. ASSUME revokeProviderMfaPolicyCertification(actor, c)
      PROVE  \E row \in ProviderConnection : ConnectionReplaced(c, row)
  <2> DEFINE row == [connections[c] EXCEPT !.certifiedBy = Nobody, !.validFor = 0, !.revokedBy = actor]
  <2>1. connections[c] \in ProviderConnection
    BY <1>5, <1>r DEF revokeProviderMfaPolicyCertification
  <2>2. row \in ProviderConnection /\ row.home = connections[c].home /\ row.status = connections[c].status
    BY <2>1, <1>z DEF ProviderConnection
  <2>3. connections' = [connections EXCEPT ![c] = row]
    BY <1>5 DEF revokeProviderMfaPolicyCertification
  <2> QED
    BY <1>o, <2>2, <2>3 DEF ConnectionReplaced
<1> QED
  BY <1>s, <1>1, <1>2, <1>3, <1>4, <1>5

\* A tick makes certifications older and changes nothing else of a connection.
LEMMA TickShape == ASSUME IdentityInv, tickAccess PROVE IdentityShape
<1>t. IdentityTyped
  BY DEF IdentityInv
<1>1. UNCHANGED <<tenants, units, links, bindings>>
  BY DEF tickAccess
<1>2. ASSUME NEW c \in Connection
      PROVE  /\ connections'[c] \in ProviderConnection \cup {NoConnection}
             /\ connections'[c].home = connections[c].home /\ connections'[c].status = connections[c].status
  <2>1. CASE connections[c].validFor > 0
    <3>1. connections[c] \in ProviderConnection
      BY <2>1, <1>t DEF IdentityTyped, NoConnection
    <3>2. connections[c].validFor - 1 \in 0..Validity
      BY <2>1, <3>1, AccessAssumption DEF ProviderConnection
    <3>3. connections'[c] = [connections[c] EXCEPT !.validFor = connections[c].validFor - 1]
      BY <2>1 DEF tickAccess
    <3> QED
      BY <3>1, <3>2, <3>3 DEF ProviderConnection
  <2>2. CASE ~(connections[c].validFor > 0)
    <3>1. connections'[c] = connections[c]
      BY <2>2 DEF tickAccess
    <3> QED
      BY <3>1, <1>t DEF IdentityTyped
  <2> QED
    BY <2>1, <2>2
<1>3. connections' \in [Connection -> ProviderConnection \cup {NoConnection}]
  <2>1. connections' = [c \in Connection |-> connections'[c]]
    BY DEF tickAccess
  <2> QED
    BY <1>2, <2>1
<1> QED
  BY <1>1, <1>2, <1>3, <1>t, QuietShapes DEF IdentityShape, ConnectionsShape, ConnectionsAge

\* A new pending link, provisioned or observed.
LEMMA PendingLinkShape ==
    ASSUME IdentityInv, NEW l \in Link, NEW h \in Home, NEW subject \in Subject,
           links[l].status = "none", links' = [links EXCEPT ![l] = PendingLink(h, subject)], OnLinks
    PROVE  IdentityShape
<1>t. IdentityTyped
  BY DEF IdentityInv
<1> DEFINE row == PendingLink(h, subject)
<1>1. row \in UserLink /\ row.status = "pending" /\ row.connection = Nobody
  BY DEF PendingLink, NoLink, UserLink
<1>2. LinkReplaced(l, row)
  BY <1>1 DEF LinkReplaced, BoundAtHome
<1>3. LinksShape
  BY <1>1, <1>2 DEF LinksShape
<1> QED
  BY <1>3, <1>t, QuietShapes DEF IdentityShape, OnLinks

\* What an identity's first sight leaves.
LEMMA ObservedShape == ASSUME IdentityInv, Observed PROVE IdentityShape
<1>1. PICK i \in Identity, c \in Connection, l \in Link :
        connections[c].status = "active" /\ observeUserLinkOnLogin(i, c, l) /\ OnLinks
  BY DEF Observed
<1>2. connections[c].home \in Home
  BY <1>1 DEF IdentityInv, IdentityTyped, ProviderConnection, NoConnection
<1>3. i.subject \in Subject
  BY LoginAssumption
<1>4. links[l].status = "none" /\ links' = [links EXCEPT ![l] = PendingLink(connections[c].home, i.subject)]
  BY <1>1 DEF observeUserLinkOnLogin
<1> QED
  BY <1>1, <1>2, <1>3, <1>4, PendingLinkShape

\* The bootstrap replaces a connection and a link and adds a role, all of one tenant.
LEMMA BootstrapShape ==
    ASSUME IdentityInv, NEW t \in Tenant, NEW org \in ProviderOrg, NEW subject \in Subject,
           NEW c \in Connection, NEW l \in Link, bootstrapIdentityOrigin(t, org, subject, c, l)
    PROVE  IdentityShape
<1>t. IdentityTyped
  BY DEF IdentityInv
<1> DEFINE link == planUserLink(t, subject, c, l)
           row == planConnection(t, org, c)
           b == planRoleBinding(t, l)
<1>a. t \in Home /\ t # Platform /\ t \in Scope
  BY AccessAssumption DEF Home, Scope
<1>1. /\ connections' = [connections EXCEPT ![c] = row]
      /\ links' = [links EXCEPT ![l] = link]
      /\ bindings' = bindings \cup {b}
      /\ tenants' = [tenants EXCEPT ![t] = planTenant(t)]
      /\ units' = units
      /\ ConnectionToUse(t, org, c) /\ LinkToUse(t, subject, c, l)
  BY DEF bootstrapIdentityOrigin
<1>2. /\ row \in ProviderConnection /\ row.home = t /\ row.status = "active"
      /\ connections[c].status # "none" => row = connections[c]
      /\ SoleActive(t, c)
  <2>1. CASE connections[c].status = "none"
    <3>1. row = NewConnection(t, org, TrustedIssuer) /\ ActiveConnections(t) = {}
      BY <2>1, <1>1 DEF planConnection, ConnectionToUse
    <3>2. 0 \in 0..Validity /\ TrustedIssuer \in Issuer
      BY AccessAssumption
    <3> QED
      BY <2>1, <3>1, <3>2, <1>a DEF NewConnection, NoConnection, ProviderConnection, SoleActive
  <2>2. CASE connections[c].status # "none"
    <3>1. row = connections[c] /\ connections[c].home = t /\ connections[c].status = "active"
      BY <2>2, <1>1 DEF planConnection, ConnectionToUse
    <3>2. connections[c] \in ProviderConnection
      BY <2>2, <1>t DEF IdentityTyped, NoConnection
    <3> QED
      BY <3>1, <3>2 DEF IdentityInv, OneActive, SoleActive, ActiveConnections
  <2> QED
    BY <2>1, <2>2
<1>3. ConnectionsShape
  BY <1>1, <1>2 DEF ConnectionsShape, ConnectionReplaced
<1>4. connections'[c] = row
  BY <1>1, <1>t DEF IdentityTyped
<1>5. /\ link \in UserLink /\ link.home = t /\ link.status = "activated" /\ link.connection = c
      /\ links[l].status # "none" => links[l].home = t
  BY <1>1, <1>a DEF planUserLink, UserLink, LinkToUse
<1>6. LinkReplaced(l, link)
  BY <1>1, <1>2, <1>4, <1>5, AccessAssumption DEF LinkReplaced, BoundAtHome, ProviderConnection
<1>7. LinksShape
  BY <1>5, <1>6 DEF LinksShape
<1>8. BindingsShape
  <2>1. links'[l] = link
    BY <1>1, <1>t DEF IdentityTyped
  <2>2. TENANT_ADMIN_ROLE \in DEALERSHIP_ROLES /\ TENANT_ADMIN_ROLE \notin PLATFORM_ROLES
    BY AccessAssumption, CatalogAssumption DEF createActionCatalog
  <2>3. TENANT_ADMIN_ROLE \in UNION {Catalog[a].roles : a \in Action}
    BY <2>2 DEF DEALERSHIP_ROLES
  <2>4. b \in RoleBinding /\ b.role = TENANT_ADMIN_ROLE /\ b.scope = t /\ b.link = l
    BY <2>3, <1>a DEF planRoleBinding, RoleBinding
  <2>5. Matches(b, links')
    BY <2>1, <2>2, <2>4, <1>5, <1>a DEF Matches, UserLink
  <2>6. {b} \in SUBSET RoleBinding
    BY <2>4
  <2> QED
    BY <1>1, <2>5, <2>6 DEF BindingsShape
<1>9. /\ tenants' \in [Tenant -> OrganizationStatus \cup {"none"}]
      /\ units' \in [Unit -> OrgUnitStatus \cup {"none"}]
  <2>1. planTenant(t) \in OrganizationStatus \cup {"none"}
    BY <1>t DEF IdentityTyped, planTenant, OrganizationStatus
  <2> QED
    BY <1>1, <1>t, <2>1 DEF IdentityTyped
<1> QED
  BY <1>3, <1>7, <1>8, <1>9 DEF IdentityShape

\* User links.
LEMMA LinkShape == ASSUME IdentityInv, LinksNext(HasSession) PROVE IdentityShape
<1>t. IdentityTyped
  BY DEF IdentityInv
<1>r. ASSUME NEW l \in Link, links[l].status # "none"
      PROVE  links[l] \in UserLink /\ BoundAtHome(links[l], connections)
  BY <1>r, <1>t DEF IdentityInv, IdentityTyped, NoLink
<1>s. ASSUME NEW l \in Link, NEW row \in UserLink, OnLinks, LinkReplaced(l, row)
      PROVE  IdentityShape
  BY <1>s, <1>t, QuietShapes DEF IdentityShape, OnLinks, LinksShape
<1>1. ASSUME NEW actor \in Link, NEW l \in Link, NEW h \in Home, NEW subject \in Subject,
             provisionUserLink(actor, l, h, subject)
      PROVE  IdentityShape
  BY <1>1, PendingLinkShape DEF provisionUserLink
<1>2. ASSUME NEW actor \in Link, NEW l \in Link, activateUserLink(actor, l)
      PROVE  IdentityShape
  <2>1. PICK c \in Connection :
            /\ ActiveConnections(links[l].home) = {c}
            /\ links' = [links EXCEPT ![l].status = "activated", ![l].connection = c]
    BY <1>2 DEF activateUserLink
  <2> DEFINE row == [links[l] EXCEPT !.status = "activated", !.connection = c]
  <2>2. OnLinks /\ links[l] \in UserLink
    BY <1>2, <1>r DEF activateUserLink
  <2>3. row \in UserLink /\ row.home = links[l].home /\ row.connection = c
    BY <2>2 DEF UserLink
  <2>4. links' = [links EXCEPT ![l] = row]
    BY <2>1, <1>t DEF IdentityTyped
  <2>5. connections[c].status = "active" /\ connections[c].home = links[l].home
    BY <2>1 DEF ActiveConnections
  <2>6. LinkReplaced(l, row)
    BY <2>2, <2>3, <2>4, <2>5, AccessAssumption DEF LinkReplaced, BoundAtHome, OnLinks
  <2> QED
    BY <1>s, <2>2, <2>3, <2>6
<1>3. ASSUME NEW actor \in Link, NEW l \in Link, deactivateUserLink(actor, l)
      PROVE  IdentityShape
  <2> DEFINE row == [links[l] EXCEPT !.status = "deactivated"]
  <2>1. OnLinks /\ links[l] \in UserLink /\ BoundAtHome(links[l], connections)
    BY <1>3, <1>r DEF deactivateUserLink
  <2>2. row \in UserLink /\ row.home = links[l].home /\ row.connection = links[l].connection /\ row.status = "deactivated"
    BY <2>1 DEF UserLink
  <2>3. links' = [links EXCEPT ![l] = row]
    BY <1>3 DEF deactivateUserLink
  <2>4. LinkReplaced(l, row)
    BY <2>1, <2>2, <2>3 DEF LinkReplaced, BoundAtHome, OnLinks
  <2> QED
    BY <1>s, <2>1, <2>2, <2>4
<1>4. ASSUME NEW actor \in Link, NEW l \in Link, NEW c \in Connection,
             relinkUserLink(actor, l, c, l \in HasSession)
      PROVE  IdentityShape
  <2> DEFINE row == [links[l] EXCEPT !.connection = c]
  <2>1. OnLinks /\ links[l] \in UserLink
    BY <1>4, <1>r DEF relinkUserLink
  <2>2. row \in UserLink /\ row.home = links[l].home /\ row.connection = c
    BY <2>1 DEF UserLink
  <2>3. links' = [links EXCEPT ![l] = row]
    BY <1>4 DEF relinkUserLink
  <2>4. connections[c].status = "active" /\ connections[c].home = links[l].home
    BY <1>4 DEF relinkUserLink, ActiveConnections
  <2>5. LinkReplaced(l, row)
    BY <2>1, <2>2, <2>3, <2>4, AccessAssumption DEF LinkReplaced, BoundAtHome, OnLinks
  <2> QED
    BY <1>s, <2>1, <2>2, <2>5
<1>5. ASSUME NEW t \in Tenant, NEW org \in ProviderOrg, NEW subject \in Subject, NEW c \in Connection, NEW l \in Link,
             bootstrapIdentityOrigin(t, org, subject, c, l)
      PROVE  IdentityShape
  BY <1>5, BootstrapShape
<1> QED
  BY <1>1, <1>2, <1>3, <1>4, <1>5 DEF LinksNext

\* Roles.
LEMMA RoleShape == ASSUME IdentityInv, RolesNext PROVE IdentityShape
<1>t. IdentityTyped
  BY DEF IdentityInv
<1> DEFINE role_ == UNION {Catalog[a].roles : a \in Action}
<1>u. ASSUME OnBindings, BindingsShape PROVE IdentityShape
  BY <1>u, <1>t, QuietShapes DEF IdentityShape, OnBindings
<1>r. PLATFORM_ROLES \cup DEALERSHIP_ROLES \subseteq role_
  BY DEF PLATFORM_ROLES, DEALERSHIP_ROLES
<1> HIDE DEF role_
<1>1. ASSUME NEW actor \in Link, NEW l \in Link, NEW role \in PLATFORM_ROLES \cup DEALERSHIP_ROLES, NEW s \in Scope,
             grantRole(actor, l, role, s)
      PROVE  IdentityShape
  <2> DEFINE b == [link |-> l, role |-> role, scope |-> s]
  <2>1. b \in RoleBinding
    BY <1>r DEF RoleBinding, role_
  <2>2. Matches(b, links')
    <3>1. s # Platform => links[l].home # Platform
      BY <1>1, AccessAssumption DEF grantRole
    <3> QED
      BY <1>1, <3>1 DEF Matches, grantRole, assertRoleScope, OnBindings
  <2>3. {b} \in SUBSET RoleBinding /\ bindings' \subseteq bindings \cup {b} /\ OnBindings
    BY <1>1, <2>1 DEF grantRole
  <2> QED
    BY <1>u, <2>2, <2>3 DEF BindingsShape
<1>2. ASSUME NEW actor \in Link, NEW o \in bindings, NEW role \in PLATFORM_ROLES \cup DEALERSHIP_ROLES,
             changeRole(actor, o, role)
      PROVE  IdentityShape
  <2> DEFINE b == [o EXCEPT !.role = role]
  <2>0. o \in RoleBinding /\ Matches(o, links)
    BY <1>t DEF IdentityTyped, IdentityInv
  <2>1. b \in RoleBinding /\ b.link = o.link /\ b.scope = o.scope /\ b.role = role
    BY <2>0, <1>r DEF RoleBinding, role_
  <2>2. Matches(b, links')
    BY <1>2, <2>0, <2>1 DEF Matches, changeRole, assertRoleScope, OnBindings
  <2>3. {b} \in SUBSET RoleBinding /\ bindings' \subseteq bindings \cup {b} /\ OnBindings
    BY <1>2, <2>1 DEF changeRole
  <2> QED
    BY <1>u, <2>2, <2>3 DEF BindingsShape
<1>3. ASSUME NEW actor \in Link, NEW b \in bindings, revokeRole(actor, b) PROVE IdentityShape
  BY <1>3, <1>t, <1>u, QuietShapes DEF revokeRole
<1>4. ASSUME NEW actor \in Link, NEW l \in Link, revokeRolesForUserLink(actor, l) PROVE IdentityShape
  BY <1>4, <1>t, <1>u, QuietShapes DEF revokeRolesForUserLink
<1> QED
  BY <1>1, <1>2, <1>3, <1>4 DEF RolesNext

\* Every step has the shape.
LEMMA IdentityStep == ASSUME IdentityInv, AccessStep PROVE IdentityInv' /\ LinksKept
<1>t. IdentityTyped
  BY DEF IdentityInv
<1>q. ASSUME UNCHANGED <<tenants, units, connections, links, bindings>> PROVE IdentityShape
  BY <1>q, <1>t, QuietShapes DEF IdentityShape
<1>1. CASE SupportNext
  <2>1. OnSupport
    BY <1>1 DEF SupportNext, requestSupportAccess, stepUp, denySupportAccess, beginApproval, approveSupportAccess,
                startSupportSession, readRevocation, revokeSupportSession, expireDueSupportSessions
  <2> QED
    BY <1>q, <2>1, IdentityShapeKeeps DEF OnSupport
<1>2. CASE PolicyNext
  <2>1. OnPolicy
    BY <1>2 DEF PolicyNext, decide, record
  <2> QED
    BY <1>q, <2>1, IdentityShapeKeeps DEF OnPolicy
<1>3. CASE UNCHANGED accessVars
  BY <1>3, <1>q, IdentityShapeKeeps DEF accessVars
<1> QED
  BY <1>1, <1>2, <1>3, OrganizationShape, ConnectionShape, LinkShape, RoleShape, TickShape, ObservedShape,
     IdentityShapeKeeps DEF AccessStep

--------------------------------------------------------------------------------
(* Support access *)

SupportTyped ==
    /\ requests \in Seq(SupportAccessRequest) /\ Len(requests) <= MaxRequest
    /\ support \in [1..MaxRequest -> SupportAccessSession]
    /\ grants \cup approving \cup revoking \subseteq Link \X (1..MaxRequest)

\* Somebody of the tenant itself, and not the requester, for good.
OfTheTenant(a, asked, ls) ==
    /\ a \in Link /\ a # asked.requester
    /\ ls[a].status # "none" /\ ls[a].home = asked.tenant

\* An approval under way holds the lock of a pending request, alone.
ApprovalsHoldTheLock ==
    \A a \in Link, r \in 1..MaxRequest : <<a, r>> \in approving =>
        /\ r \in DOMAIN requests /\ requests[r].status = "pending"
        /\ OfTheTenant(a, requests[r], links)
        /\ \A o \in Link : <<o, r>> \in approving => o = a

ApprovedByTheTenant ==
    \A r \in DOMAIN requests : requests[r].status = "approved" => OfTheTenant(requests[r].decidedBy, requests[r], links)

\* A session row belongs to an approved request; time is left only while it runs or is revoked.
SessionsFollowRequests ==
    \A r \in 1..MaxRequest :
        /\ support[r].ending # "none" =>
            /\ r \in DOMAIN requests /\ requests[r].status = "approved"
            /\ support[r].actor = requests[r].requester
        /\ support[r].ending \in {"none", "expired"} => support[r].left = 0

SupportInv == SupportTyped /\ ApprovalsHoldTheLock /\ ApprovedByTheTenant /\ SessionsFollowRequests

\* What is kept of a request that is decided: all but its status and who decided.
Decided(r, row) ==
    /\ requests' = [requests EXCEPT ![r] = row] /\ row \in SupportAccessRequest
    /\ row.tenant = requests[r].tenant /\ row.requester = requests[r].requester
    /\ requests[r].status = "pending"

\* One of the tenant stays one of the tenant.
LEMMA OfTheTenantStays ==
    ASSUME NEW a, NEW asked, OfTheTenant(a, asked, links), LinksKept
    PROVE  OfTheTenant(a, asked, links')
  BY DEF OfTheTenant, LinksKept

\* Only the rows of support may have changed, and they follow the requests still.
LEMMA QuietRequests ==
    ASSUME SupportInv, LinksKept, UNCHANGED requests, approving' \subseteq approving,
           grants' \cup revoking' \subseteq Link \X (1..MaxRequest),
           support' \in [1..MaxRequest -> SupportAccessSession], SessionsFollowRequests'
    PROVE  SupportInv'
<1>1. SupportTyped'
  BY DEF SupportInv, SupportTyped
<1>2. ApprovalsHoldTheLock'
  BY OfTheTenantStays DEF SupportInv, ApprovalsHoldTheLock
<1>3. ApprovedByTheTenant'
  BY OfTheTenantStays DEF SupportInv, ApprovedByTheTenant
<1> QED
  BY <1>1, <1>2, <1>3 DEF SupportInv

\* A request is filed.
LEMMA FilingKeeps ==
    ASSUME SupportInv, NEW actor \in Link, NEW input \in RequestInput, requestSupportAccess(actor, input)
    PROVE  SupportInv'
<1> DEFINE row == [tenant |-> input.tenant, requester |-> actor, actions |-> input.actions, scope |-> input.scope,
                   status |-> "pending", decidedBy |-> Nobody]
<1>0. requests \in Seq(SupportAccessRequest) /\ Len(requests) < MaxRequest /\ MaxRequest \in Nat
  BY AccessAssumption DEF SupportInv, SupportTyped, requestSupportAccess
<1>1. row \in SupportAccessRequest /\ row.status = "pending"
  BY RequestInputAssumption DEF SupportAccessRequest
<1>2. requests' = Append(requests, row) /\ UNCHANGED <<grants, support, approving, revoking, links>>
  BY DEF requestSupportAccess, OnSupport
<1> HIDE DEF row
<1>3. /\ requests' \in Seq(SupportAccessRequest) /\ Len(requests') = Len(requests) + 1
      /\ DOMAIN requests = 1..Len(requests) /\ DOMAIN requests' = 1..(Len(requests) + 1)
      /\ \A r \in DOMAIN requests : requests'[r] = requests[r]
      /\ requests'[Len(requests) + 1] = row
  BY <1>0, <1>1, <1>2
<1>a. /\ DOMAIN requests \subseteq DOMAIN requests'
      /\ \A r \in DOMAIN requests' : r \in DOMAIN requests \/ requests'[r].status = "pending"
  BY <1>0, <1>1, <1>3
<1>4. SupportTyped'
  BY <1>0, <1>2, <1>3 DEF SupportInv, SupportTyped
<1>5. ApprovalsHoldTheLock'
  BY <1>2, <1>3, <1>a DEF SupportInv, ApprovalsHoldTheLock
<1>6. ApprovedByTheTenant'
  BY <1>2, <1>3, <1>a DEF SupportInv, ApprovedByTheTenant
<1>7. SessionsFollowRequests'
  BY <1>2, <1>3, <1>a DEF SupportInv, SessionsFollowRequests
<1> QED
  BY <1>4, <1>5, <1>6, <1>7 DEF SupportInv

\* Everything but the decided request's own rows is as it was.
LEMMA DecidingKeeps ==
    ASSUME SupportInv, LinksKept, NEW r \in DOMAIN requests, NEW row, Decided(r, row),
           row.status = "approved" => OfTheTenant(row.decidedBy, row, links),
           approving' \subseteq approving, \A a \in Link : <<a, r>> \notin approving',
           UNCHANGED <<grants, revoking>>,
           support' \in [1..MaxRequest -> SupportAccessSession],
           \A q \in 1..MaxRequest : q # r => support'[q] = support[q],
           support'[r].ending # "none" => row.status = "approved" /\ support'[r].actor = row.requester,
           support'[r].ending \in {"none", "expired"} => support'[r].left = 0
    PROVE  SupportInv'
<1>0. requests \in Seq(SupportAccessRequest) /\ Len(requests) <= MaxRequest /\ MaxRequest \in Nat
  BY AccessAssumption DEF SupportInv, SupportTyped
<1>1. /\ requests' \in Seq(SupportAccessRequest) /\ Len(requests') = Len(requests)
      /\ DOMAIN requests' = DOMAIN requests
      /\ requests'[r] = row /\ \A q \in DOMAIN requests : q # r => requests'[q] = requests[q]
  BY <1>0 DEF Decided
<1>2. SupportTyped'
  BY <1>0, <1>1 DEF SupportInv, SupportTyped
<1>3. ApprovalsHoldTheLock'
  <2> SUFFICES ASSUME NEW a \in Link, NEW q \in 1..MaxRequest, <<a, q>> \in approving'
               PROVE  /\ q \in DOMAIN requests' /\ requests'[q].status = "pending"
                      /\ OfTheTenant(a, requests'[q], links')
                      /\ \A o \in Link : <<o, q>> \in approving' => o = a
    BY DEF ApprovalsHoldTheLock
  <2>1. <<a, q>> \in approving /\ q # r
    OBVIOUS
  <2>2. /\ q \in DOMAIN requests /\ requests[q].status = "pending" /\ OfTheTenant(a, requests[q], links)
        /\ \A o \in Link : <<o, q>> \in approving => o = a
    BY <2>1 DEF SupportInv, ApprovalsHoldTheLock
  <2> QED
    BY <2>1, <2>2, <1>1, OfTheTenantStays
<1>4. ApprovedByTheTenant'
  BY <1>1, OfTheTenantStays DEF SupportInv, ApprovedByTheTenant
<1>5. SessionsFollowRequests'
  BY <1>1 DEF SupportInv, SessionsFollowRequests
<1> QED
  BY <1>2, <1>3, <1>4, <1>5 DEF SupportInv

\* The session that starts, if one starts.
LEMMA StartedSession ==
    ASSUME SupportTyped, NEW r \in DOMAIN requests
    PROVE  /\ r \in 1..MaxRequest
           /\ startSupportSessionWithin(r) \in [1..MaxRequest -> SupportAccessSession]
           /\ \A q \in 1..MaxRequest : q # r => startSupportSessionWithin(r)[q] = support[q]
           /\ \/ startSupportSessionWithin(r)[r] = support[r]
              \/ /\ startSupportSessionWithin(r)[r].ending = "running"
                 /\ startSupportSessionWithin(r)[r].actor = requests[r].requester
<1>0. requests[r] \in SupportAccessRequest /\ r \in 1..MaxRequest
  BY AccessAssumption DEF SupportTyped
<1>1. requests[r].requester \in Link
  BY <1>0 DEF SupportAccessRequest
<1>2. /\ SupportSession(r) \in SupportAccessSession
      /\ SupportSession(r).ending = "running" /\ SupportSession(r).actor = requests[r].requester
  <2>1. Duration \in 0..Duration
    BY AccessAssumption
  <2> QED
    BY <1>1, <2>1 DEF SupportSession, SupportAccessSession
<1> QED
  BY <1>0, <1>2 DEF startSupportSessionWithin, SupportTyped

\* Who may decide is of the tenant.
LEMMA DeciderIsOfTheTenant ==
    ASSUME NEW actor \in Link, NEW r, mayDecide(actor, r)
    PROVE  OfTheTenant(actor, requests[r], links) /\ requests[r].status = "pending" /\ Unlocked(r)
  BY DEF mayDecide, mayActTenantWide, Activated, OfTheTenant

\* Denying.
LEMMA DenialKeeps ==
    ASSUME SupportInv, NEW actor \in Link, NEW r \in DOMAIN requests, denySupportAccess(actor, r)
    PROVE  SupportInv'
<1> DEFINE row == [requests[r] EXCEPT !.status = "denied", !.decidedBy = actor]
<1>0. requests[r] \in SupportAccessRequest /\ r \in 1..MaxRequest
  BY AccessAssumption DEF SupportInv, SupportTyped
<1>1. Decided(r, row) /\ row.status = "denied"
  <2>1. row \in SupportAccessRequest /\ row.tenant = requests[r].tenant /\ row.requester = requests[r].requester
        /\ row.status = "denied"
    BY <1>0 DEF SupportAccessRequest
  <2>2. requests' = [requests EXCEPT ![r] = row]
    BY DEF denySupportAccess
  <2> QED
    BY <2>1, <2>2, DeciderIsOfTheTenant DEF Decided, denySupportAccess
<1> HIDE DEF row
<1>2. UNCHANGED <<grants, support, approving, revoking, links>> /\ LinksKept
  BY DEF denySupportAccess, OnSupport, LinksKept
<1>3. \A a \in Link : <<a, r>> \notin approving'
  BY <1>2, DeciderIsOfTheTenant DEF denySupportAccess, Unlocked
<1>4. support[r].ending = "none" /\ support[r].left = 0 /\ support \in [1..MaxRequest -> SupportAccessSession]
  BY <1>0, <1>1 DEF SupportInv, SupportTyped, SessionsFollowRequests, Decided
<1> QED
  BY <1>1, <1>2, <1>3, <1>4, DecidingKeeps

\* Beginning an approval takes the lock.
LEMMA BeginKeeps ==
    ASSUME SupportInv, NEW actor \in Link, NEW r \in DOMAIN requests, beginApproval(actor, r)
    PROVE  SupportInv'
<1>0. r \in 1..MaxRequest
  BY AccessAssumption DEF SupportInv, SupportTyped
<1>1. /\ OfTheTenant(actor, requests[r], links) /\ requests[r].status = "pending" /\ Unlocked(r)
      /\ UNCHANGED <<requests, support, revoking, links>>
      /\ approving' = approving \cup {<<actor, r>>} /\ grants' \subseteq grants
  BY DeciderIsOfTheTenant DEF beginApproval, OnSupport
<1>2. SupportTyped'
  BY <1>0, <1>1 DEF SupportInv, SupportTyped
<1>3. ApprovalsHoldTheLock'
  <2> SUFFICES ASSUME NEW a \in Link, NEW q \in 1..MaxRequest, <<a, q>> \in approving'
               PROVE  /\ q \in DOMAIN requests' /\ requests'[q].status = "pending"
                      /\ OfTheTenant(a, requests'[q], links')
                      /\ \A o \in Link : <<o, q>> \in approving' => o = a
    BY DEF ApprovalsHoldTheLock
  <2>1. CASE q = r
    <3>1. \A o \in Link : <<o, r>> \in approving' => o = actor
      BY <1>1 DEF Unlocked
    <3> QED
      BY <2>1, <3>1, <1>1
  <2>2. CASE q # r
    <3>1. \A o \in Link : <<o, q>> \in approving' => <<o, q>> \in approving
      BY <2>2, <1>1
    <3> QED
      BY <3>1, <1>1 DEF SupportInv, ApprovalsHoldTheLock
  <2> QED
    BY <2>1, <2>2
<1>4. ApprovedByTheTenant' /\ SessionsFollowRequests'
  BY <1>1 DEF SupportInv, ApprovedByTheTenant, SessionsFollowRequests
<1> QED
  BY <1>2, <1>3, <1>4 DEF SupportInv

\* The approval commits, or the triggers undo it.
LEMMA ApprovalKeeps ==
    ASSUME SupportInv, NEW actor \in Link, NEW r \in DOMAIN requests, approveSupportAccess(actor, r)
    PROVE  SupportInv'
<1> DEFINE row == [requests[r] EXCEPT !.status = "approved", !.decidedBy = actor]
<1>0. requests[r] \in SupportAccessRequest /\ r \in 1..MaxRequest /\ SupportTyped
  BY AccessAssumption DEF SupportInv, SupportTyped
<1>1. /\ <<actor, r>> \in approving /\ approving' = approving \ {<<actor, r>>}
      /\ UNCHANGED <<revoking, links>> /\ LinksKept
  BY DEF approveSupportAccess, OnSupport, LinksKept
<1>2. /\ requests[r].status = "pending" /\ OfTheTenant(actor, requests[r], links)
      /\ \A o \in Link : <<o, r>> \in approving => o = actor
  BY <1>0, <1>1 DEF SupportInv, ApprovalsHoldTheLock
<1>3. support[r].ending = "none" /\ support[r].left = 0
  BY <1>0, <1>2 DEF SupportInv, SessionsFollowRequests
<1>4. CASE requests[r].scope \in Unit => resolveAncestry(requests[r].tenant, requests[r].scope) # {}
  <2>1. /\ requests' = [requests EXCEPT ![r] = row] /\ support' = startSupportSessionWithin(r) /\ UNCHANGED grants
    BY <1>4 DEF approveSupportAccess
  <2>2. /\ row \in SupportAccessRequest /\ row.tenant = requests[r].tenant /\ row.requester = requests[r].requester
        /\ row.status = "approved" /\ row.decidedBy = actor
    BY <1>0 DEF SupportAccessRequest
  <2> HIDE DEF row
  <2>3. Decided(r, row) /\ OfTheTenant(row.decidedBy, row, links)
    BY <2>1, <2>2, <1>2 DEF Decided, OfTheTenant
  <2>4. \A a \in Link : <<a, r>> \notin approving'
    BY <1>1, <1>2
  <2>5. /\ support' \in [1..MaxRequest -> SupportAccessSession]
        /\ \A q \in 1..MaxRequest : q # r => support'[q] = support[q]
        /\ support'[r].ending # "none" => row.status = "approved" /\ support'[r].actor = row.requester
        /\ support'[r].ending \in {"none", "expired"} => support'[r].left = 0
    BY <2>1, <2>2, <1>0, <1>3, StartedSession
  <2>6. approving' \subseteq approving /\ UNCHANGED <<grants, revoking>>
    BY <1>1, <2>1
  <2> QED
    BY <1>1, <2>3, <2>4, <2>5, <2>6, DecidingKeeps
<1>5. CASE ~(requests[r].scope \in Unit => resolveAncestry(requests[r].tenant, requests[r].scope) # {})
  <2>1. grants' = grants \cup {<<actor, r>>} /\ UNCHANGED <<requests, support>>
    BY <1>5 DEF approveSupportAccess
  <2>2. SessionsFollowRequests'
    BY <2>1 DEF SupportInv, SessionsFollowRequests
  <2>3. support' \in [1..MaxRequest -> SupportAccessSession] /\ grants' \cup revoking' \subseteq Link \X (1..MaxRequest)
    BY <1>0, <1>1, <2>1 DEF SupportTyped
  <2> QED
    BY <1>1, <2>1, <2>2, <2>3, QuietRequests
<1> QED
  BY <1>4, <1>5

\* One row of support changes, of an approved request, or none.
LEMMA SessionRowKeeps ==
    ASSUME SupportInv, LinksKept, NEW r \in DOMAIN requests, NEW row \in SupportAccessSession,
           UNCHANGED <<requests, grants, approving>>, revoking' \subseteq Link \X (1..MaxRequest),
           support' = [support EXCEPT ![r] = row],
           requests[r].status = "approved", row.actor = requests[r].requester,
           row.ending \in {"none", "expired"} => row.left = 0
    PROVE  SupportInv'
<1>0. r \in 1..MaxRequest /\ support \in [1..MaxRequest -> SupportAccessSession] /\ grants \subseteq Link \X (1..MaxRequest)
  BY AccessAssumption DEF SupportInv, SupportTyped
<1>1. support' \in [1..MaxRequest -> SupportAccessSession]
  BY <1>0
<1>2. SessionsFollowRequests'
  BY <1>0 DEF SupportInv, SessionsFollowRequests
<1> QED
  BY <1>0, <1>1, <1>2, QuietRequests

\* Time passes for the sessions.
LEMMA SupportTick == ASSUME SupportInv, LinksKept, tickAccess PROVE SupportInv'
<1>0. support \in [1..MaxRequest -> SupportAccessSession] /\ SessionsFollowRequests
      /\ UNCHANGED <<requests, grants, approving, revoking>>
      /\ grants \cup revoking \subseteq Link \X (1..MaxRequest)
  BY DEF SupportInv, SupportTyped, tickAccess
<1>1. ASSUME NEW r \in 1..MaxRequest
      PROVE  /\ support'[r] \in SupportAccessSession
             /\ support'[r].ending = support[r].ending /\ support'[r].actor = support[r].actor
             /\ support[r].left = 0 => support'[r].left = 0
  <2>0. support[r] \in SupportAccessSession /\ r \in DOMAIN support
    BY <1>0
  <2>1. CASE support[r].left > 0
    <3>1. support'[r] = [support[r] EXCEPT !.left = support[r].left - 1]
      BY <2>0, <2>1 DEF tickAccess
    <3>2. support[r].left - 1 \in 0..Duration
      BY <2>0, <2>1, AccessAssumption DEF SupportAccessSession
    <3> QED
      BY <2>0, <2>1, <3>1, <3>2, AccessAssumption DEF SupportAccessSession
  <2>2. CASE ~(support[r].left > 0)
    BY <2>0, <2>2 DEF tickAccess
  <2> QED
    BY <2>1, <2>2
<1>2. support' \in [1..MaxRequest -> SupportAccessSession]
  <2>1. support' = [r \in 1..MaxRequest |-> support'[r]]
    BY <1>0 DEF tickAccess
  <2> QED
    BY <1>1, <2>1
<1>3. SessionsFollowRequests'
  BY <1>0, <1>1 DEF SessionsFollowRequests
<1> QED
  BY <1>0, <1>2, <1>3, QuietRequests

\* Every access step keeps the tables of support access in order.
LEMMA SupportStep == ASSUME SupportInv, LinksKept, AccessStep PROVE SupportInv'
<1>0. /\ support \in [1..MaxRequest -> SupportAccessSession] /\ SessionsFollowRequests
      /\ grants \cup revoking \subseteq Link \X (1..MaxRequest)
      /\ \A r \in DOMAIN requests : r \in 1..MaxRequest /\ requests[r] \in SupportAccessRequest
  BY AccessAssumption DEF SupportInv, SupportTyped
<1>q. ASSUME UNCHANGED <<requests, support, approving>>, grants' \cup revoking' \subseteq Link \X (1..MaxRequest)
      PROVE  SupportInv'
  <2>1. SessionsFollowRequests'
    BY <1>q, <1>0 DEF SessionsFollowRequests
  <2> QED
    BY <1>q, <1>0, <2>1, QuietRequests
<1>1. CASE UNCHANGED <<requests, support, approving, grants, revoking>>
  BY <1>1, <1>0, <1>q
<1>2. CASE OrganizationNext \/ ConnectionsNext \/ LinksNext(HasSession) \/ RolesNext \/ Observed
           \/ PolicyNext \/ UNCHANGED accessVars
  <2>1. CASE OrganizationNext
    BY <2>1, <1>1 DEF OrganizationNext, createOrganization, changeOrganizationStatus, createOrganizationUnit,
                      changeOrganizationUnitStatus
  <2>2. CASE ConnectionsNext
    BY <2>2, <1>1, ConnectionsAlone DEF OnConnections
  <2>3. CASE LinksNext(HasSession)
    <3>1. UNCHANGED <<requests, support, approving, grants, revoking>>
      BY <2>3 DEF LinksNext, provisionUserLink, activateUserLink, deactivateUserLink, relinkUserLink,
                  bootstrapIdentityOrigin, OnLinks
    <3> QED
      BY <3>1, <1>1
  <2>4. CASE RolesNext
    <3>1. OnBindings
      BY <2>4 DEF RolesNext, grantRole, changeRole, revokeRole, revokeRolesForUserLink
    <3> QED
      BY <3>1, <1>1 DEF OnBindings
  <2>5. CASE Observed
    BY <2>5, <1>1 DEF Observed, OnLinks
  <2>6. CASE PolicyNext
    BY <2>6, <1>1 DEF PolicyNext, decide, record, OnPolicy
  <2>7. CASE UNCHANGED accessVars
    BY <2>7, <1>1 DEF accessVars
  <2> QED
    BY <1>2, <2>1, <2>2, <2>3, <2>4, <2>5, <2>6, <2>7
<1>3. CASE tickAccess
  BY <1>3, SupportTick
<1>4. CASE SupportNext
  <2>1. ASSUME NEW actor \in Link, NEW input \in RequestInput, requestSupportAccess(actor, input) PROVE SupportInv'
    BY <2>1, FilingKeeps
  <2>2. ASSUME NEW actor \in Link, NEW r \in DOMAIN requests, stepUp(actor, r) PROVE SupportInv'
    <3>1. UNCHANGED <<requests, support, approving, revoking>> /\ grants' = grants \cup {<<actor, r>>}
      BY <2>2 DEF stepUp
    <3>2. <<actor, r>> \in Link \X (1..MaxRequest)
      BY <1>0
    <3> QED
      BY <3>1, <3>2, <1>0, <1>q
  <2>3. ASSUME NEW actor \in Link, NEW r \in DOMAIN requests, startSupportSession(actor, r) PROVE SupportInv'
    <3>1. /\ requests[r].status = "approved" /\ support[r] = NoSupport
          /\ support' = startSupportSessionWithin(r) /\ UNCHANGED <<requests, grants, approving, revoking>>
      BY <2>3 DEF startSupportSession
    <3>2. CASE support' = support
      BY <3>1, <3>2, <1>1
    <3>3. CASE support' = [support EXCEPT ![r] = SupportSession(r)]
      <4>1. /\ SupportSession(r) \in SupportAccessSession
            /\ SupportSession(r).ending = "running" /\ SupportSession(r).actor = requests[r].requester
        <5>1. requests[r].requester \in Link /\ Duration \in 0..Duration
          BY <1>0, AccessAssumption DEF SupportAccessRequest
        <5> QED
          BY <5>1 DEF SupportSession, SupportAccessSession
      <4>2. revoking' \subseteq Link \X (1..MaxRequest)
        BY <1>0, <3>1
      <4> QED
        BY <3>1, <3>3, <4>1, <4>2, SessionRowKeeps
    <3> QED
      BY <3>1, <3>2, <3>3 DEF startSupportSessionWithin
  <2>4. ASSUME NEW actor \in Link, NEW r \in DOMAIN requests, readRevocation(actor, r) PROVE SupportInv'
    <3>1. UNCHANGED <<requests, support, approving, grants>> /\ revoking' = revoking \cup {<<actor, r>>}
      BY <2>4 DEF readRevocation
    <3>2. <<actor, r>> \in Link \X (1..MaxRequest)
      BY <1>0
    <3> QED
      BY <3>1, <3>2, <1>0, <1>q
  <2>5. ASSUME NEW actor \in Link, NEW r \in DOMAIN requests, revokeSupportSession(actor, r) PROVE SupportInv'
    <3>1. /\ UNCHANGED <<requests, approving, grants>> /\ revoking' \subseteq revoking
          /\ support' = IF support[r].ending = "running" THEN [support EXCEPT ![r].ending = "revoked"] ELSE support
      BY <2>5 DEF revokeSupportSession
    <3>2. CASE support[r].ending = "running"
      <4> DEFINE row == [support[r] EXCEPT !.ending = "revoked"]
      <4>1. support[r] \in SupportAccessSession /\ requests[r].status = "approved" /\ support[r].actor = requests[r].requester
        BY <3>2, <1>0 DEF SessionsFollowRequests
      <4>2. row \in SupportAccessSession /\ row.actor = support[r].actor /\ row.ending = "revoked"
        BY <4>1 DEF SupportAccessSession
      <4>3. support' = [support EXCEPT ![r] = row] /\ revoking' \subseteq Link \X (1..MaxRequest)
        BY <3>1, <3>2, <1>0
      <4> HIDE DEF row
      <4> QED
        BY <3>1, <4>1, <4>2, <4>3, SessionRowKeeps
    <3>3. CASE support[r].ending # "running"
      BY <3>1, <3>3, <1>0, <1>q
    <3> QED
      BY <3>2, <3>3
  <2>6. ASSUME NEW r \in DOMAIN requests, expireDueSupportSessions(r) PROVE SupportInv'
    <3> DEFINE row == [support[r] EXCEPT !.ending = "expired"]
    <3>1. /\ UNCHANGED <<requests, approving, grants, revoking>> /\ support[r].ending = "running" /\ support[r].left = 0
          /\ support' = [support EXCEPT ![r] = row]
      BY <2>6 DEF expireDueSupportSessions
    <3>2. support[r] \in SupportAccessSession /\ requests[r].status = "approved" /\ support[r].actor = requests[r].requester
      BY <3>1, <1>0 DEF SessionsFollowRequests
    <3>3. row \in SupportAccessSession /\ row.actor = support[r].actor /\ row.left = 0
      BY <3>1, <3>2 DEF SupportAccessSession
    <3>4. revoking' \subseteq Link \X (1..MaxRequest)
      BY <3>1, <1>0
    <3> HIDE DEF row
    <3> QED
      BY <3>1, <3>2, <3>3, <3>4, SessionRowKeeps
  <2> QED
    BY <1>4, <2>1, <2>2, <2>3, <2>4, <2>5, <2>6, DenialKeeps, BeginKeeps, ApprovalKeeps DEF SupportNext
<1> QED
  BY <1>2, <1>3, <1>4 DEF AccessStep

--------------------------------------------------------------------------------
(* Policy decisions *)

\* A verdict under support access rests on a session row and on a role of the platform that
\* its person held when it was read; who the person is cannot change any more.
RestsOnSupport(v) ==
    v.request # 0 =>
        /\ v.answer = "allow" /\ v.request \in 1..MaxRequest /\ v.input.actor \in Link
        /\ links[v.input.actor].status # "none" /\ links[v.input.actor].home = Platform
        /\ \E b \in v.relied : /\ b.link = v.input.actor /\ b.scope = Platform
                               /\ b.role \in Catalog["platform.support.request"].roles

DecisionInv ==
    /\ \E S : decisions \in Seq(S)
    /\ IsFiniteSet(deciding) /\ Cardinality(deciding) + Len(decisions) <= MaxDecision
    /\ \A v \in deciding : RestsOnSupport(v)

\* What the engine reads has that form.
LEMMA VerdictsRest ==
    ASSUME IdentityInv, SupportInv, NEW i \in PolicyInput, NEW v \in Verdicts(i)
    PROVE  RestsOnSupport(v)
<1> DEFINE rs == {r \in DOMAIN requests : sessionCovers(r, i)}
<1>1. CASE v.request = 0
  BY <1>1 DEF RestsOnSupport
<1>2. CASE v.request # 0
  <2>0. Denied(i).request = 0 /\ AllowedByRole(i).request = 0
    BY DEF Denied, AllowedByRole, Verdict
  <2>1. /\ links[i.actor].home = Platform /\ SupportAuthority(i.actor) # {}
        /\ \E r \in rs : v = AllowedBySupport(i, r)
    BY <1>2, <2>0 DEF Verdicts
  <2>2. PICK r \in rs : v = AllowedBySupport(i, r)
    BY <2>1
  <2> DEFINE b == CHOOSE x \in SupportAuthority(i.actor) : TRUE
  <2>3. b \in SupportAuthority(i.actor)
    BY <2>1
  <2>4. /\ v.input = i /\ v.answer = "allow" /\ v.relied = {b} /\ v.request = r
    BY <2>2 DEF AllowedBySupport, Verdict
  <2> HIDE DEF b
  <2>5. /\ b \in bindings /\ b.link = i.actor /\ b.scope = Platform
        /\ b.role \in Catalog["platform.support.request"].roles
    BY <2>3 DEF SupportAuthority, Holds, coversPlatformAction
  <2>6. links[i.actor].status # "none"
    BY <2>5 DEF IdentityInv, Matches
  <2>7. r \in 1..MaxRequest
    BY AccessAssumption DEF SupportInv, SupportTyped
  <2>8. i.actor \in Link
    BY PolicyInputAssumption DEF IsPolicyInput
  <2> QED
    BY <2>1, <2>4, <2>5, <2>6, <2>7, <2>8 DEF RestsOnSupport
<1> QED
  BY <1>1, <1>2

\* A list with one more.
LEMMA AppendedList ==
    ASSUME NEW S, NEW s \in Seq(S), NEW v
    PROVE  /\ Append(s, v) \in Seq(S \cup {v}) /\ Len(Append(s, v)) = Len(s) + 1 /\ Len(s) \in Nat
           /\ DOMAIN Append(s, v) = 1..(Len(s) + 1) /\ DOMAIN s = 1..Len(s)
           /\ Append(s, v)[Len(s) + 1] = v
           /\ \A n \in DOMAIN s : Append(s, v)[n] = s[n]
<1>1. s \in Seq(S \cup {v}) /\ v \in S \cup {v}
  <2>1. s \in [1..Len(s) -> S] /\ Len(s) \in Nat
    OBVIOUS
  <2>2. s \in [1..Len(s) -> S \cup {v}]
    BY <2>1
  <2> QED
    BY <2>1, <2>2
<1> QED
  BY <1>1

\* Reading and recording keep the count and the form.
LEMMA DecisionStep ==
    ASSUME IdentityInv, SupportInv, DecisionInv, LinksKept, AccessStep
    PROVE  DecisionInv'
<1>0. PICK S : decisions \in Seq(S)
  BY DEF DecisionInv
<1>1. /\ IsFiniteSet(deciding) /\ Cardinality(deciding) + Len(decisions) <= MaxDecision
      /\ Cardinality(deciding) \in Nat /\ Len(decisions) \in Nat /\ MaxDecision \in Nat
  BY <1>0, FS_CardinalityType, AccessAssumption DEF DecisionInv
<1>2. ASSUME NEW v, RestsOnSupport(v) PROVE RestsOnSupport(v)'
  BY <1>2 DEF RestsOnSupport, LinksKept
<1>3. CASE UNCHANGED <<deciding, decisions>>
  BY <1>2, <1>3 DEF DecisionInv
<1>4. ASSUME NEW i \in PolicyInput, decide(i) PROVE DecisionInv'
  <2>1. PICK v \in Verdicts(i) : deciding' = deciding \cup {v}
    BY <1>4 DEF decide
  <2>2. UNCHANGED <<decisions, links>> /\ Cardinality(deciding) + Len(decisions) < MaxDecision
    BY <1>4 DEF decide, OnPolicy
  <2>3. IsFiniteSet(deciding') /\ Cardinality(deciding') \in {Cardinality(deciding), Cardinality(deciding) + 1}
    BY <2>1, <1>1, FS_AddElement
  <2>4. Cardinality(deciding') + Len(decisions') <= MaxDecision
    BY <2>2, <2>3, <1>1
  <2>5. \A w \in deciding' : RestsOnSupport(w)'
    BY <2>1, <1>2, VerdictsRest DEF DecisionInv
  <2> QED
    BY <2>2, <2>3, <2>4, <2>5, <1>0 DEF DecisionInv
<1>5. ASSUME NEW v \in deciding, record(v) PROVE DecisionInv'
  <2>1. /\ deciding' = deciding \ {v}
        /\ decisions' = IF StillStands(v) THEN Append(decisions, v) ELSE decisions
    BY <1>5 DEF record
  <2>2. IsFiniteSet(deciding') /\ Cardinality(deciding') = Cardinality(deciding) - 1
    BY <2>1, <1>1, FS_RemoveElement
  <2>3. decisions' \in Seq(S \cup {v}) \/ decisions' \in Seq(S)
    BY <2>1, <1>0, AppendedList
  <2>4. Len(decisions') \in {Len(decisions), Len(decisions) + 1}
    BY <2>1, <1>0, AppendedList
  <2>5. Cardinality(deciding') + Len(decisions') <= MaxDecision
    BY <2>2, <2>4, <1>1
  <2>6. \A w \in deciding' : RestsOnSupport(w)'
    BY <2>1, <1>2 DEF DecisionInv
  <2> QED
    BY <2>2, <2>3, <2>5, <2>6 DEF DecisionInv
<1>6. CASE PolicyNext
  BY <1>6, <1>4, <1>5 DEF PolicyNext
<1>7. CASE OrganizationNext
  BY <1>7, <1>3 DEF OrganizationNext, createOrganization, changeOrganizationStatus, createOrganizationUnit,
                    changeOrganizationUnitStatus
<1>8. CASE ConnectionsNext
  BY <1>8, <1>3, ConnectionsAlone DEF OnConnections
<1>9. CASE LinksNext(HasSession)
  <2>1. UNCHANGED <<deciding, decisions>>
    BY <1>9 DEF LinksNext, provisionUserLink, activateUserLink, deactivateUserLink, relinkUserLink,
                bootstrapIdentityOrigin, OnLinks
  <2> QED
    BY <2>1, <1>3
<1>10. CASE RolesNext
  <2>1. OnBindings
    BY <1>10 DEF RolesNext, grantRole, changeRole, revokeRole, revokeRolesForUserLink
  <2> QED
    BY <2>1, <1>3 DEF OnBindings
<1>11. CASE SupportNext
  <2>1. OnSupport
    BY <1>11 DEF SupportNext, requestSupportAccess, stepUp, denySupportAccess, beginApproval, approveSupportAccess,
                 startSupportSession, readRevocation, revokeSupportSession, expireDueSupportSessions
  <2> QED
    BY <2>1, <1>3 DEF OnSupport
<1>12. CASE tickAccess \/ Observed \/ UNCHANGED accessVars
  BY <1>12, <1>3 DEF tickAccess, Observed, OnLinks, accessVars
<1> QED
  BY <1>6, <1>7, <1>8, <1>9, <1>10, <1>11, <1>12 DEF AccessStep

\* What a step may not do to a session that ended: neither relabel it nor serve under it.
LEMMA EndedStays ==
    ASSUME IdentityInv, SupportInv, DecisionInv, AccessStep
    PROVE  EndingStands /\ EndedIsNotServed
<1>0. PICK S : decisions \in Seq(S)
  BY DEF DecisionInv
<1>1. ASSUME UNCHANGED support PROVE EndingStands
  BY <1>1 DEF EndingStands
<1>2. ASSUME UNCHANGED decisions PROVE EndedIsNotServed
  BY <1>2 DEF EndedIsNotServed
<1>3. CASE OrganizationNext
  BY <1>3, <1>1, <1>2 DEF OrganizationNext, createOrganization, changeOrganizationStatus, createOrganizationUnit,
                    changeOrganizationUnitStatus
<1>4. CASE ConnectionsNext
  BY <1>4, <1>1, <1>2, ConnectionsAlone DEF OnConnections
<1>5. CASE LinksNext(HasSession)
  <2>1. UNCHANGED <<support, decisions>>
    BY <1>5 DEF LinksNext, provisionUserLink, activateUserLink, deactivateUserLink, relinkUserLink,
                bootstrapIdentityOrigin, OnLinks
  <2> QED
    BY <2>1, <1>1, <1>2
<1>6. CASE RolesNext
  <2>1. OnBindings
    BY <1>6 DEF RolesNext, grantRole, changeRole, revokeRole, revokeRolesForUserLink
  <2> QED
    BY <2>1, <1>1, <1>2 DEF OnBindings
<1>7. CASE tickAccess
  <2>1. support \in [1..MaxRequest -> SupportAccessSession]
    BY DEF SupportInv, SupportTyped
  <2>2. ASSUME NEW r \in 1..MaxRequest PROVE support'[r].ending = support[r].ending
    <3>1. r \in DOMAIN support /\ support[r] \in SupportAccessSession
      BY <2>1
    <3> QED
      BY <1>7, <3>1 DEF tickAccess, SupportAccessSession
  <2> QED
    BY <1>7, <1>2, <2>2 DEF EndingStands, tickAccess
<1>8. CASE Observed \/ UNCHANGED accessVars
  BY <1>8, <1>1, <1>2 DEF Observed, OnLinks, accessVars
<1>9. CASE SupportNext
  <2>0. /\ support \in [1..MaxRequest -> SupportAccessSession] /\ SupportTyped
        /\ SessionsFollowRequests /\ ApprovalsHoldTheLock
        /\ \A r \in DOMAIN requests : r \in 1..MaxRequest
    BY AccessAssumption DEF SupportInv, SupportTyped
  <2>1. EndedIsNotServed
    <3>1. OnSupport
      BY <1>9 DEF SupportNext, requestSupportAccess, stepUp, denySupportAccess, beginApproval, approveSupportAccess,
                   startSupportSession, readRevocation, revokeSupportSession, expireDueSupportSessions
    <3> QED
      BY <3>1, <1>2 DEF OnSupport
  <2>2. ASSUME NEW r \in DOMAIN requests, support[r].ending \notin {"revoked", "expired"},
               \A q \in 1..MaxRequest : q # r => support'[q] = support[q]
        PROVE  EndingStands
    BY <2>2 DEF EndingStands
  <2>3. ASSUME NEW actor \in Link, NEW input \in RequestInput, requestSupportAccess(actor, input) PROVE EndingStands
    BY <2>3, <1>1 DEF requestSupportAccess
  <2>4. ASSUME NEW actor \in Link, NEW r \in DOMAIN requests,
               \/ stepUp(actor, r) \/ denySupportAccess(actor, r) \/ beginApproval(actor, r) \/ readRevocation(actor, r)
        PROVE  EndingStands
    BY <2>4, <1>1 DEF stepUp, denySupportAccess, beginApproval, readRevocation
  <2>5. ASSUME NEW actor \in Link, NEW r \in DOMAIN requests, approveSupportAccess(actor, r) PROVE EndingStands
    <3>1. <<actor, r>> \in approving /\ (support' = support \/ support' = startSupportSessionWithin(r))
      BY <2>5 DEF approveSupportAccess
    <3>2. support[r].ending = "none"
      BY <3>1, <2>0 DEF ApprovalsHoldTheLock, SessionsFollowRequests
    <3> QED
      BY <3>1, <3>2, <2>0, <2>2, <1>1, StartedSession
  <2>6. ASSUME NEW actor \in Link, NEW r \in DOMAIN requests, startSupportSession(actor, r) PROVE EndingStands
    <3>1. support[r] = NoSupport /\ support' = startSupportSessionWithin(r)
      BY <2>6 DEF startSupportSession
    <3>2. support[r].ending = "none"
      BY <3>1 DEF NoSupport
    <3> QED
      BY <3>1, <3>2, <2>0, <2>2, StartedSession
  <2>7. ASSUME NEW actor \in Link, NEW r \in DOMAIN requests, revokeSupportSession(actor, r) PROVE EndingStands
    <3>1. support' = IF support[r].ending = "running" THEN [support EXCEPT ![r].ending = "revoked"] ELSE support
      BY <2>7 DEF revokeSupportSession
    <3> QED
      BY <3>1, <2>0, <2>2, <1>1
  <2>8. ASSUME NEW r \in DOMAIN requests, expireDueSupportSessions(r) PROVE EndingStands
    BY <2>8, <2>0, <2>2 DEF expireDueSupportSessions
  <2> QED
    BY <1>9, <2>1, <2>3, <2>4, <2>5, <2>6, <2>7, <2>8 DEF SupportNext
<1>10. CASE PolicyNext
  <2>1. EndingStands
    BY <1>10, <1>1 DEF PolicyNext, decide, record, OnPolicy
  <2>2. ASSUME NEW i \in PolicyInput, decide(i) PROVE EndedIsNotServed
    BY <2>2, <1>2 DEF decide
  <2>3. ASSUME NEW v \in deciding, record(v), StillStands(v) PROVE EndedIsNotServed
    <3> SUFFICES ASSUME NEW n \in DOMAIN decisions' \ DOMAIN decisions, decisions'[n].request # 0
                 PROVE  /\ stillRunning(decisions'[n].request)
                        /\ holdsPlatformSupportAuthority(decisions'[n].input.actor)
      BY DEF EndedIsNotServed
    <3>1. decisions' = Append(decisions, v)
      BY <2>3 DEF record
    <3>2. decisions'[n] = v
      BY <3>1, <1>0, AppendedList
    <3>3. RestsOnSupport(v) /\ v.request # 0
      BY <3>2 DEF DecisionInv
    <3>4. /\ v.relied \subseteq bindings
          /\ support[v.request].ending # "revoked" /\ support[v.request].left > 0
          /\ Activated(v.input.actor)
      BY <2>3, <3>3 DEF StillStands, RestsOnSupport
    <3>5. stillRunning(v.request)
      <4>1. v.request \in 1..MaxRequest
        BY <3>3 DEF RestsOnSupport
      <4>2. support[v.request] \in SupportAccessSession /\ SessionsFollowRequests
        BY <4>1 DEF SupportInv, SupportTyped
      <4>3. support[v.request].ending \notin {"none", "expired"}
        BY <4>1, <4>2, <3>4 DEF SessionsFollowRequests
      <4> QED
        BY <4>2, <4>3, <3>4 DEF SupportAccessSession, stillRunning
    <3>6. holdsPlatformSupportAuthority(v.input.actor)
      BY <3>3, <3>4 DEF RestsOnSupport, holdsPlatformSupportAuthority, mayActPlatformWide, Holds, coversPlatformAction
    <3> QED
      BY <3>2, <3>5, <3>6
  <2>4. ASSUME NEW v \in deciding, record(v), ~StillStands(v) PROVE EndedIsNotServed
    BY <2>4, <1>2 DEF record
  <2> QED
    BY <1>10, <2>1, <2>2, <2>3, <2>4 DEF PolicyNext
<1> QED
  BY <1>3, <1>4, <1>5, <1>6, <1>7, <1>8, <1>9, <1>10 DEF AccessStep

--------------------------------------------------------------------------------
(* Signing in *)

BearerRequest ==
    [token : BearerToken, link : Link, connection : Connection, at : {"resolve", "classify", "establish", "afterRace"}]

LoginTyped == LoginTypeOK /\ bearing \in [Bearer -> BearerRequest \cup {Idle}]

\* A session names a login that succeeded, or none; a login that succeeded has its session.
Succeeded(t) == logins[t].status = "succeeded"
SessionsNameLogins ==
    \A s \in DOMAIN sessions : sessions[s].login # 0 =>
        sessions[s].login \in DOMAIN logins /\ Succeeded(sessions[s].login)
OneSessionPerLogin ==
    \A r, s \in DOMAIN sessions : sessions[r].login # 0 /\ sessions[r].login = sessions[s].login => r = s
LoginsHaveSessions ==
    \A t \in DOMAIN logins : Succeeded(t) => \E s \in DOMAIN sessions : sessions[s].login = t

OriginInv == SessionsNameLogins /\ OneSessionPerLogin /\ LoginsHaveSessions /\ OneSessionPerBearer
LoginInv == LoginTyped /\ OriginInv

\* What a step does to logins and sessions: it ends or begins none, or admits, or establishes.
SessionsStay ==
    /\ DOMAIN sessions' = DOMAIN sessions
    /\ \A s \in DOMAIN sessions : sessions'[s].login = sessions[s].login /\ sessions'[s].key = sessions[s].key
LoginsMove ==
    /\ DOMAIN logins \subseteq DOMAIN logins'
    /\ \A t \in DOMAIN logins' : Succeeded(t)' <=> t \in DOMAIN logins /\ Succeeded(t)
Quiet == LoginsMove /\ SessionsStay

Admits ==
    \E t \in DOMAIN logins, s \in Session :
        /\ ~Succeeded(t) /\ s.login = t /\ s.key = Nobody
        /\ DOMAIN logins' = DOMAIN logins
        /\ \A u \in DOMAIN logins : Succeeded(u)' <=> u = t \/ Succeeded(u)
        /\ sessions' = Append(sessions, s)

Establishes ==
    \E s \in Session :
        /\ s.login = 0 /\ KeyRows(s.key) = {}
        /\ UNCHANGED logins /\ sessions' = Append(sessions, s)

\* Each of the three keeps every session to its one origin.
LEMMA OriginStep ==
    ASSUME LoginInv, Quiet \/ Admits \/ Establishes
    PROVE  OriginInv'
<1>0. /\ sessions \in Seq(Session) /\ DOMAIN sessions = 1..Len(sessions) /\ Len(sessions) \in Nat
      /\ logins \in Seq(LoginTransaction) /\ DOMAIN logins = 1..Len(logins) /\ Len(logins) \in Nat
  BY DEF LoginInv, LoginTyped, LoginTypeOK
<1>i. SessionsNameLogins /\ OneSessionPerLogin /\ LoginsHaveSessions /\ OneSessionPerBearer
  BY DEF LoginInv, OriginInv
<1>a. ASSUME NEW s \in Session, sessions' = Append(sessions, s)
      PROVE  /\ DOMAIN sessions' = DOMAIN sessions \cup {Len(sessions) + 1}
             /\ Len(sessions) + 1 \notin DOMAIN sessions
             /\ sessions'[Len(sessions) + 1] = s
             /\ \A r \in DOMAIN sessions : sessions'[r] = sessions[r]
  BY <1>a, <1>0
<1>1. CASE Quiet
  <2>1. SessionsNameLogins' /\ OneSessionPerLogin'
    BY <1>1, <1>i DEF Quiet, LoginsMove, SessionsStay, SessionsNameLogins, OneSessionPerLogin
  <2>2. LoginsHaveSessions'
    BY <1>1, <1>i DEF Quiet, LoginsMove, SessionsStay, LoginsHaveSessions
  <2>3. OneSessionPerBearer'
    BY <1>1, <1>i DEF Quiet, SessionsStay, OneSessionPerBearer
  <2> QED
    BY <2>1, <2>2, <2>3 DEF OriginInv
<1>2. CASE Admits
  <2>1. PICK t \in DOMAIN logins, s \in Session :
          /\ ~Succeeded(t) /\ s.login = t /\ s.key = Nobody
          /\ DOMAIN logins' = DOMAIN logins
          /\ \A u \in DOMAIN logins : Succeeded(u)' <=> u = t \/ Succeeded(u)
          /\ sessions' = Append(sessions, s)
    BY <1>2 DEF Admits
  <2>2. /\ DOMAIN sessions' = DOMAIN sessions \cup {Len(sessions) + 1}
        /\ Len(sessions) + 1 \notin DOMAIN sessions
        /\ sessions'[Len(sessions) + 1] = s
        /\ \A r \in DOMAIN sessions : sessions'[r] = sessions[r]
    BY <2>1, <1>a
  <2>3. \A r \in DOMAIN sessions : sessions[r].login # t
    BY <2>1, <1>0, <1>i DEF SessionsNameLogins
  <2>4. SessionsNameLogins'
    BY <2>1, <2>2, <1>i DEF SessionsNameLogins
  <2>5. OneSessionPerLogin'
    BY <2>1, <2>2, <2>3, <1>i DEF OneSessionPerLogin
  <2>6. LoginsHaveSessions'
    BY <2>1, <2>2, <1>i DEF LoginsHaveSessions
  <2>7. OneSessionPerBearer'
    BY <2>1, <2>2, <1>i DEF OneSessionPerBearer
  <2> QED
    BY <2>4, <2>5, <2>6, <2>7 DEF OriginInv
<1>3. CASE Establishes
  <2>1. PICK s \in Session :
          /\ s.login = 0 /\ KeyRows(s.key) = {}
          /\ UNCHANGED logins /\ sessions' = Append(sessions, s)
    BY <1>3 DEF Establishes
  <2>2. /\ DOMAIN sessions' = DOMAIN sessions \cup {Len(sessions) + 1}
        /\ Len(sessions) + 1 \notin DOMAIN sessions
        /\ sessions'[Len(sessions) + 1] = s
        /\ \A r \in DOMAIN sessions : sessions'[r] = sessions[r]
    BY <2>1, <1>a
  <2>3. \A r \in DOMAIN sessions : sessions[r].key # s.key
    BY <2>1 DEF KeyRows
  <2>4. SessionsNameLogins'
    BY <2>1, <2>2, <1>i DEF SessionsNameLogins, Succeeded
  <2>5. OneSessionPerLogin'
    BY <2>1, <2>2, <1>i DEF OneSessionPerLogin
  <2>6. LoginsHaveSessions'
    BY <2>1, <2>2, <1>i DEF LoginsHaveSessions, Succeeded
  <2>7. OneSessionPerBearer'
    BY <2>1, <2>2, <2>3, <1>i DEF OneSessionPerBearer
  <2> QED
    BY <2>4, <2>5, <2>6, <2>7 DEF OriginInv
<1> QED
  BY <1>1, <1>2, <1>3

\* A login row is replaced: it moves on, and to success only when it admits.
LEMMA LoginReplaced ==
    ASSUME LoginTyped, NEW t \in DOMAIN logins, NEW status \in {"pending", "consuming", "succeeded", "failed"},
           logins' = [logins EXCEPT ![t].status = status]
    PROVE  /\ logins' \in Seq(LoginTransaction) /\ Len(logins') = Len(logins) /\ DOMAIN logins' = DOMAIN logins
           /\ logins'[t].status = status /\ \A u \in DOMAIN logins : u # t => logins'[u] = logins[u]
<1>0. logins \in Seq(LoginTransaction) /\ logins[t] \in LoginTransaction
  BY DEF LoginTyped, LoginTypeOK
<1> DEFINE row == [logins[t] EXCEPT !.status = status]
<1>1. row \in LoginTransaction /\ row.status = status
  BY <1>0 DEF LoginTransaction
<1>2. logins' = [logins EXCEPT ![t] = row]
  OBVIOUS
<1> HIDE DEF row
<1> QED
  BY <1>0, <1>1, <1>2

\* A refusal ends a login that was under way, and no other.
LEMMA FailureMoves ==
    ASSUME LoginTyped, NEW t \in DOMAIN logins,
           \/ logins' = failLoginTransactionWithin(t)
           \/ logins[t].status \in {"pending", "consuming"} /\ logins' = [logins EXCEPT ![t].status = "failed"]
           \/ logins[t].status = "pending" /\ logins' = [logins EXCEPT ![t].status = "consuming"]
    PROVE  LoginsMove /\ logins' \in Seq(LoginTransaction) /\ Len(logins') = Len(logins)
<1>0. logins \in Seq(LoginTransaction)
  BY DEF LoginTyped, LoginTypeOK
<1>1. CASE UNCHANGED logins
  BY <1>0, <1>1 DEF LoginsMove, Succeeded
<1>2. ASSUME NEW status \in {"failed", "consuming"}, logins[t].status # "succeeded",
             logins' = [logins EXCEPT ![t].status = status]
      PROVE  LoginsMove /\ logins' \in Seq(LoginTransaction) /\ Len(logins') = Len(logins)
  <2>1. /\ logins' \in Seq(LoginTransaction) /\ Len(logins') = Len(logins) /\ DOMAIN logins' = DOMAIN logins
        /\ logins'[t].status = status /\ \A u \in DOMAIN logins : u # t => logins'[u] = logins[u]
    BY <1>2, LoginReplaced
  <2> QED
    BY <1>2, <2>1 DEF LoginsMove, Succeeded
<1> QED
  BY <1>1, <1>2 DEF failLoginTransactionWithin

\* What the steps do to the tables of signing in.
LoginStep ==
    \/ CallbackNext \/ SessionNext \/ tickLogin
    \/ authenticated' \subseteq authenticated /\ UNCHANGED <<logins, callbacks, sessions, bearing>>

\* Whatever runs, signing in sees one of its own steps.
LEMMA LoginSteps == ASSUME [AdministrationNext]_vars PROVE LoginStep
<1> USE DEF LoginStep
<1>1. CASE UNCHANGED loginVars
  BY <1>1 DEF loginVars
<1>2. CASE CommandNext
  <2>1. UNCHANGED loginVars
    BY <1>2 DEF CommandNext, issueStepUp, beginCommand, runIdempotentAdminCommand, commandRolledBack,
                runUnkeyedCommand, OnAdmin
  <2> QED
    BY <2>1, <1>1
<1>3. CASE SettingsNext
  BY <1>3, <1>1 DEF SettingsNext, upsertDealershipSettings, replaceBusinessHours, setDealershipPolicy, OnAdmin
<1>4. CASE OutboxNext
  BY <1>4, <1>1 DEF OutboxNext, createStaffInvitation, revokeStaffInvitation, dispatchEvent, dispatchFails,
                    recordFailure, tickAdmin, OnOutbox, OnAdmin
<1>5. CASE UNCHANGED vars
  BY <1>5, <1>1 DEF vars
<1>6. CASE \E s \in authenticated, i \in PolicyInput : requireAction(s, i)
  BY <1>6 DEF requireAction
<1> QED
  BY <1>1, <1>2, <1>3, <1>4, <1>5, <1>6 DEF AdministrationNext

\* A new session of a link and a connection.
LEMMA NewSessionTyped ==
    ASSUME NEW l \in Link, NEW c \in Connection, NEW login \in 0..MaxLogin,
           NEW key \in {Nobody} \cup (BearerToken \X Link \X Connection)
    PROVE  /\ NewSession(l, c, login, key) \in Session
           /\ NewSession(l, c, login, key).login = login /\ NewSession(l, c, login, key).key = key
<1>1. SessionTtl \in 0..SessionTtl
  BY LoginAssumption
<1> QED
  BY <1>1 DEF NewSession, Session

\* The callback.
LEMMA CallbackSteps ==
    ASSUME LoginTyped, CallbackNext
    PROVE  LoginTyped' /\ (Quiet \/ Admits)
<1>0. /\ logins \in Seq(LoginTransaction) /\ Len(logins) <= MaxLogin /\ Len(logins) \in Nat
      /\ DOMAIN logins = 1..Len(logins) /\ DOMAIN logins \subseteq 1..MaxLogin
      /\ callbacks \in [1..MaxLogin -> {"none", "claimed", "refused", "done"}]
      /\ sessions \in Seq(Session) /\ Len(sessions) <= MaxSession /\ Len(sessions) \in Nat
      /\ DOMAIN sessions = 1..Len(sessions)
      /\ authenticated \subseteq DOMAIN sessions /\ MaxLogin \in Nat /\ MaxSession \in Nat
      /\ bearing \in [Bearer -> BearerRequest \cup {Idle}]
  BY LoginAssumption DEF LoginTyped, LoginTypeOK
<1>m. UNCHANGED logins => LoginsMove
  BY DEF LoginsMove, Succeeded
<1>s. UNCHANGED sessions => SessionsStay
  BY DEF SessionsStay
<1>1. CASE startLoginTransaction
  <2> DEFINE row == [status |-> "pending", left |-> LoginTtl]
  <2>1. row \in LoginTransaction /\ row.status = "pending"
    <3>1. LoginTtl \in 0..LoginTtl
      BY LoginAssumption
    <3> QED
      BY <3>1 DEF LoginTransaction
  <2>2. /\ Len(logins) < MaxLogin /\ logins' = Append(logins, row)
        /\ UNCHANGED <<callbacks, sessions, bearing, authenticated>>
    BY <1>1 DEF startLoginTransaction
  <2> HIDE DEF row
  <2>3. /\ logins' \in Seq(LoginTransaction) /\ Len(logins') = Len(logins) + 1
        /\ DOMAIN logins' = DOMAIN logins \cup {Len(logins) + 1}
        /\ \A t \in DOMAIN logins : logins'[t] = logins[t]
        /\ logins'[Len(logins) + 1] = row /\ Len(logins) + 1 \notin DOMAIN logins
    BY <1>0, <2>1, <2>2
  <2>4. LoginsMove
    BY <2>1, <2>3 DEF LoginsMove, Succeeded
  <2>5. LoginTyped'
    BY <1>0, <2>2, <2>3 DEF LoginTyped, LoginTypeOK
  <2> QED
    BY <2>2, <2>4, <2>5, <1>s DEF Quiet
<1>2. ASSUME NEW t \in DOMAIN logins,
             UNCHANGED <<sessions, bearing, authenticated>>,
             LoginsMove /\ logins' \in Seq(LoginTransaction) /\ Len(logins') = Len(logins),
             callbacks' = callbacks \/ \E at \in {"claimed", "refused", "done"} : callbacks' = [callbacks EXCEPT ![t] = at]
      PROVE  LoginTyped' /\ Quiet
  <2>1. callbacks' \in [1..MaxLogin -> {"none", "claimed", "refused", "done"}]
    BY <1>0, <1>2
  <2>2. LoginTyped'
    BY <1>0, <1>2, <2>1 DEF LoginTyped, LoginTypeOK
  <2> QED
    BY <1>2, <2>2, <1>s DEF Quiet
<1>3. ASSUME NEW t \in DOMAIN logins,
             \/ claimLoginTransaction(t) \/ claimRefused(t) \/ failLoginTransaction(t) \/ expireStaleLoginTransactions(t)
      PROVE  LoginTyped' /\ Quiet
  <2>1. LoginsMove /\ logins' \in Seq(LoginTransaction) /\ Len(logins') = Len(logins)
    BY <1>3, FailureMoves
       DEF claimLoginTransaction, claimRefused, failLoginTransaction, expireStaleLoginTransactions
  <2>2. UNCHANGED <<sessions, bearing, authenticated>>
    BY <1>3 DEF claimLoginTransaction, claimRefused, failLoginTransaction, expireStaleLoginTransactions
  <2>3. callbacks' = callbacks \/ \E at \in {"claimed", "refused", "done"} : callbacks' = [callbacks EXCEPT ![t] = at]
    BY <1>3 DEF claimLoginTransaction, claimRefused, failLoginTransaction, expireStaleLoginTransactions
  <2> QED
    BY <1>2, <2>1, <2>2, <2>3
<1>q. ASSUME NEW t \in DOMAIN logins, UNCHANGED <<logins, sessions, bearing, authenticated>>,
             \E at \in {"claimed", "refused", "done"} : callbacks' = [callbacks EXCEPT ![t] = at]
      PROVE  LoginTyped' /\ Quiet
  <2>1. LoginsMove /\ logins' \in Seq(LoginTransaction) /\ Len(logins') = Len(logins)
    BY <1>q, <1>0, <1>m
  <2> QED
    BY <1>q, <1>2, <2>1
<1>4. ASSUME NEW t \in DOMAIN logins, providerRefuses(t) \/ callbackStops(t) PROVE LoginTyped' /\ Quiet
  <2>1. UNCHANGED <<logins, sessions, bearing, authenticated>>
    BY <1>4 DEF providerRefuses, callbackStops
  <2>2. \E at \in {"claimed", "refused", "done"} : callbacks' = [callbacks EXCEPT ![t] = at]
    BY <1>4 DEF providerRefuses, callbackStops
  <2> QED
    BY <1>q, <2>1, <2>2
<1>5. ASSUME NEW t \in DOMAIN logins, NEW i \in Identity, admissionRefused(t, i) PROVE LoginTyped' /\ Quiet
  <2>1. UNCHANGED <<logins, sessions, bearing, authenticated>>
    BY <1>5 DEF admissionRefused
  <2>2. \E at \in {"claimed", "refused", "done"} : callbacks' = [callbacks EXCEPT ![t] = at]
    BY <1>5 DEF admissionRefused
  <2> QED
    BY <1>q, <2>1, <2>2
<1>6. ASSUME NEW t \in DOMAIN logins, NEW i \in Identity, admitLoginAndEstablishSession(t, i)
      PROVE  LoginTyped' /\ (Quiet \/ Admits)
  <2>0. Len(sessions) < MaxSession /\ UNCHANGED <<bearing, authenticated>>
    BY <1>6 DEF admitLoginAndEstablishSession
  <2>1. CASE ~succeedLoginTransactionWithin(t)
    <3>1. UNCHANGED <<logins, sessions>> /\ callbacks' = [callbacks EXCEPT ![t] = "refused"]
      BY <1>6, <2>1 DEF admitLoginAndEstablishSession
    <3>2. \E at \in {"claimed", "refused", "done"} : callbacks' = [callbacks EXCEPT ![t] = at]
      BY <3>1
    <3> QED
      BY <1>q, <2>0, <3>1, <3>2
  <2>2. CASE succeedLoginTransactionWithin(t)
    <3>1. PICK c \in admitConnection(i), l \in Link :
            /\ logins' = [logins EXCEPT ![t].status = "succeeded"]
            /\ sessions' = Append(sessions, NewSession(l, c, t, Nobody))
            /\ callbacks' = [callbacks EXCEPT ![t] = "done"]
      BY <1>6, <2>2 DEF admitLoginAndEstablishSession
    <3>2. c \in Connection /\ t \in 0..MaxLogin /\ t \in 1..MaxLogin
      BY <1>0 DEF admitConnection
    <3> DEFINE s == NewSession(l, c, t, Nobody)
    <3>3. s \in Session /\ s.login = t /\ s.key = Nobody
      BY <3>2, NewSessionTyped
    <3>4. /\ logins' \in Seq(LoginTransaction) /\ Len(logins') = Len(logins) /\ DOMAIN logins' = DOMAIN logins
          /\ logins'[t].status = "succeeded" /\ \A u \in DOMAIN logins : u # t => logins'[u] = logins[u]
      BY <3>1, LoginReplaced
    <3>5. Admits
      <4>1. ~Succeeded(t)
        BY <2>2 DEF Succeeded, succeedLoginTransactionWithin
      <4>2. \A u \in DOMAIN logins : Succeeded(u)' <=> u = t \/ Succeeded(u)
        BY <3>4 DEF Succeeded
      <4> HIDE DEF s
      <4>3. sessions' = Append(sessions, s)
        BY <3>1 DEF s
      <4> QED
        BY <3>3, <3>4, <4>1, <4>2, <4>3 DEF Admits
    <3> HIDE DEF s
    <3>6. /\ sessions' \in Seq(Session) /\ Len(sessions') = Len(sessions) + 1
          /\ DOMAIN sessions' = 1..(Len(sessions) + 1)
      BY <1>0, <3>1, <3>3 DEF s
    <3>7. callbacks' \in [1..MaxLogin -> {"none", "claimed", "refused", "done"}]
      BY <1>0, <3>1
    <3>8. LoginTyped'
      BY <1>0, <2>0, <3>4, <3>6, <3>7 DEF LoginTyped, LoginTypeOK
    <3> QED
      BY <3>5, <3>8
  <2> QED
    BY <2>1, <2>2
<1> QED
  BY <1>1, <1>3, <1>4, <1>5, <1>6 DEF CallbackNext

\* Sessions and bearer tokens.
LEMMA SessionSteps ==
    ASSUME LoginTyped, SessionNext
    PROVE  LoginTyped' /\ (Quiet \/ Establishes)
<1>0. /\ sessions \in Seq(Session) /\ Len(sessions) <= MaxSession /\ Len(sessions) \in Nat
      /\ DOMAIN sessions = 1..Len(sessions)
      /\ authenticated \subseteq DOMAIN sessions /\ MaxLogin \in Nat /\ MaxSession \in Nat
      /\ bearing \in [Bearer -> BearerRequest \cup {Idle}]
  BY LoginAssumption DEF LoginTyped, LoginTypeOK
<1>l. UNCHANGED <<logins, callbacks>>
  BY DEF SessionNext, authenticate, revokeSession, presentBearer, resolveBearerSession,
         classifyMissingBearerSession, establishBearerSession
<1>m. LoginsMove
  BY <1>l DEF LoginsMove, Succeeded
<1>q. ASSUME UNCHANGED sessions, authenticated' \subseteq DOMAIN sessions,
             bearing' \in [Bearer -> BearerRequest \cup {Idle}]
      PROVE  LoginTyped' /\ Quiet
  <2>1. LoginTyped'
    BY <1>q, <1>l DEF LoginTyped, LoginTypeOK
  <2> QED
    BY <1>q, <1>m, <2>1 DEF Quiet, SessionsStay
<1>1. ASSUME NEW s \in DOMAIN sessions, authenticate(s) PROVE LoginTyped' /\ Quiet
  <2>1. UNCHANGED <<sessions, bearing>> /\ authenticated' = authenticated \cup {s}
    BY <1>1 DEF authenticate
  <2> QED
    BY <1>0, <1>q, <2>1
<1>2. ASSUME NEW s \in DOMAIN sessions, revokeSession(s) PROVE LoginTyped' /\ Quiet
  <2> DEFINE row == [sessions[s] EXCEPT !.revoked = TRUE]
  <2>1. sessions' = [sessions EXCEPT ![s] = row] /\ UNCHANGED <<bearing, authenticated>>
    BY <1>2 DEF revokeSession
  <2>2. sessions[s] \in Session
    BY <1>0
  <2>3. row \in Session /\ row.login = sessions[s].login /\ row.key = sessions[s].key
    BY <2>2 DEF Session
  <2> HIDE DEF row
  <2>4. /\ sessions' \in Seq(Session) /\ Len(sessions') = Len(sessions) /\ DOMAIN sessions' = DOMAIN sessions
        /\ sessions'[s] = row /\ \A r \in DOMAIN sessions : r # s => sessions'[r] = sessions[r]
    BY <1>0, <2>1, <2>3
  <2>5. SessionsStay
    BY <2>3, <2>4 DEF SessionsStay
  <2>6. LoginTyped'
    BY <1>l, <2>1, <2>4 DEF LoginTyped, LoginTypeOK
  <2> QED
    BY <1>m, <2>5, <2>6 DEF Quiet
<1>3. ASSUME NEW p \in Bearer, NEW token \in BearerToken, NEW l \in Link, NEW c \in Connection,
             presentBearer(p, token, l, c)
      PROVE  LoginTyped' /\ Quiet
  <2> DEFINE b == [token |-> token, link |-> l, connection |-> c, at |-> "resolve"]
  <2>1. UNCHANGED <<sessions, authenticated>> /\ bearing' = [bearing EXCEPT ![p] = b]
    BY <1>3 DEF presentBearer
  <2>2. b \in BearerRequest
    BY DEF BearerRequest
  <2> HIDE DEF b
  <2>3. bearing' \in [Bearer -> BearerRequest \cup {Idle}]
    BY <1>0, <2>1, <2>2
  <2> QED
    BY <1>0, <1>q, <2>1, <2>3
<1>b. ASSUME NEW p \in Bearer, bearing[p].at # "idle", NEW at \in {"resolve", "classify", "establish", "afterRace"}
      PROVE  bearing[p] \in BearerRequest /\ [bearing[p] EXCEPT !.at = at] \in BearerRequest
  <2>1. bearing[p] \in BearerRequest
    BY <1>b, <1>0 DEF Idle
  <2> QED
    BY <2>1 DEF BearerRequest
<1>4. ASSUME NEW p \in Bearer, resolveBearerSession(p) PROVE LoginTyped' /\ Quiet
  <2> DEFINE live == Resolved(bearerSessionKey(bearing[p]))
  <2>1. /\ UNCHANGED sessions /\ authenticated' = authenticated \cup live
        /\ bearing[p].at \in {"resolve", "afterRace"}
        /\ bearing' = [bearing EXCEPT ![p] =
              IF live = {} /\ bearing[p].at = "resolve" THEN [bearing[p] EXCEPT !.at = "classify"] ELSE Idle]
    BY <1>4 DEF resolveBearerSession
  <2>2. live \subseteq DOMAIN sessions
    BY DEF Resolved, KeyRows
  <2>3. [bearing[p] EXCEPT !.at = "classify"] \in BearerRequest
    BY <2>1, <1>b
  <2> HIDE DEF live
  <2>4. bearing' \in [Bearer -> BearerRequest \cup {Idle}]
    BY <1>0, <2>1, <2>3
  <2> QED
    BY <1>0, <1>q, <2>1, <2>2, <2>4
<1>5. ASSUME NEW p \in Bearer, classifyMissingBearerSession(p) PROVE LoginTyped' /\ Quiet
  <2> DEFINE known == KeyRows(bearerSessionKey(bearing[p]))
  <2>1. /\ UNCHANGED <<sessions, authenticated>> /\ bearing[p].at = "classify"
        /\ bearing' = [bearing EXCEPT ![p] = IF known = {} THEN [bearing[p] EXCEPT !.at = "establish"] ELSE Idle]
    BY <1>5 DEF classifyMissingBearerSession
  <2>2. [bearing[p] EXCEPT !.at = "establish"] \in BearerRequest
    BY <2>1, <1>b
  <2> HIDE DEF known
  <2>3. bearing' \in [Bearer -> BearerRequest \cup {Idle}]
    BY <1>0, <2>1, <2>2
  <2> QED
    BY <1>0, <1>q, <2>1, <2>3
<1>6. ASSUME NEW p \in Bearer, establishBearerSession(p) PROVE LoginTyped' /\ (Quiet \/ Establishes)
  <2> DEFINE b == bearing[p]
  <2>0. b.at = "establish" /\ Len(sessions) < MaxSession
    BY <1>6 DEF establishBearerSession
  <2>1. b \in BearerRequest /\ [b EXCEPT !.at = "afterRace"] \in BearerRequest
    BY <2>0, <1>b
  <2>2. CASE mayEstablish(b)
    <3> DEFINE s == NewSession(b.link, b.connection, 0, bearerSessionKey(b))
    <3>1. /\ sessions' = Append(sessions, s) /\ authenticated' = authenticated \cup {Len(sessions) + 1}
          /\ bearing' = [bearing EXCEPT ![p] = Idle]
      BY <1>6, <2>2 DEF establishBearerSession
    <3>2. s \in Session /\ s.login = 0 /\ s.key = bearerSessionKey(b)
      <4>1. /\ b.link \in Link /\ b.connection \in Connection /\ 0 \in 0..MaxLogin
            /\ bearerSessionKey(b) \in BearerToken \X Link \X Connection
        BY <2>1, <1>0 DEF BearerRequest, bearerSessionKey
      <4> QED
        BY <4>1, NewSessionTyped
    <3>3. KeyRows(s.key) = {}
      BY <2>2, <3>2 DEF mayEstablish
    <3> HIDE DEF s
    <3>4. Establishes
      BY <3>1, <3>2, <3>3, <1>l DEF Establishes
    <3>5. /\ sessions' \in Seq(Session) /\ Len(sessions') = Len(sessions) + 1
          /\ DOMAIN sessions' = 1..(Len(sessions) + 1)
      BY <1>0, <3>1, <3>2
    <3>6. bearing' \in [Bearer -> BearerRequest \cup {Idle}]
      BY <1>0, <3>1
    <3>7. authenticated' \subseteq DOMAIN sessions' /\ Len(sessions') <= MaxSession
      BY <1>0, <2>0, <3>1, <3>5
    <3>8. LoginTyped'
      BY <1>l, <3>5, <3>6, <3>7 DEF LoginTyped, LoginTypeOK
    <3> QED
      BY <3>4, <3>8
  <2>3. CASE ~mayEstablish(b)
    <3>1. UNCHANGED <<sessions, authenticated>> /\ bearing' = [bearing EXCEPT ![p] = [b EXCEPT !.at = "afterRace"]]
      BY <1>6, <2>3 DEF establishBearerSession
    <3>2. bearing' \in [Bearer -> BearerRequest \cup {Idle}]
      BY <1>0, <2>1, <3>1
    <3> QED
      BY <1>0, <1>q, <3>1, <3>2
  <2> QED
    BY <2>2, <2>3
<1> QED
  BY <1>1, <1>2, <1>3, <1>4, <1>5, <1>6 DEF SessionNext

\* A function on 1..n is a sequence.
LEMMA FunctionIsSeq ==
    ASSUME NEW S, NEW n \in Nat, NEW f \in [1..n -> S]
    PROVE  f \in Seq(S) /\ Len(f) = n
  OBVIOUS

\* Time passes for logins and sessions.
LEMMA LoginTick == ASSUME LoginTyped, tickLogin PROVE LoginTyped' /\ Quiet
<1>0. /\ logins \in Seq(LoginTransaction) /\ Len(logins) <= MaxLogin /\ Len(logins) \in Nat
      /\ DOMAIN logins = 1..Len(logins)
      /\ sessions \in Seq(Session) /\ Len(sessions) <= MaxSession /\ Len(sessions) \in Nat
      /\ DOMAIN sessions = 1..Len(sessions) /\ authenticated \subseteq DOMAIN sessions
  BY DEF LoginTyped, LoginTypeOK
<1>1. ASSUME NEW t \in DOMAIN logins PROVE logins'[t] \in LoginTransaction /\ logins'[t].status = logins[t].status
  <2>0. logins[t] \in LoginTransaction
    BY <1>0
  <2>1. CASE logins[t].left > 0
    <3>1. logins'[t] = [logins[t] EXCEPT !.left = logins[t].left - 1]
      BY <2>1 DEF tickLogin
    <3>2. logins[t].left - 1 \in 0..LoginTtl
      BY <2>0, <2>1, LoginAssumption DEF LoginTransaction
    <3> QED
      BY <2>0, <3>1, <3>2 DEF LoginTransaction
  <2>2. CASE ~(logins[t].left > 0)
    BY <2>0, <2>2 DEF tickLogin
  <2> QED
    BY <2>1, <2>2
<1>2. ASSUME NEW s \in DOMAIN sessions
      PROVE  /\ sessions'[s] \in Session
             /\ sessions'[s].login = sessions[s].login /\ sessions'[s].key = sessions[s].key
  <2>0. sessions[s] \in Session
    BY <1>0
  <2>1. CASE sessions[s].left > 0
    <3>1. sessions'[s] = [sessions[s] EXCEPT !.left = sessions[s].left - 1]
      BY <2>1 DEF tickLogin
    <3>2. sessions[s].left - 1 \in 0..SessionTtl
      BY <2>0, <2>1, LoginAssumption DEF Session
    <3> QED
      BY <2>0, <3>1, <3>2 DEF Session
  <2>2. CASE ~(sessions[s].left > 0)
    BY <2>0, <2>2 DEF tickLogin
  <2> QED
    BY <2>1, <2>2
<1>3. logins' \in Seq(LoginTransaction) /\ Len(logins') = Len(logins) /\ DOMAIN logins' = DOMAIN logins
  <2>1. logins' = [t \in 1..Len(logins) |-> logins'[t]]
    BY <1>0 DEF tickLogin
  <2>2. logins' \in [1..Len(logins) -> LoginTransaction]
    BY <1>0, <1>1, <2>1
  <2>3. logins' \in Seq(LoginTransaction) /\ Len(logins') = Len(logins)
    BY <1>0, <2>2, FunctionIsSeq
  <2> QED
    BY <1>0, <2>2, <2>3
<1>4. sessions' \in Seq(Session) /\ Len(sessions') = Len(sessions) /\ DOMAIN sessions' = DOMAIN sessions
  <2>1. sessions' = [s \in 1..Len(sessions) |-> sessions'[s]]
    BY <1>0 DEF tickLogin
  <2>2. sessions' \in [1..Len(sessions) -> Session]
    BY <1>0, <1>2, <2>1
  <2>3. sessions' \in Seq(Session) /\ Len(sessions') = Len(sessions)
    BY <1>0, <2>2, FunctionIsSeq
  <2> QED
    BY <1>0, <2>2, <2>3
<1>5. UNCHANGED <<callbacks, bearing, authenticated>>
  BY DEF tickLogin
<1>6. LoginTyped'
  BY <1>0, <1>3, <1>4, <1>5 DEF LoginTyped, LoginTypeOK
<1> QED
  BY <1>1, <1>2, <1>3, <1>4, <1>6 DEF Quiet, LoginsMove, SessionsStay, Succeeded

\* Every step keeps signing in in order.
LEMMA LoginInvStep == ASSUME LoginInv, LoginStep PROVE LoginInv'
<1>0. LoginTyped
  BY DEF LoginInv
<1>1. ASSUME authenticated' \subseteq authenticated, UNCHANGED <<logins, callbacks, sessions, bearing>>
      PROVE  LoginTyped' /\ Quiet
  BY <1>0, <1>1 DEF LoginTyped, LoginTypeOK, Quiet, LoginsMove, SessionsStay, Succeeded
<1>2. LoginTyped' /\ (Quiet \/ Admits \/ Establishes)
  BY <1>0, <1>1, CallbackSteps, SessionSteps, LoginTick DEF LoginStep
<1> QED
  BY <1>2, OriginStep DEF LoginInv

--------------------------------------------------------------------------------
(* Commands, settings and invitations *)

\* What ran, under which key, and that the key's row is there.
RanTyped == ran \in Seq((Link \X (Key \cup {Nobody})) \X Command)
KeysAreStored == \A i \in DOMAIN ran : ran[i][1][2] # Nobody => keys[ran[i][1]] # Nobody

OfficeTyped ==
    /\ settings \in [Tenant -> 0..MaxVersion]
    /\ invitations \in Seq(StaffInvitation) /\ Len(invitations) <= MaxInvitation
    /\ tokens \subseteq Command
    /\ failures \in 0..MaxFailure

KeysTyped == keys \in [Link \X Key -> Command \cup {Nobody}]

CommandInv == RunningTyped /\ KeysTyped /\ RanTyped /\ KeysAreStored /\ CommandsRunOnce

\* A command takes effect under a key that was free, or under none.
LEMMA OneMoreRan ==
    ASSUME CommandInv, NEW actor \in Link, NEW key \in Key \cup {Nobody}, NEW c \in Command,
           ran' = Append(ran, <<<<actor, key>>, c>>), KeysTyped',
           \A k \in Link \X Key : keys[k] # Nobody => keys'[k] # Nobody,
           key # Nobody => keys[<<actor, key>>] = Nobody /\ keys'[<<actor, key>>] # Nobody
    PROVE  RanTyped' /\ KeysAreStored' /\ CommandsRunOnce'
<1> DEFINE e == <<<<actor, key>>, c>>
           n == Len(ran) + 1
<1>0. ran \in Seq((Link \X (Key \cup {Nobody})) \X Command) /\ e \in (Link \X (Key \cup {Nobody})) \X Command
  BY DEF CommandInv, RanTyped
<1>1. ran' = Append(ran, e)
  OBVIOUS
<1>e. e[1] = <<actor, key>> /\ e[1][2] = key
  OBVIOUS
<1> HIDE DEF e
<1>2. /\ ran' \in Seq((Link \X (Key \cup {Nobody})) \X Command)
      /\ DOMAIN ran' = DOMAIN ran \cup {n} /\ n \notin DOMAIN ran
      /\ ran'[n] = e /\ \A i \in DOMAIN ran : ran'[i] = ran[i]
  BY <1>0, <1>1
<1> HIDE DEF n
<1>3. ASSUME NEW i \in DOMAIN ran, ran[i][1][2] # Nobody
      PROVE  ran[i][1] \in Link \X Key /\ keys[ran[i][1]] # Nobody
  <2>1. ran[i] \in (Link \X (Key \cup {Nobody})) \X Command
    BY <1>0
  <2>2. PICK p \in Link \X (Key \cup {Nobody}) : p = ran[i][1]
    BY <2>1
  <2>3. p \in Link \X Key
    BY <1>3, <2>2
  <2> QED
    BY <1>3, <2>2, <2>3 DEF CommandInv, KeysAreStored
<1>4. KeysAreStored'
  <2>1. ASSUME NEW i \in DOMAIN ran, ran'[i][1][2] # Nobody PROVE keys'[ran'[i][1]] # Nobody
    BY <1>2, <1>3, <2>1
  <2>2. ASSUME ran'[n][1][2] # Nobody PROVE keys'[ran'[n][1]] # Nobody
    BY <1>2, <1>e, <2>2
  <2> QED
    BY <1>2, <2>1, <2>2 DEF KeysAreStored
<1>5. \A i \in DOMAIN ran : ran[i][1][2] # Nobody => ran[i][1] # <<actor, key>>
  BY <1>3
<1>6. CommandsRunOnce'
  <2> SUFFICES ASSUME NEW i \in DOMAIN ran', NEW j \in DOMAIN ran', ran'[i][1] = ran'[j][1], ran'[i][1][2] # Nobody
               PROVE  i = j
    BY DEF CommandsRunOnce
  <2>1. CASE i \in DOMAIN ran /\ j \in DOMAIN ran
    BY <2>1, <1>2 DEF CommandInv, CommandsRunOnce
  <2>2. CASE i = n /\ j \in DOMAIN ran
    BY <2>2, <1>2, <1>5, <1>e
  <2>3. CASE j = n /\ i \in DOMAIN ran
    BY <2>3, <1>2, <1>5, <1>e
  <2> QED
    BY <2>1, <2>2, <2>3, <1>2
<1> QED
  BY <1>2, <1>4, <1>6 DEF RanTyped

\* What is running is a command somebody sent, and its key is typed.
LEMMA CommandStep == ASSUME CommandInv, [AdministrationNext]_vars PROVE CommandInv'
<1>1. CASE UNCHANGED <<keys, running, ran>>
  BY <1>1 DEF CommandInv, RunningTyped, KeysTyped, RanTyped, KeysAreStored, CommandsRunOnce
<1>r. ASSUME NEW k \in Clerk, NEW row \in [actor : Link, key : Key, command : Command] \cup {NoCommand},
             running' = [running EXCEPT ![k] = row]
      PROVE  RunningTyped'
  BY <1>r DEF CommandInv, RunningTyped
<1>2. ASSUME NEW k \in Clerk, NEW actor \in Link, NEW key \in Key, NEW c \in Command, beginCommand(k, actor, key, c)
      PROVE  CommandInv'
  <2> DEFINE row == [actor |-> actor, key |-> key, command |-> c]
  <2>1. UNCHANGED <<keys, ran>> /\ running' = [running EXCEPT ![k] = row]
    BY <1>2 DEF beginCommand
  <2>2. RunningTyped'
    BY <1>r, <2>1
  <2> QED
    BY <2>1, <2>2 DEF CommandInv, KeysTyped, RanTyped, KeysAreStored, CommandsRunOnce
<1>3. ASSUME NEW k \in Clerk, commandRolledBack(k) PROVE CommandInv'
  <2>1. UNCHANGED <<keys, ran>> /\ running' = [running EXCEPT ![k] = NoCommand]
    BY <1>3 DEF commandRolledBack
  <2>2. RunningTyped'
    BY <1>r, <2>1
  <2> QED
    BY <2>1, <2>2 DEF CommandInv, KeysTyped, RanTyped, KeysAreStored, CommandsRunOnce
<1>4. ASSUME NEW k \in Clerk, runIdempotentAdminCommand(k) PROVE CommandInv'
  <2>1. PICK actor \in Link, key \in Key, c \in Command :
          actor = running[k].actor /\ key = running[k].key /\ c = running[k].command
    <3>1. running[k] \in [actor : Link, key : Key, command : Command]
      BY <1>4 DEF CommandInv, RunningTyped, runIdempotentAdminCommand
    <3> QED
      BY <3>1
  <2>2. /\ keys[<<actor, key>>] = Nobody /\ keys' = [keys EXCEPT ![<<actor, key>>] = c]
        /\ ran' = Append(ran, <<<<actor, key>>, c>>)
        /\ running' = [running EXCEPT ![k] = NoCommand]
    BY <1>4, <2>1 DEF runIdempotentAdminCommand, mayStoreKey
  <2>3. RunningTyped'
    BY <1>r, <2>2
  <2>4. /\ KeysTyped' /\ keys'[<<actor, key>>] = c /\ c # Nobody /\ key # Nobody
        /\ \A q \in Link \X Key : keys[q] # Nobody => keys'[q] # Nobody
    BY <2>2, CommandAssumption DEF CommandInv, KeysTyped
  <2>5. RanTyped' /\ KeysAreStored' /\ CommandsRunOnce'
    BY <2>2, <2>4, OneMoreRan
  <2> QED
    BY <2>3, <2>4, <2>5 DEF CommandInv
<1>5. ASSUME NEW actor \in Link, NEW c \in Command, runUnkeyedCommand(actor, c) PROVE CommandInv'
  <2>1. UNCHANGED <<keys, running>> /\ ran' = Append(ran, <<<<actor, Nobody>>, c>>)
    BY <1>5 DEF runUnkeyedCommand
  <2>2. KeysTyped' /\ RunningTyped'
    BY <2>1 DEF CommandInv, KeysTyped, RunningTyped
  <2>3. \A q \in Link \X Key : keys[q] # Nobody => keys'[q] # Nobody
    BY <2>1
  <2>4. RanTyped' /\ KeysAreStored' /\ CommandsRunOnce'
    BY <2>1, <2>2, <2>3, OneMoreRan
  <2> QED
    BY <2>2, <2>4 DEF CommandInv
<1>6. CASE CommandNext
  <2>1. ASSUME NEW c \in Command, issueStepUp(c) PROVE CommandInv'
    BY <2>1, <1>1 DEF issueStepUp
  <2> QED
    BY <1>6, <2>1, <1>2, <1>3, <1>4, <1>5 DEF CommandNext
<1>7. CASE SettingsNext
  BY <1>7, <1>1 DEF SettingsNext, upsertDealershipSettings, replaceBusinessHours, setDealershipPolicy
<1>8. CASE OutboxNext
  BY <1>8, <1>1 DEF OutboxNext, createStaffInvitation, revokeStaffInvitation, dispatchEvent, dispatchFails,
                    recordFailure, tickAdmin, OnOutbox
<1>9. CASE UNCHANGED adminVars
  BY <1>9, <1>1 DEF adminVars
<1> QED
  BY <1>6, <1>7, <1>8, <1>9 DEF AdministrationNext, vars

\* One invitation is replaced by a typed one.
LEMMA InvitationReplaced ==
    ASSUME OfficeTyped, NEW n \in DOMAIN invitations, NEW row \in StaffInvitation,
           invitations' = [invitations EXCEPT ![n] = row]
    PROVE  invitations' \in Seq(StaffInvitation) /\ Len(invitations') <= MaxInvitation
  BY DEF OfficeTyped

\* Settings, invitations and tokens stay in their types.
LEMMA OfficeStep == ASSUME OfficeTyped, RunningTyped, [AdministrationNext]_vars PROVE OfficeTyped'
<1>0. /\ settings \in [Tenant -> 0..MaxVersion]
      /\ invitations \in Seq(StaffInvitation) /\ Len(invitations) <= MaxInvitation /\ Len(invitations) \in Nat
      /\ DOMAIN invitations = 1..Len(invitations)
      /\ tokens \subseteq Command /\ failures \in 0..MaxFailure
      /\ MaxVersion \in Nat /\ MaxInvitation \in Nat /\ MaxFailure \in Nat
  BY CommandAssumption DEF OfficeTyped
<1>1. CASE UNCHANGED <<settings, invitations, failures>> /\ tokens' \subseteq Command
  BY <1>1 DEF OfficeTyped
<1>2. CASE CommandNext
  <2>1. ASSUME NEW c \in Command, issueStepUp(c) PROVE OfficeTyped'
    BY <2>1, <1>0, <1>1 DEF issueStepUp
  <2>2. ASSUME NEW actor, NEW c, commandWork(actor, c) PROVE tokens' \subseteq Command
    <3>1. tokens' \subseteq tokens
      BY <2>2 DEF commandWork, createUnitCommand, grantRoleCommand, revokeRoleCommand, deactivateCommand, spendStepUp
    <3> QED
      BY <3>1, <1>0
  <2>3. ASSUME NEW k \in Clerk, runIdempotentAdminCommand(k) PROVE OfficeTyped'
    <3>1. commandWork(running[k].actor, running[k].command) /\ UNCHANGED <<settings, invitations, failures>>
      BY <2>3 DEF runIdempotentAdminCommand
    <3> QED
      BY <3>1, <2>2, <1>1
  <2>4. ASSUME NEW actor \in Link, NEW c \in Command, runUnkeyedCommand(actor, c) PROVE OfficeTyped'
    <3>1. commandWork(actor, c) /\ UNCHANGED <<settings, invitations, failures>>
      BY <2>4 DEF runUnkeyedCommand
    <3> QED
      BY <3>1, <2>2, <1>1
  <2>5. ASSUME NEW k \in Clerk, commandRolledBack(k) PROVE OfficeTyped'
    BY <2>5, <1>0, <1>1 DEF commandRolledBack
  <2>6. ASSUME NEW k \in Clerk, NEW actor \in Link, NEW key \in Key, NEW c \in Command, beginCommand(k, actor, key, c)
        PROVE  OfficeTyped'
    BY <2>6, <1>0, <1>1 DEF beginCommand
  <2> QED
    BY <1>2, <2>1, <2>3, <2>4, <2>5, <2>6 DEF CommandNext
<1>3. CASE SettingsNext
  <2>1. ASSUME NEW t \in Tenant, NEW expected \in 0..MaxVersion, upsertDealershipSettings(t, expected) PROVE OfficeTyped'
    <3>1. /\ settings[t] = expected /\ expected < MaxVersion /\ settings' = [settings EXCEPT ![t] = settings[t] + 1]
          /\ UNCHANGED <<invitations, tokens, failures>>
      BY <2>1 DEF upsertDealershipSettings
    <3>2. settings[t] + 1 \in 0..MaxVersion
      BY <3>1, <1>0
    <3> QED
      BY <3>1, <3>2, <1>0 DEF OfficeTyped
  <2>2. ASSUME NEW t \in Tenant, NEW days, replaceBusinessHours(t, days) PROVE OfficeTyped'
    BY <2>2, <1>0, <1>1 DEF replaceBusinessHours
  <2>3. ASSUME NEW t \in Tenant, NEW key, NEW value, setDealershipPolicy(t, key, value) PROVE OfficeTyped'
    BY <2>3, <1>0, <1>1 DEF setDealershipPolicy
  <2> QED
    BY <1>3, <2>1, <2>2, <2>3 DEF SettingsNext
<1>4. CASE OutboxNext
  <2>i. ASSUME invitations' \in Seq(StaffInvitation) /\ Len(invitations') <= MaxInvitation,
               UNCHANGED <<settings, tokens, failures>>
        PROVE  OfficeTyped'
    BY <2>i, <1>0 DEF OfficeTyped
  <2>1. ASSUME NEW email \in Email, NEW s \in Tenant \cup Unit, createStaffInvitation(email, s) PROVE OfficeTyped'
    <3> DEFINE row == [email |-> email, scope |-> s, status |-> "pending", delivered |-> FALSE, attempts |-> 0, wait |-> 0]
    <3>1. row \in StaffInvitation
      BY DEF StaffInvitation
    <3>2. Len(invitations) < MaxInvitation /\ invitations' = Append(invitations, row) /\ UNCHANGED <<settings, tokens, failures>>
      BY <2>1 DEF createStaffInvitation
    <3> HIDE DEF row
    <3>3. invitations' \in Seq(StaffInvitation) /\ Len(invitations') <= MaxInvitation
      BY <3>1, <3>2, <1>0
    <3> QED
      BY <2>i, <3>2, <3>3
  <2>2. ASSUME NEW n \in DOMAIN invitations, revokeStaffInvitation(n) PROVE OfficeTyped'
    <3> DEFINE row == [invitations[n] EXCEPT !.status = "revoked"]
    <3>1. invitations[n] \in StaffInvitation
      BY <1>0
    <3>2. row \in StaffInvitation
      BY <3>1 DEF StaffInvitation
    <3>3. invitations' = [invitations EXCEPT ![n] = row] /\ UNCHANGED <<settings, tokens, failures>>
      BY <2>2 DEF revokeStaffInvitation
    <3> HIDE DEF row
    <3> QED
      BY <3>2, <3>3, <2>i, InvitationReplaced
  <2>3. ASSUME NEW n \in DOMAIN invitations, dispatchEvent(n) PROVE OfficeTyped'
    <3> DEFINE row == [invitations[n] EXCEPT !.delivered = TRUE, !.attempts = invitations[n].attempts + 1]
    <3>1. invitations[n] \in StaffInvitation
      BY <1>0
    <3>2. row \in StaffInvitation
      <4>1. invitations[n].attempts + 1 \in Nat
        BY <3>1 DEF StaffInvitation
      <4> QED
        BY <3>1, <4>1 DEF StaffInvitation
    <3>3. invitations' = [invitations EXCEPT ![n] = row] /\ UNCHANGED <<settings, tokens, failures>>
      BY <2>3 DEF dispatchEvent, OnOutbox
    <3> HIDE DEF row
    <3> QED
      BY <3>2, <3>3, <2>i, InvitationReplaced
  <2>4. ASSUME NEW n \in DOMAIN invitations, dispatchFails(n) PROVE OfficeTyped'
    <3>1. failures < MaxFailure /\ failures' = failures + 1 /\ UNCHANGED <<settings, tokens, invitations>>
      BY <2>4 DEF dispatchFails, OnOutbox
    <3> QED
      BY <3>1, <1>0 DEF OfficeTyped
  <2>5. ASSUME NEW n \in DOMAIN invitations, recordFailure(n) PROVE OfficeTyped'
    <3> DEFINE row == [invitations[n] EXCEPT !.attempts = invitations[n].attempts + 1,
                                             !.wait = backoff(invitations[n].attempts)]
    <3>1. invitations[n] \in StaffInvitation
      BY <1>0
    <3>2. row \in StaffInvitation
      <4>1. invitations[n].attempts + 1 \in Nat /\ backoff(invitations[n].attempts) \in Nat
        BY <3>1 DEF StaffInvitation, backoff
      <4> QED
        BY <3>1, <4>1 DEF StaffInvitation
    <3>3. /\ invitations' = invitations \/ invitations' = [invitations EXCEPT ![n] = row]
          /\ UNCHANGED <<settings, tokens, failures>>
      BY <2>5 DEF recordFailure, OnOutbox
    <3> HIDE DEF row
    <3> QED
      BY <3>2, <3>3, <1>0, <2>i, InvitationReplaced
  <2>6. CASE tickAdmin
    <3>1. ASSUME NEW n \in DOMAIN invitations PROVE invitations'[n] \in StaffInvitation
      <4>1. invitations[n] \in StaffInvitation
        BY <1>0
      <4>2. CASE invitations[n].wait > 0
        <5>1. invitations'[n] = [invitations[n] EXCEPT !.wait = invitations[n].wait - 1]
          BY <2>6, <4>2 DEF tickAdmin
        <5>2. invitations[n].wait - 1 \in Nat
          BY <4>1, <4>2 DEF StaffInvitation
        <5> QED
          BY <4>1, <5>1, <5>2 DEF StaffInvitation
      <4>3. CASE ~(invitations[n].wait > 0)
        BY <2>6, <4>1, <4>3 DEF tickAdmin
      <4> QED
        BY <4>2, <4>3
    <3>2. invitations' = [n \in 1..Len(invitations) |-> invitations'[n]]
      BY <2>6, <1>0 DEF tickAdmin
    <3>3. invitations' \in [1..Len(invitations) -> StaffInvitation]
      BY <1>0, <3>1, <3>2
    <3>4. invitations' \in Seq(StaffInvitation) /\ Len(invitations') = Len(invitations)
      BY <1>0, <3>3, FunctionIsSeq
    <3>5. UNCHANGED <<settings, tokens, failures>>
      BY <2>6 DEF tickAdmin, OnOutbox
    <3> QED
      BY <1>0, <2>i, <3>4, <3>5
  <2> QED
    BY <1>4, <2>1, <2>2, <2>3, <2>4, <2>5, <2>6 DEF OutboxNext
<1>5. CASE UNCHANGED adminVars
  BY <1>5, <1>0, <1>1 DEF adminVars
<1> QED
  BY <1>2, <1>3, <1>4, <1>5 DEF AdministrationNext, vars

--------------------------------------------------------------------------------
(* What follows *)

Inv == IdentityInv /\ SupportInv /\ DecisionInv /\ LoginInv /\ CommandInv /\ OfficeTyped

\* An empty database is in order.
LEMMA InvInit == ASSUME AdministrationInit PROVE Inv
<1> USE DEF AdministrationInit
<1>1. IdentityInv
  BY DEF IdentityInv, IdentityTyped, OneActive, BoundAtHome, NoLink, NoConnection
<1>2. SupportInv
  <2>1. NoSupport \in SupportAccessSession
    <3>1. 0 \in 0..Duration
      BY AccessAssumption
    <3> QED
      BY <3>1 DEF NoSupport, SupportAccessSession
  <2>2. SupportTyped
    BY <2>1, AccessAssumption DEF SupportTyped
  <2> QED
    BY <2>2 DEF SupportInv, ApprovalsHoldTheLock, ApprovedByTheTenant, SessionsFollowRequests, NoSupport
<1>3. DecisionInv
  <2>1. decisions \in Seq({}) /\ Len(decisions) = 0
    OBVIOUS
  <2>2. IsFiniteSet(deciding) /\ Cardinality(deciding) = 0
    BY FS_EmptySet
  <2> QED
    BY <2>1, <2>2, AccessAssumption DEF DecisionInv
<1>4. LoginInv
  <2>1. LoginTyped
    BY LoginAssumption DEF LoginTyped, LoginTypeOK
  <2> QED
    BY <2>1 DEF LoginInv, OriginInv, SessionsNameLogins, OneSessionPerLogin, LoginsHaveSessions, OneSessionPerBearer
<1>5. CommandInv
  BY DEF CommandInv, RunningTyped, KeysTyped, RanTyped, KeysAreStored, CommandsRunOnce
<1>6. OfficeTyped
  BY CommandAssumption DEF OfficeTyped
<1> QED
  BY <1>1, <1>2, <1>3, <1>4, <1>5, <1>6 DEF Inv

\* Every step keeps all of it.
LEMMA InvStep == ASSUME Inv, [AdministrationNext]_vars PROVE Inv' /\ AccessStep
<1>1. AccessStep
  BY AccessSteps DEF Inv, CommandInv
<1>2. IdentityInv' /\ LinksKept
  BY <1>1, IdentityStep DEF Inv
<1>3. SupportInv' /\ DecisionInv'
  BY <1>1, <1>2, SupportStep, DecisionStep DEF Inv
<1>4. LoginInv'
  BY LoginSteps, LoginInvStep DEF Inv
<1>5. CommandInv' /\ OfficeTyped'
  BY CommandStep, OfficeStep DEF Inv, CommandInv
<1> QED
  BY <1>1, <1>2, <1>3, <1>4, <1>5 DEF Inv

\* The inductive invariant of access, login and administration.
THEOREM AccessInvariant == AdministrationSpec => []Inv
<1>1. AdministrationInit => Inv
  BY InvInit
<1>2. Inv /\ [AdministrationNext]_vars => Inv'
  BY InvStep
<1> QED
  BY <1>1, <1>2, PTL DEF AdministrationSpec

\* The tables stay well formed through every mutation and bootstrap: rows in their types,
\* roles where they and their links belong, links bound at home with one active connection
\* per home, and support sessions only under approval by the tenant itself.
THEOREM AccessStaysWellFormed == AdministrationSpec => []AccessIsWellFormed
<1>1. ASSUME Inv PROVE AccessIsWellFormed
  <2>0. IdentityInv /\ SupportInv /\ DecisionInv /\ LoginInv /\ CommandInv /\ OfficeTyped
    BY <1>1 DEF Inv
  <2>1. Len(decisions) <= MaxDecision
    <3>1. PICK S : decisions \in Seq(S)
      BY <2>0 DEF DecisionInv
    <3>2. Cardinality(deciding) \in Nat /\ Len(decisions) \in Nat
      BY <2>0, <3>1, FS_CardinalityType DEF DecisionInv
    <3> QED
      BY <2>0, <3>2, AccessAssumption DEF DecisionInv
  <2>2. AdministrationTypeOK
    BY <2>0, <2>1 DEF IdentityInv, IdentityTyped, SupportInv, SupportTyped, LoginInv, LoginTyped, CommandInv, KeysTyped,
                      OfficeTyped, AdministrationTypeOK, AccessTypeOK
  <2>3. RolesMatchTheirScope
    BY <2>0 DEF IdentityInv, Matches, RolesMatchTheirScope
  <2>4. LinksAreBoundAtHome
    <3>1. ASSUME NEW h \in Home PROVE Cardinality(ActiveConnections(h)) <= 1
      <4>1. CASE ActiveConnections(h) = {}
        BY <4>1, FS_EmptySet
      <4>2. CASE ActiveConnections(h) # {}
        <5>1. PICK c \in ActiveConnections(h) : TRUE
          BY <4>2
        <5>2. ActiveConnections(h) = {c}
          BY <5>1, <2>0 DEF IdentityInv, OneActive, ActiveConnections
        <5>3. Cardinality({c}) = 1
          BY FS_Singleton
        <5> QED
          BY <5>2, <5>3
      <4> QED
        BY <4>1, <4>2
    <3> QED
      BY <2>0, <3>1 DEF IdentityInv, BoundAtHome, LinksAreBoundAtHome, Activated
  <2>5. SupportIsApprovedByTheTenant
    <3>1. \A r \in DOMAIN requests : r \in 1..MaxRequest
      BY <2>0, AccessAssumption DEF SupportInv, SupportTyped
    <3> QED
      BY <2>0, <3>1 DEF SupportInv, SessionsFollowRequests, ApprovedByTheTenant, OfTheTenant, SupportIsApprovedByTheTenant
  <2> QED
    BY <2>2, <2>3, <2>4, <2>5 DEF AccessIsWellFormed
<1> QED
  BY <1>1, AccessInvariant, PTL

\* Delegated support access ends for good: no step relabels an ending, and none records a
\* decision under a session that was revoked or ran out, or of a person who lost the authority.
THEOREM SupportAccessEnds == AdministrationSpec => SupportEndsForGood
<1>1. ASSUME Inv, [AdministrationNext]_vars PROVE [EndingStands /\ EndedIsNotServed]_accessVars
  <2>1. AccessStep
    BY <1>1, InvStep
  <2> QED
    BY <1>1, <2>1, EndedStays DEF Inv
<1> QED
  BY <1>1, AccessInvariant, PTL DEF AdministrationSpec, SupportEndsForGood

\* Every session has one origin: a login that succeeded has exactly one session and no other
\* login has any, and a bearer token stands for one row for good.
THEOREM OneOriginPerSession == AdministrationSpec => []SessionsHaveOneOrigin
<1>1. ASSUME Inv PROVE SessionsHaveOneOrigin
  <2>0. OriginInv
    BY <1>1 DEF Inv, LoginInv
  <2>1. ASSUME NEW t \in DOMAIN logins
        PROVE  Cardinality({s \in DOMAIN sessions : sessions[s].login = t})
                 = IF logins[t].status = "succeeded" THEN 1 ELSE 0
    <3> DEFINE T == {s \in DOMAIN sessions : sessions[s].login = t}
    <3>0. t # 0
      BY <1>1 DEF Inv, LoginInv, LoginTyped, LoginTypeOK
    <3>1. CASE Succeeded(t)
      <4>1. PICK s \in DOMAIN sessions : sessions[s].login = t
        BY <2>0, <3>1 DEF OriginInv, LoginsHaveSessions
      <4>2. T = {s}
        BY <4>1, <2>0, <3>0 DEF OriginInv, OneSessionPerLogin
      <4>3. Cardinality({s}) = 1
        BY FS_Singleton
      <4> QED
        BY <3>1, <4>2, <4>3 DEF Succeeded
    <3>2. CASE ~Succeeded(t)
      <4>1. T = {}
        BY <3>2, <2>0, <3>0 DEF OriginInv, SessionsNameLogins
      <4>2. Cardinality({}) = 0
        BY FS_EmptySet
      <4> QED
        BY <3>2, <4>1, <4>2 DEF Succeeded
    <3> QED
      BY <3>1, <3>2
  <2>2. LoginAndSessionTogether
    BY <2>1 DEF LoginAndSessionTogether
  <2> QED
    BY <2>0, <2>2 DEF OriginInv, SessionsHaveOneOrigin
<1> QED
  BY <1>1, AccessInvariant, PTL

\* A keyed command takes effect once, whichever of the requests that found no key commits.
THEOREM KeyedCommandsRunOnce == AdministrationSpec => []CommandsRunOnce
<1>1. ASSUME Inv PROVE CommandsRunOnce
  BY <1>1 DEF Inv, CommandInv
<1> QED
  BY <1>1, AccessInvariant, PTL

--------------------------------------------------------------------------------
(* Step-up reauthentication *)

RowsFit ==
    /\ \A t \in Txn : txn[t].state = "absent" => ~txn[t].claimed
    /\ \A r \in Request : request[r].phase \in {"paid", "done"} =>
           /\ request[r].txn \in Txn
           /\ txn[request[r].txn].state = "completed"
           /\ txn[request[r].txn].person = request[r].person
           /\ txn[request[r].txn].op = request[r].op
    /\ \A r \in Request : request[r].phase = "paid" => grant[request[r].txn] = "live"

StepUpInv ==
    /\ StepUpTypeOK
    /\ RowsFit
    /\ EndsOnce
    /\ SpentForOneDeed
    /\ GrantFollowsClaim

--------------------------------------------------------------------------------
(* What the actions do to the rows *)

\* terminateWithin moves the state of one started row, and nothing else of any row.
LEMMA Terminates ==
    ASSUME StepUpTypeOK, NEW t \in Txn, NEW s \in TERMINAL, terminateWithin(t, s)
    PROVE  /\ txn' \in [Txn -> TxnType]
           /\ endings' \in [Txn -> Nat]
           /\ overdue' \subseteq Txn
           /\ \A u \in Txn : /\ txn'[u].claimed = txn[u].claimed
                             /\ txn'[u].person = txn[u].person
                             /\ txn'[u].op = txn[u].op
                             /\ u # t => txn'[u] = txn[u] /\ endings'[u] = endings[u]
           /\ IF txn[t].state = "started"
              THEN txn'[t].state = s /\ endings'[t] = endings[t] + 1
              ELSE txn'[t].state = txn[t].state /\ endings'[t] = endings[t]
<1>1. [txn[t] EXCEPT !.state = s] \in TxnType
  BY DEF StepUpTypeOK, TxnType
<1>2. CASE txn[t].state = "started"
  <2>1. /\ txn' = [txn EXCEPT ![t] = [txn[t] EXCEPT !.state = s]]
        /\ endings' = [endings EXCEPT ![t] = endings[t] + 1]
        /\ overdue' = overdue \ {t}
    BY <1>2 DEF terminateWithin
  <2>2. txn' \in [Txn -> TxnType] /\ endings' \in [Txn -> Nat] /\ overdue' \subseteq Txn
    BY <1>1, <2>1 DEF StepUpTypeOK
  <2>3. /\ txn'[t] = [txn[t] EXCEPT !.state = s]
        /\ endings'[t] = endings[t] + 1
        /\ \A u \in Txn : u # t => txn'[u] = txn[u] /\ endings'[u] = endings[u]
    BY <2>1 DEF StepUpTypeOK
  <2>4. /\ txn'[t].state = s /\ txn'[t].claimed = txn[t].claimed
        /\ txn'[t].person = txn[t].person /\ txn'[t].op = txn[t].op
    BY <2>3 DEF StepUpTypeOK, TxnType
  <2> QED  BY <1>2, <2>2, <2>3, <2>4
<1>3. CASE txn[t].state # "started"
  BY <1>3 DEF StepUpTypeOK, terminateWithin
<1> QED  BY <1>2, <1>3

\* Every step either opens one row, claims one row, ends one row (perhaps minting its
\* grant), or leaves the rows and their endings alone.
Opens(t, p, o) ==
    /\ txn[t].state = "absent"
    /\ txn' = [txn EXCEPT ![t] =
                   [state |-> "started", claimed |-> FALSE, person |-> p, op |-> o]]
    /\ UNCHANGED <<endings, grant, leg, request>>

Claims(c, t) ==
    /\ leg[c] = None
    /\ txn[t].state = "started" /\ ~txn[t].claimed
    /\ txn' = [txn EXCEPT ![t].claimed = TRUE]
    /\ leg' = [leg EXCEPT ![c] = t]
    /\ UNCHANGED <<endings, grant, request>>

Ends(t, s) ==
    /\ terminateWithin(t, s)
    /\ \/ leg' = leg
       \/ \E c \in Callback : leg' = [leg EXCEPT ![c] = None]
    /\ UNCHANGED request

Refuses(t, s) == Ends(t, s) /\ UNCHANGED grant

Mints(t) ==
    /\ txn[t].state = "started"
    /\ Ends(t, "completed")
    /\ grant' = [grant EXCEPT ![t] = "live"]

Spends(r) ==
    \/ \E t \in Txn, p \in Person, o \in Op : consumeReauthenticationGrant(r, t, p, o)
    \/ BeginRequest(r) \/ CommitRequest(r) \/ RollbackRequest(r)

Rests ==
    /\ UNCHANGED <<txn, endings, grant, request>>
    /\ \/ leg' = leg
       \/ \E c \in Callback : leg' = [leg EXCEPT ![c] = None]

LEMMA StepCases ==
    ASSUME StepUpTypeOK, [Next]_stepUpVars
    PROVE  \/ \E t \in Txn, p \in Person, o \in Op : Opens(t, p, o)
           \/ \E c \in Callback, t \in Txn : Claims(c, t)
           \/ \E t \in Txn, s \in {"failed", "expired"} : Refuses(t, s)
           \/ \E t \in Txn : Mints(t)
           \/ \E r \in Request : Spends(r)
           \/ Rests
<1>1. CASE \E t \in Txn, p \in Person, o \in Op : startReauthentication(t, p, o)
  BY <1>1 DEF startReauthentication, Opens
<1>2. CASE \E c \in Callback, t \in Txn, matches, late \in BOOLEAN :
               claimReauthentication(c, t, matches, late)
  <2> PICK c \in Callback, t \in Txn, matches \in BOOLEAN, late \in BOOLEAN :
               claimReauthentication(c, t, matches, late)
    BY <1>2
  <2>1. CASE Replay(t) \/ late \/ ~matches
    <3>1. PICK s \in {"failed", "expired"} : terminateWithin(t, s) /\ leg' = leg
      BY <2>1 DEF claimReauthentication
    <3> QED  BY <3>1 DEF claimReauthentication, Refuses, Ends
  <2>2. CASE ~(Replay(t) \/ late \/ ~matches)
    BY <2>2 DEF claimReauthentication, Claims, Replay
  <2> QED  BY <2>1, <2>2
<1>3. CASE \E c \in Callback : failReauthentication(c) \/ CallbackDies(c)
  <2> PICK c \in Callback : failReauthentication(c) \/ CallbackDies(c)
    BY <1>3
  <2>1. CASE failReauthentication(c)
    <3>1. PICK t \in Txn : t = leg[c]
      BY <2>1 DEF failReauthentication, StepUpTypeOK
    <3>2. Refuses(t, "failed")
      BY <2>1, <3>1 DEF failReauthentication, Refuses, Ends
    <3> QED  BY <3>2
  <2>2. CASE CallbackDies(c)
    BY <2>2 DEF CallbackDies, Rests
  <2> QED  BY <2>1, <2>2
<1>4. CASE \E c \in Callback, p \in Person, proofs, late \in BOOLEAN :
               completeReauthentication(c, p, proofs, late)
  <2> PICK c \in Callback, p \in Person, proofs \in BOOLEAN, late \in BOOLEAN :
               completeReauthentication(c, p, proofs, late)
    BY <1>4
  <2>1. PICK t \in Txn : t = leg[c]
    BY DEF completeReauthentication, StepUpTypeOK
  <2>2. CASE txn[t].state # "started"
    BY <2>1, <2>2 DEF completeReauthentication, Rests
  <2>3. CASE txn[t].state = "started" /\ (~txn[t].claimed \/ late \/ ~Proven(t, p, proofs))
    <3>1. PICK s \in {"failed", "expired"} : terminateWithin(t, s)
      BY <2>1, <2>3 DEF completeReauthentication
    <3> QED  BY <2>1, <2>3, <3>1 DEF completeReauthentication, Refuses, Ends
  <2>4. CASE txn[t].state = "started" /\ txn[t].claimed /\ ~late /\ Proven(t, p, proofs)
    BY <2>1, <2>4 DEF completeReauthentication, Mints, Ends
  <2> QED  BY <2>2, <2>3, <2>4
<1>5. CASE \E t \in Txn : expireStaleReauthenticationTransactions(t)
  BY <1>5 DEF expireStaleReauthenticationTransactions, Refuses, Ends
<1>6. CASE \E r \in Request : BeginRequest(r) \/ CommitRequest(r) \/ RollbackRequest(r)
  BY <1>6 DEF Spends
<1>7. CASE \E r \in Request, t \in Txn, p \in Person, o \in Op :
               consumeReauthenticationGrant(r, t, p, o)
  BY <1>7 DEF Spends
<1>8. CASE \E t \in Txn : TransactionFallsDue(t) \/ GrantLapses(t)
  BY <1>8 DEF TransactionFallsDue, GrantLapses, Rests
<1>9. CASE \E p \in Person : IdentityBreaks(p)
  BY <1>9 DEF IdentityBreaks, Rests
<1>10. CASE UNCHANGED stepUpVars
  BY <1>10 DEF stepUpVars, Rests
<1> QED  BY <1>1, <1>2, <1>3, <1>4, <1>5, <1>6, <1>7, <1>8, <1>9, <1>10 DEF Next

\* The sets of deadlines and broken identities stay sets of rows.
LEMMA SetsStay ==
    ASSUME StepUpTypeOK, [Next]_stepUpVars
    PROVE  overdue' \subseteq Txn /\ lapsed' \subseteq Txn /\ broken' \subseteq Person
<1> USE DEF StepUpTypeOK
<1>1. ASSUME NEW t, NEW s, terminateWithin(t, s)  PROVE overdue' \subseteq Txn
  BY <1>1 DEF terminateWithin
<1>2. CASE \E t \in Txn, p \in Person, o \in Op : startReauthentication(t, p, o)
  BY <1>2 DEF startReauthentication
<1>3. CASE \E c \in Callback, t \in Txn, matches, late \in BOOLEAN :
               claimReauthentication(c, t, matches, late)
  BY <1>1, <1>3 DEF claimReauthentication
<1>4. CASE \E c \in Callback : failReauthentication(c) \/ CallbackDies(c)
  BY <1>1, <1>4 DEF failReauthentication, CallbackDies
<1>5. CASE \E c \in Callback, p \in Person, proofs, late \in BOOLEAN :
               completeReauthentication(c, p, proofs, late)
  BY <1>1, <1>5 DEF completeReauthentication
<1>6. CASE \E t \in Txn : expireStaleReauthenticationTransactions(t)
  BY <1>1, <1>6 DEF expireStaleReauthenticationTransactions
<1>7. CASE \E r \in Request : BeginRequest(r) \/ CommitRequest(r) \/ RollbackRequest(r)
  BY <1>7 DEF BeginRequest, CommitRequest, RollbackRequest
<1>8. CASE \E r \in Request, t \in Txn, p \in Person, o \in Op :
               consumeReauthenticationGrant(r, t, p, o)
  BY <1>8 DEF consumeReauthenticationGrant
<1>9. CASE \E t \in Txn : TransactionFallsDue(t) \/ GrantLapses(t)
  BY <1>9 DEF TransactionFallsDue, GrantLapses
<1>10. CASE \E p \in Person : IdentityBreaks(p)
  BY <1>10 DEF IdentityBreaks
<1>11. CASE UNCHANGED stepUpVars
  BY <1>11 DEF stepUpVars
<1> QED  BY <1>2, <1>3, <1>4, <1>5, <1>6, <1>7, <1>8, <1>9, <1>10, <1>11 DEF Next

--------------------------------------------------------------------------------
(* The inductive invariant *)

\* StepUpInv without the sets, which SetsStay covers.
RowsOK ==
    /\ txn \in [Txn -> TxnType]
    /\ endings \in [Txn -> Nat]
    /\ grant \in [Txn -> {"none", "live", "spent"}]
    /\ leg \in [Callback -> Txn \cup {None}]
    /\ request \in [Request -> RequestType]
    /\ RowsFit /\ EndsOnce /\ SpentForOneDeed /\ GrantFollowsClaim

LEMMA InitEstablishes == Init => StepUpInv
<1> SUFFICES ASSUME Init PROVE StepUpInv
  OBVIOUS
<1>1. NoTxn \in TxnType /\ NoRequest \in RequestType
  BY DEF NoTxn, NoRequest, TxnType, RequestType
<1>2. StepUpTypeOK
  BY <1>1 DEF Init, StepUpTypeOK
<1>3. RowsFit /\ EndsOnce /\ GrantFollowsClaim
  BY DEF Init, RowsFit, EndsOnce, GrantFollowsClaim, NoTxn, NoRequest, TERMINAL
<1>4. SpentForOneDeed
  BY DEF Init, SpentForOneDeed, NoRequest
<1> QED  BY <1>2, <1>3, <1>4 DEF StepUpInv

LEMMA OpensKeeps ==
    ASSUME StepUpInv, NEW t \in Txn, NEW p \in Person, NEW o \in Op, Opens(t, p, o)
    PROVE  RowsOK'
<1> USE DEF StepUpInv, StepUpTypeOK, Opens
<1>1. [state |-> "started", claimed |-> FALSE, person |-> p, op |-> o] \in TxnType
  BY DEF TxnType
<1>2. txn' \in [Txn -> TxnType]
  BY <1>1
<1>3. /\ txn'[t].state = "started" /\ ~txn'[t].claimed
      /\ \A u \in Txn : u # t => txn'[u] = txn[u]
  OBVIOUS
<1>4. RowsFit'
  BY <1>3 DEF RowsFit
<1>5. EndsOnce'
  BY <1>3 DEF EndsOnce, TERMINAL
<1>6. SpentForOneDeed'
  BY DEF SpentForOneDeed
<1>7. GrantFollowsClaim'
  <2>1. \A c \in Callback : leg[c] # None => leg[c] \in Txn /\ leg[c] # t
    BY DEF GrantFollowsClaim, RowsFit
  <2> QED  BY <1>3, <2>1 DEF GrantFollowsClaim
<1> QED  BY <1>2, <1>4, <1>5, <1>6, <1>7 DEF RowsOK

LEMMA ClaimedRow ==
    ASSUME NEW x \in TxnType
    PROVE  /\ [x EXCEPT !.claimed = TRUE] \in TxnType
           /\ [x EXCEPT !.claimed = TRUE].claimed
           /\ [x EXCEPT !.claimed = TRUE].state = x.state
           /\ [x EXCEPT !.claimed = TRUE].person = x.person
           /\ [x EXCEPT !.claimed = TRUE].op = x.op
BY DEF TxnType

LEMMA ClaimsKeeps ==
    ASSUME StepUpInv, NEW c \in Callback, NEW t \in Txn, Claims(c, t)
    PROVE  RowsOK'
<1> USE DEF StepUpInv, StepUpTypeOK, Claims
<1>1. [txn[t] EXCEPT !.claimed = TRUE] \in TxnType
  BY ClaimedRow
<1>2. txn' \in [Txn -> TxnType] /\ leg' \in [Callback -> Txn \cup {None}]
  BY <1>1
<1>3. /\ \A u \in Txn : u # t => txn'[u] = txn[u]
      /\ txn'[t].state = "started" /\ txn'[t].claimed
      /\ txn'[t].person = txn[t].person /\ txn'[t].op = txn[t].op
  <2>1. txn'[t] = [txn[t] EXCEPT !.claimed = TRUE] /\ txn[t] \in TxnType
    OBVIOUS
  <2> QED  BY <2>1, ClaimedRow
<1>4. RowsFit'
  BY <1>3 DEF RowsFit
<1>5. EndsOnce'
  BY <1>3 DEF EndsOnce, TERMINAL
<1>6. SpentForOneDeed'
  BY DEF SpentForOneDeed
<1>7. GrantFollowsClaim'
  <2>1. \A d \in Callback : leg[d] # t
    BY NoneAssumption DEF GrantFollowsClaim
  <2>2. \A u \in Txn : grant'[u] # "none" <=> txn'[u].state = "completed"
    BY <1>3 DEF GrantFollowsClaim
  <2>3. \A d, e \in Callback : leg'[d] = leg'[e] /\ leg'[d] # None => d = e
    BY <2>1 DEF GrantFollowsClaim
  <2>4. \A d \in Callback : leg'[d] # None => txn'[leg'[d]].claimed
    BY <1>3, <2>1 DEF GrantFollowsClaim
  <2> QED  BY <2>2, <2>3, <2>4 DEF GrantFollowsClaim
<1> QED  BY <1>2, <1>4, <1>5, <1>6, <1>7 DEF RowsOK

LEMMA EndsKeeps ==
    ASSUME StepUpInv, NEW t \in Txn, NEW s \in TERMINAL, Ends(t, s),
           IF s = "completed" /\ txn[t].state = "started"
           THEN grant' = [grant EXCEPT ![t] = "live"]
           ELSE grant' = grant
    PROVE  RowsOK'
<1> USE DEF StepUpInv, StepUpTypeOK, Ends
<1>1. /\ txn' \in [Txn -> TxnType] /\ endings' \in [Txn -> Nat]
      /\ \A u \in Txn : /\ txn'[u].claimed = txn[u].claimed
                        /\ txn'[u].person = txn[u].person
                        /\ txn'[u].op = txn[u].op
                        /\ u # t => txn'[u] = txn[u] /\ endings'[u] = endings[u]
      /\ IF txn[t].state = "started"
         THEN txn'[t].state = s /\ endings'[t] = endings[t] + 1
         ELSE txn'[t].state = txn[t].state /\ endings'[t] = endings[t]
  BY Terminates
<1>2. /\ grant' \in [Txn -> {"none", "live", "spent"}]
      /\ \A u \in Txn : u # t => grant'[u] = grant[u]
      /\ IF s = "completed" /\ txn[t].state = "started"
         THEN grant'[t] = "live" ELSE grant'[t] = grant[t]
  OBVIOUS
<1>3. leg' \in [Callback -> Txn \cup {None}] /\ \A d \in Callback : leg'[d] \in {leg[d], None}
  OBVIOUS
<1> HIDE DEF Ends
<1>r. request' = request
  BY DEF Ends
<1>4. RowsFit'
  <2>1. \A u \in Txn : txn'[u].state = "absent" => txn[u].state = "absent"
    BY <1>1 DEF TERMINAL
  <2>2. \A u \in Txn : txn[u].state = "completed" =>
            txn'[u].state = "completed" /\ grant'[u] = grant[u]
    BY <1>1, <1>2
  <2> QED  BY <1>1, <1>r, <2>1, <2>2 DEF RowsFit
<1>5. EndsOnce'
  <2>1. ASSUME NEW u \in Txn
        PROVE  endings'[u] = IF txn'[u].state \in TERMINAL THEN 1 ELSE 0
    <3>1. CASE u # t
      BY <1>1, <3>1 DEF EndsOnce
    <3>2. CASE u = t /\ txn[t].state = "started"
      <4>1. endings[t] = 0
        BY <3>2 DEF EndsOnce, TERMINAL
      <4> QED  BY <1>1, <3>2, <4>1
    <3>3. CASE u = t /\ txn[t].state # "started"
      BY <1>1, <3>3 DEF EndsOnce
    <3> QED  BY <3>1, <3>2, <3>3
  <2> QED  BY <2>1 DEF EndsOnce
<1>6. SpentForOneDeed'
  <2>1. \A u \in Txn : grant'[u] = "spent" <=> grant[u] = "spent"
    BY <1>2 DEF GrantFollowsClaim
  <2> QED  BY <1>r, <2>1 DEF SpentForOneDeed
<1>7. GrantFollowsClaim'
  <2>1. \A u \in Txn : grant'[u] # "none" <=> txn'[u].state = "completed"
    BY <1>1, <1>2 DEF GrantFollowsClaim
  <2>2. \A d, e \in Callback : leg'[d] = leg'[e] /\ leg'[d] # None => d = e
    BY <1>3 DEF GrantFollowsClaim
  <2>3. \A d \in Callback : leg'[d] # None => txn'[leg'[d]].claimed
    BY <1>1, <1>3 DEF GrantFollowsClaim
  <2> QED  BY <2>1, <2>2, <2>3 DEF GrantFollowsClaim
<1> QED  BY <1>1, <1>2, <1>3, <1>r, <1>4, <1>5, <1>6, <1>7 DEF RowsOK

LEMMA SpendsKeeps ==
    ASSUME StepUpInv, NEW r \in Request, Spends(r)
    PROVE  RowsOK'
<1> USE DEF StepUpInv, StepUpTypeOK
<1>0. /\ UNCHANGED <<txn, endings, leg>>
      /\ \A q \in Request : q # r => request'[q] = request[q]
  BY DEF Spends, consumeReauthenticationGrant, BeginRequest, CommitRequest, RollbackRequest
<1>1. EndsOnce'
  BY <1>0 DEF EndsOnce
<1>2. CASE \E t \in Txn, p \in Person, o \in Op : consumeReauthenticationGrant(r, t, p, o)
  <2> PICK t \in Txn, p \in Person, o \in Op : consumeReauthenticationGrant(r, t, p, o)
    BY <1>2
  <2>1. [phase |-> "paid", late |-> {}, txn |-> t, person |-> p, op |-> o] \in RequestType
    BY DEF RequestType
  <2>2. /\ request' \in [Request -> RequestType] /\ grant' = grant
        /\ request'[r].phase = "paid" /\ request'[r].txn = t
        /\ request'[r].person = p /\ request'[r].op = o
    BY <2>1 DEF consumeReauthenticationGrant
  <2>3. /\ request[r].phase = "open"
        /\ grant[t] = "live" /\ txn[t].person = p /\ txn[t].op = o
        /\ \A q \in Request : request[q].phase = "paid" => request[q].txn # t
    BY DEF consumeReauthenticationGrant, Spendable, Held
  <2>4. RowsFit'
    BY <1>0, <2>2, <2>3 DEF RowsFit, GrantFollowsClaim
  <2>5. \A q \in Request : q # r /\ request[q].phase \in {"paid", "done"} => request[q].txn # t
    BY <2>3 DEF SpentForOneDeed
  <2>6. SpentForOneDeed'
    <3>1. \A u \in Txn : grant'[u] = "spent" <=>
              \E q \in Request : request'[q].phase = "done" /\ request'[q].txn = u
      BY <1>0, <2>2, <2>3 DEF SpentForOneDeed
    <3>2. ASSUME NEW a \in Request, NEW b \in Request,
                 request'[a].phase \in {"paid", "done"},
                 request'[b].phase \in {"paid", "done"},
                 request'[a].txn = request'[b].txn
          PROVE  a = b
      <4>1. CASE a # r /\ b # r
        BY <1>0, <3>2, <4>1 DEF SpentForOneDeed
      <4>2. CASE a = r \/ b = r
        BY <1>0, <2>2, <2>5, <3>2, <4>2
      <4> QED  BY <4>1, <4>2
    <3> QED  BY <3>1, <3>2 DEF SpentForOneDeed
  <2>7. GrantFollowsClaim'
    BY <1>0, <2>2 DEF GrantFollowsClaim
  <2> QED  BY <1>0, <1>1, <2>2, <2>4, <2>6, <2>7 DEF RowsOK
<1>3. CASE CommitRequest(r)
  <2>1. PICK t \in Txn : t = request[r].txn
    BY <1>3 DEF CommitRequest, RowsFit
  <2>2. [request[r] EXCEPT !.phase = "done"] \in RequestType
    BY DEF RequestType
  <2>3. /\ request' \in [Request -> RequestType]
        /\ request'[r] = [request[r] EXCEPT !.phase = "done"]
        /\ request[r].phase = "paid"
        /\ grant' = [grant EXCEPT ![t] = "spent"]
    BY <1>3, <2>1, <2>2 DEF CommitRequest
  <2>4. /\ request'[r].phase = "done" /\ request'[r].txn = t
        /\ request'[r].person = request[r].person /\ request'[r].op = request[r].op
    BY <2>1, <2>3 DEF RequestType
  <2>5. /\ grant' \in [Txn -> {"none", "live", "spent"}]
        /\ grant'[t] = "spent" /\ grant[t] = "live"
        /\ \A u \in Txn : u # t => grant'[u] = grant[u]
    BY <2>1, <2>3 DEF RowsFit
  <2>6. \A q \in Request : q # r /\ request[q].phase \in {"paid", "done"} => request[q].txn # t
    BY <2>1, <2>3 DEF SpentForOneDeed
  <2>7. RowsFit'
    <3>1. \A q \in Request : request'[q].phase \in {"paid", "done"} =>
              /\ request[q].phase \in {"paid", "done"}
              /\ request'[q].txn = request[q].txn
              /\ request'[q].person = request[q].person
              /\ request'[q].op = request[q].op
      BY <1>0, <2>1, <2>3, <2>4
    <3>2. \A q \in Request : request'[q].phase = "paid" =>
              q # r /\ request[q].phase = "paid" /\ grant'[request'[q].txn] = "live"
      BY <1>0, <2>4, <2>5, <2>6 DEF RowsFit
    <3> QED  BY <1>0, <3>1, <3>2 DEF RowsFit
  <2>8. SpentForOneDeed'
    <3>1. ASSUME NEW u \in Txn
          PROVE  grant'[u] = "spent" <=>
                     \E q \in Request : request'[q].phase = "done" /\ request'[q].txn = u
      <4>1. CASE u = t
        BY <2>4, <2>5, <4>1
      <4>2. CASE u # t
        <5>1. \A q \in Request : (request'[q].phase = "done" /\ request'[q].txn = u) <=>
                                 (request[q].phase = "done" /\ request[q].txn = u)
          BY <1>0, <2>3, <2>4, <4>2
        <5> QED  BY <2>5, <4>2, <5>1 DEF SpentForOneDeed
      <4> QED  BY <4>1, <4>2
    <3>2. ASSUME NEW a \in Request, NEW b \in Request,
                 request'[a].phase \in {"paid", "done"},
                 request'[b].phase \in {"paid", "done"},
                 request'[a].txn = request'[b].txn
          PROVE  a = b
      <4>1. CASE a # r /\ b # r
        BY <1>0, <3>2, <4>1 DEF SpentForOneDeed
      <4>2. CASE a = r \/ b = r
        BY <1>0, <2>4, <2>6, <3>2, <4>2
      <4> QED  BY <4>1, <4>2
    <3> QED  BY <3>1, <3>2 DEF SpentForOneDeed
  <2>9. GrantFollowsClaim'
    BY <1>0, <2>5 DEF GrantFollowsClaim
  <2> QED  BY <1>0, <1>1, <2>3, <2>5, <2>7, <2>8, <2>9 DEF RowsOK
<1>4. CASE BeginRequest(r) \/ RollbackRequest(r)
  <2>1. NoRequest \in RequestType /\ [NoRequest EXCEPT !.phase = "open", !.late = lapsed] \in RequestType
    BY DEF NoRequest, RequestType
  <2>2. /\ request' \in [Request -> RequestType] /\ grant' = grant
        /\ request[r].phase # "done"
    BY <1>4, <2>1 DEF BeginRequest, RollbackRequest
  <2>3. request'[r].phase \in {"idle", "open"}
    <3>1. /\ NoRequest.phase = "idle"
          /\ [NoRequest EXCEPT !.phase = "open", !.late = lapsed].phase = "open"
      BY DEF NoRequest
    <3> QED  BY <1>4, <3>1 DEF BeginRequest, RollbackRequest
  <2>4. RowsFit'
    BY <1>0, <2>2, <2>3 DEF RowsFit
  <2>5. SpentForOneDeed'
    BY <1>0, <2>2, <2>3 DEF SpentForOneDeed
  <2>6. GrantFollowsClaim'
    BY <1>0, <2>2 DEF GrantFollowsClaim
  <2> QED  BY <1>0, <1>1, <2>2, <2>4, <2>5, <2>6 DEF RowsOK
<1> QED  BY <1>2, <1>3, <1>4 DEF Spends

LEMMA InvPreserved == StepUpInv /\ [Next]_stepUpVars => StepUpInv'
<1> SUFFICES ASSUME StepUpInv, [Next]_stepUpVars PROVE StepUpInv'
  OBVIOUS
<1>1. ASSUME Rests  PROVE RowsOK'
  <2>1. /\ leg' \in [Callback -> Txn \cup {None}]
        /\ \A d \in Callback : leg'[d] \in {leg[d], None}
    BY <1>1 DEF Rests, StepUpInv, StepUpTypeOK
  <2>2. RowsFit' /\ EndsOnce' /\ SpentForOneDeed'
    BY <1>1 DEF Rests, StepUpInv, RowsFit, EndsOnce, SpentForOneDeed
  <2>3. GrantFollowsClaim'
    BY <1>1, <2>1 DEF Rests, StepUpInv, GrantFollowsClaim
  <2> QED  BY <1>1, <2>1, <2>2, <2>3 DEF Rests, StepUpInv, StepUpTypeOK, RowsOK
<1>2. ASSUME NEW t \in Txn, NEW s \in {"failed", "expired"}, Refuses(t, s)  PROVE RowsOK'
  <2>1. s \in TERMINAL /\ Ends(t, s) /\ grant' = grant /\ s # "completed"
    BY <1>2 DEF TERMINAL, Refuses
  <2> QED  BY <2>1, EndsKeeps
<1>3. ASSUME NEW t \in Txn, Mints(t)  PROVE RowsOK'
  <2>1. /\ "completed" \in TERMINAL /\ Ends(t, "completed") /\ txn[t].state = "started"
        /\ grant' = [grant EXCEPT ![t] = "live"]
    BY <1>3 DEF TERMINAL, Mints
  <2> QED  BY <2>1, EndsKeeps
<1>4. RowsOK'
  BY <1>1, <1>2, <1>3, StepCases, OpensKeeps, ClaimsKeeps, SpendsKeeps DEF StepUpInv
<1>5. overdue' \subseteq Txn /\ lapsed' \subseteq Txn /\ broken' \subseteq Person
  BY SetsStay DEF StepUpInv
<1> QED  BY <1>4, <1>5 DEF RowsOK, StepUpInv, StepUpTypeOK

LEMMA Invariance == Safety => []StepUpInv
BY InitEstablishes, InvPreserved, PTL DEF Safety

\* The rows of every table of the step-up keep their shape.
THEOREM StepUpTypeCorrect == Safety => []StepUpTypeOK
<1>1. StepUpInv => StepUpTypeOK
  BY DEF StepUpInv
<1> QED  BY <1>1, Invariance, PTL

\* However claims, replays, failures, completions and sweeps race, a step-up that has
\* ended has exactly one ending in the audit trail, and one in flight has none.
THEOREM StepUpsEndOnce == Safety => []EndsOnce
<1>1. StepUpInv => EndsOnce
  BY DEF StepUpInv
<1> QED  BY <1>1, Invariance, PTL

\* However many requests present the same grant, whatever rolls back, a spent grant
\* has paid for exactly one committed request.
THEOREM GrantsPayOnce == Safety => []SpentForOneDeed
<1>1. StepUpInv => SpentForOneDeed
  BY DEF StepUpInv
<1> QED  BY <1>1, Invariance, PTL

\* A grant exists exactly for a completed step-up, and at most one callback is past
\* the claim of a step-up.
THEOREM GrantsFollowClaims == Safety => []GrantFollowsClaim
<1>1. StepUpInv => GrantFollowsClaim
  BY DEF StepUpInv
<1> QED  BY <1>1, Invariance, PTL

--------------------------------------------------------------------------------
(* The refinement *)

LEMMA InitRefines == Init => Promise!Init
<1> SUFFICES ASSUME Init PROVE Promise!Init
  OBVIOUS
<1>1. Permit = [t \in Txn |-> "none"]
  BY DEF Init, Permit, PermitOf, NoTxn
<1>2. Bound = [t \in Txn |-> [person |-> None, op |-> None]]
  BY DEF Init, Bound, NoTxn
<1>3. Deed = [r \in Request |-> [permit |-> None, for |-> [person |-> None, op |-> None]]]
  BY DEF Init, Deed, DeedOf, NoRequest
<1> QED  BY <1>1, <1>2, <1>3 DEF Promise!Init

LEMMA DeedStays == ASSUME request' = request PROVE Deed' = Deed
BY DEF Deed, DeedOf

LEMMA StepRefines ==
    StepUpInv /\ [Next]_stepUpVars => Promise!Next \/ UNCHANGED <<Permit, Bound, Deed>>
<1> SUFFICES ASSUME StepUpInv, [Next]_stepUpVars
             PROVE  Promise!Next \/ UNCHANGED <<Permit, Bound, Deed>>
  OBVIOUS
<1> USE DEF StepUpInv, StepUpTypeOK
<1>1. ASSUME NEW t \in Txn, NEW p \in Person, NEW o \in Op, Opens(t, p, o)
      PROVE  Promise!Next
  <2>1. Permit[t] = "none" /\ Permit' = [Permit EXCEPT ![t] = "asked"]
    BY <1>1 DEF Opens, Permit, PermitOf
  <2>2. Bound' = [Bound EXCEPT ![t] = [person |-> p, op |-> o]]
    BY <1>1 DEF Opens, Bound
  <2>3. Deed' = Deed
    BY <1>1, DeedStays DEF Opens
  <2> QED  BY <2>1, <2>2, <2>3 DEF Promise!Next, Promise!Ask
<1>2. ASSUME NEW t \in Txn, NEW s \in TERMINAL, Ends(t, s)
      PROVE  Bound' = Bound /\ Deed' = Deed
  <2>1. \A u \in Txn : txn'[u].person = txn[u].person /\ txn'[u].op = txn[u].op
    BY <1>2, Terminates DEF Ends
  <2> QED  BY <1>2, <2>1, DeedStays DEF Ends, Bound
<1>3. ASSUME NEW t \in Txn, NEW s \in {"failed", "expired"}, Refuses(t, s)
      PROVE  Promise!Next \/ UNCHANGED <<Permit, Bound, Deed>>
  <2>1. s \in TERMINAL /\ Ends(t, s) /\ grant' = grant
    BY <1>3 DEF TERMINAL, Refuses
  <2>2. /\ \A u \in Txn : u # t => txn'[u] = txn[u]
        /\ IF txn[t].state = "started" THEN txn'[t].state = s
                                       ELSE txn'[t].state = txn[t].state
    BY <2>1, Terminates DEF Ends
  <2>3. CASE txn[t].state = "started"
    <3>1. Permit[t] = "asked" /\ Permit' = [Permit EXCEPT ![t] = "refused"]
      BY <2>1, <2>2, <2>3 DEF Permit, PermitOf
    <3> QED  BY <1>2, <2>1, <3>1 DEF Promise!Next, Promise!Decide
  <2>4. CASE txn[t].state # "started"
    <3>1. Permit' = Permit
      BY <2>1, <2>2, <2>4 DEF Permit, PermitOf
    <3> QED  BY <1>2, <2>1, <3>1
  <2> QED  BY <2>3, <2>4
<1>4. ASSUME NEW t \in Txn, Mints(t)
      PROVE  Promise!Next
  <2>1. "completed" \in TERMINAL /\ Ends(t, "completed") /\ txn[t].state = "started"
    BY <1>4 DEF TERMINAL, Mints
  <2>2. txn'[t].state = "completed" /\ \A u \in Txn : u # t => txn'[u] = txn[u]
    BY <2>1, Terminates DEF Ends
  <2>3. grant'[t] = "live" /\ \A u \in Txn : u # t => grant'[u] = grant[u]
    BY <1>4 DEF Mints
  <2>4. Permit[t] = "asked" /\ Permit' = [Permit EXCEPT ![t] = "granted"]
    BY <2>1, <2>2, <2>3 DEF Permit, PermitOf
  <2> QED  BY <1>2, <2>1, <2>4 DEF Promise!Next, Promise!Decide
<1>5. ASSUME NEW r \in Request, CommitRequest(r)
      PROVE  Promise!Next
  <2>1. PICK t \in Txn : t = request[r].txn
    BY <1>5 DEF CommitRequest, RowsFit
  <2>2. /\ request[r].phase = "paid" /\ grant[t] = "live" /\ txn[t].state = "completed"
        /\ txn[t].person = request[r].person /\ txn[t].op = request[r].op
    BY <1>5, <2>1 DEF CommitRequest, RowsFit
  <2>3. /\ txn' = txn /\ grant'[t] = "spent"
        /\ \A u \in Txn : u # t => grant'[u] = grant[u]
        /\ request'[r] = [request[r] EXCEPT !.phase = "done"]
        /\ \A q \in Request : q # r => request'[q] = request[q]
    BY <1>5, <2>1 DEF CommitRequest
  <2>4. /\ request'[r].phase = "done" /\ request'[r].txn = t
        /\ request'[r].person = request[r].person /\ request'[r].op = request[r].op
    BY <2>1, <2>3 DEF RequestType
  <2>5. Permit[t] = "granted" /\ Permit' = [Permit EXCEPT ![t] = "used"]
    BY <2>2, <2>3 DEF Permit, PermitOf
  <2>6. Bound' = Bound /\ Bound[t] = [person |-> txn[t].person, op |-> txn[t].op]
    BY <2>3 DEF Bound
  <2>7. Deed[r].permit = None
    BY <2>2 DEF Deed, DeedOf
  <2>8. Deed' = [Deed EXCEPT ![r] = [permit |-> t, for |-> Bound[t]]]
    <3>1. DeedOf(r)' = [permit |-> t, for |-> Bound[t]]
      BY <2>2, <2>4, <2>6 DEF DeedOf
    <3>2. \A q \in Request : q # r => DeedOf(q)' = DeedOf(q)
      BY <2>3 DEF DeedOf
    <3> QED  BY <3>1, <3>2 DEF Deed
  <2> QED  BY <2>5, <2>6, <2>7, <2>8 DEF Promise!Next, Promise!Use
<1>6. ASSUME NEW r \in Request, Spends(r), ~CommitRequest(r)
      PROVE  UNCHANGED <<Permit, Bound, Deed>>
  <2>1. txn' = txn /\ grant' = grant
    BY <1>6 DEF Spends, consumeReauthenticationGrant, BeginRequest, RollbackRequest
  <2>2. Permit' = Permit /\ Bound' = Bound
    BY <2>1 DEF Permit, PermitOf, Bound
  <2>3. /\ \A q \in Request : q # r => request'[q] = request[q]
        /\ request[r].phase # "done" /\ request'[r].phase # "done"
    <3>1. /\ NoRequest.phase = "idle"
          /\ [NoRequest EXCEPT !.phase = "open", !.late = lapsed].phase = "open"
      BY DEF NoRequest
    <3>2. CASE \E t \in Txn, q \in Person, o \in Op : consumeReauthenticationGrant(r, t, q, o)
      BY <3>2 DEF consumeReauthenticationGrant
    <3>3. CASE BeginRequest(r)
      BY <3>1, <3>3 DEF BeginRequest
    <3>4. CASE RollbackRequest(r)
      BY <3>1, <3>4 DEF RollbackRequest
    <3> QED  BY <1>6, <3>2, <3>3, <3>4 DEF Spends
  <2>4. \A q \in Request : DeedOf(q)' = DeedOf(q)
    BY <2>3 DEF DeedOf
  <2> QED  BY <2>2, <2>4 DEF Deed
<1>7. ASSUME NEW c \in Callback, NEW t \in Txn, Claims(c, t)
      PROVE  UNCHANGED <<Permit, Bound, Deed>>
  <2>1. \A u \in Txn : /\ txn'[u].state = txn[u].state
                       /\ txn'[u].person = txn[u].person
                       /\ txn'[u].op = txn[u].op
    <3>1. /\ txn'[t] = [txn[t] EXCEPT !.claimed = TRUE] /\ txn[t] \in TxnType
          /\ \A u \in Txn : u # t => txn'[u] = txn[u]
      BY <1>7 DEF Claims
    <3>2. /\ txn'[t].state = txn[t].state /\ txn'[t].person = txn[t].person
          /\ txn'[t].op = txn[t].op
      BY <3>1, ClaimedRow
    <3> QED  BY <3>1, <3>2
  <2>2. grant' = grant /\ request' = request
    BY <1>7 DEF Claims
  <2> QED  BY <2>1, <2>2, DeedStays DEF Permit, PermitOf, Bound
<1>8. ASSUME Rests  PROVE UNCHANGED <<Permit, Bound, Deed>>
  BY <1>8, DeedStays DEF Rests, Permit, PermitOf, Bound
<1> QED  BY <1>1, <1>3, <1>4, <1>5, <1>6, <1>7, <1>8, StepCases

\* Whatever claims, replays, crashes, sweeps, rollbacks and racing spends happen, a
\* step-up is a permit that is decided once and used at most once, by one committed
\* request of the person it was started for, for the operation it was started for.
THEOREM StepUpIsOneUse == Safety => ImplementsOneUseGrant
<1>1. Init => Promise!Init
  BY InitRefines
<1>2. StepUpInv /\ [Next]_stepUpVars => [Promise!Next]_<<Permit, Bound, Deed>>
  BY StepRefines
<1> QED  BY <1>1, <1>2, Invariance, PTL DEF Safety, ImplementsOneUseGrant, Promise!Spec

\* A step-up ends once, a grant follows a claim, and a spent grant paid for one deed, for
\* every set of step-ups, callbacks and requests.
THEOREM GrantsAreAlwaysEarned == Safety => []GrantsAreEarned
  BY StepUpsEndOnce, GrantsPayOnce, GrantsFollowClaims, PTL DEF GrantsAreEarned

================================================================================
