-------------------------------- MODULE MCAccess --------------------------------
(* Bounded instance of access, login and administration for TLC.  The environment  *)
(* plays one scene at a time: a tenant is set up and its people are linked; roles  *)
(* are bound; support access is asked for, approved, used and ended; people sign   *)
(* in while their identity is administered; bearer tokens race; keyed commands     *)
(* race; settings are saved and invitations announced.                             *)
EXTENDS Administration

VARIABLE scene

MCUnitLevel == [g1 |-> "dealer_group", e1 |-> "legal_entity", r1 |-> "rooftop"]
MCUnitParent == [g1 |-> "t1", e1 |-> "g1", r1 |-> "e1"]
MCResourceUnit == [ro1 |-> "r1"]
Published(plane, roles, resource) == [plane |-> plane, roles |-> roles, resource |-> resource]
MCCatalog ==
    "identity.support.approve" :> Published("tenant", {"admin"}, FALSE)
    @@ "identity.support.revoke" :> Published("tenant", {"admin"}, FALSE)
    @@ "identity.connection.certify_mfa_policy" :> Published("tenant", {"admin"}, FALSE)
    @@ "platform.connection.certify_mfa_policy" :> Published("control_plane", {"p_admin"}, FALSE)
    @@ "platform.support.request" :> Published("control_plane", {"p_admin", "p_support"}, FALSE)
    @@ "ro.view" :> Published("tenant", {"admin", "advisor"}, TRUE)

MCRequestInput == {[tenant |-> "t1", actions |-> {"ro.view"}, scope |-> "r1"]}
Ask(actor, action, target, hint, resource) ==
    [actor |-> actor, action |-> action, target |-> target, scopeHint |-> hint, resource |-> resource]
MCPolicyInput ==
    {Ask("s1", "ro.view", "t1", Nobody, "ro1"), Ask("a1", "ro.view", "t1", Nobody, "ro1"),
     Ask("s1", "platform.support.request", "platform", Nobody, Nobody),
     Ask("a1", "ro.view", "t2", Nobody, "ro1"), Ask("a1", "no.such", "t1", Nobody, Nobody)}

MCIdentity == {[org |-> "o1", subject |-> "ann"], [org |-> "o1", subject |-> "bob"]}
MCBearerToken == {[session |-> "ps1", identity |-> [org |-> "o1", subject |-> "ann"]]}
MCCommand ==
    {[kind |-> "grant", link |-> "b1", role |-> "advisor", scope |-> "g1", unit |-> Nobody],
     [kind |-> "revoke", link |-> "b1", role |-> "advisor", scope |-> "g1", unit |-> Nobody],
     [kind |-> "deactivate", link |-> "b1", role |-> Nobody, scope |-> Nobody, unit |-> Nobody],
     [kind |-> "unit", link |-> Nobody, role |-> Nobody, scope |-> Nobody, unit |-> "r1"]}

AConnection(h, org) == NewConnection(h, org, TrustedIssuer)
ALink(h, subject, status, c) == [home |-> h, subject |-> subject, status |-> status, connection |-> c]
Bind(l, role, s) == [link |-> l, role |-> role, scope |-> s]

MCInit ==
    /\ scene \in {"setup", "people", "roles", "policy", "support", "login", "admission", "bearer", "keys", "office", "outbox"}
    /\ tenants = [t \in Tenant |-> IF scene = "setup" \/ t = "t2" THEN "none" ELSE "active"]
    /\ units = [u \in Unit |-> IF scene = "setup" \/ (scene = "keys" /\ u = "r1") THEN "none" ELSE "active"]
    /\ connections = [c \in Connection |->
            IF c = "c1" THEN AConnection("platform", "o0")
            ELSE IF c = "c2" /\ scene \notin {"setup", "people"} THEN AConnection("t1", "o1") ELSE NoConnection]
    /\ links = [l \in Link |->
            IF l = "s1" THEN ALink("platform", "sue", "activated", "c1")
            ELSE IF scene \in {"setup", "people"} THEN NoLink
            ELSE IF l = "a1" THEN ALink("t1", "ann", "activated", "c2")
            ELSE IF scene \in {"login", "admission"} THEN NoLink ELSE ALink("t1", "bob", "activated", "c2")]
    /\ bindings = {Bind("s1", "p_support", "platform")}
                  \cup (IF scene \in {"setup", "people", "login", "admission", "bearer"} THEN {} ELSE {Bind("a1", "admin", "t1")})
                  \cup (IF scene = "keys" THEN {Bind("b1", "advisor", "g1")} ELSE {})
    /\ grants = {} /\ requests = <<>> /\ support = [r \in 1..MaxRequest |-> NoSupport]
    /\ approving = {} /\ revoking = {} /\ deciding = {} /\ decisions = <<>>
    /\ logins = <<>> /\ callbacks = [t \in 1..MaxLogin |-> "none"] /\ sessions = <<>>
    /\ bearing = [p \in Bearer |-> Idle] /\ authenticated = {}
    /\ settings = [t \in Tenant |-> 0] /\ hours = [t \in Tenant |-> <<>>]
    /\ policies = [t \in Tenant |-> [p \in Policy |-> "unset"]]
    /\ invitations = <<>> /\ tokens = {} /\ keys = [k \in Link \X Key |-> Nobody] /\ running = [k \in Clerk |-> NoCommand]
    /\ ran = <<>> /\ port = <<>> /\ unwritten = {} /\ failures = 0

\* What keeps a scene small: the rows it leaves alone.
Scene ==
    /\ scene' = scene
    /\ scene = "people" =>
        /\ connections'["c1"] = connections["c1"] /\ links'["s1"] = links["s1"]
        /\ connections'["c2"].home = "t1" \/ connections'["c2"] = NoConnection
        /\ connections'["c2"].issuer \in {TrustedIssuer, Nobody}
        /\ connections'["c3"].validFor = 0 /\ connections'["c3"].revokedBy = Nobody
        /\ links'["a1"].subject \in {"ann", Nobody} /\ links'["b1"].subject \in {"bob", Nobody}
        /\ links'["b1"].home = "t1" \/ links'["b1"] = NoLink
    /\ scene \in {"policy", "support"} =>
        tenants' = tenants /\ \A u \in Unit : units'[u] = "active" \/ (u = "r1" /\ units'[u] = "inactive")
    /\ scene = "roles" =>
        /\ \A b \in bindings' : b.link # "b1" /\ b.scope \notin {"g1", "e1"}
        /\ \A c \in Connection \ {"c2"} : connections'[c] = connections[c]
        /\ connections'["c2"].org = "o1" /\ connections'["c2"].issuer = TrustedIssuer
        /\ connections'["c2"].status = "active"
        /\ Cardinality(bindings') <= 3
    /\ scene = "policy" => bindings' \subseteq {Bind("s1", "p_support", Platform)}
        \cup {Bind("a1", "advisor", x) : x \in {"t1", "r1", "ro1"}} \cup {Bind("a1", "admin", "t1")}
    /\ scene = "support" =>
        /\ \A v \in deciding' : v.input.actor = "s1" /\ v.input.resource # Nobody
        /\ bindings' \subseteq {Bind("s1", "p_support", Platform), Bind("a1", "admin", "t1"), Bind("a1", "advisor", "r1")}
    /\ scene \in {"login", "admission"} => bearing' = bearing
    /\ scene = "login" => authenticated' \subseteq {1}
    /\ scene = "admission" =>
        /\ Len(logins') < MaxLogin /\ authenticated' = {}
        /\ units'["g1"] = "active" /\ units'["r1"] = "active" /\ units'["e1"] \in {"active", "inactive"}
        /\ tenants'["t2"] = "none" /\ tenants'["t1"] \in {"active", "suspended"}
        /\ bindings' = bindings /\ links'["s1"] = links["s1"] /\ links'["b1"].subject \in {"bob", Nobody}
        /\ links'["b1"].home # "platform" \/ links'["b1"] = NoLink
        /\ \A c \in Connection \ {"c2"} : connections'[c] = connections[c]
        /\ connections'["c2"].org = "o1" /\ connections'["c2"].issuer = TrustedIssuer /\ connections'["c2"].validFor = 0
    /\ scene = "bearer" =>
        /\ \A l \in Link \ {"a1"} : links'[l] = links[l]
        /\ links'["a1"].connection = "c2"
    /\ scene = "keys" =>
        /\ running'["w1"].actor \in {Nobody, "a1"} /\ running'["w2"].actor \in {Nobody, "a1", "b1"}
        /\ Len(ran') <= 2 /\ Cardinality(tokens') <= 2 /\ \A i \in DOMAIN ran' : ran'[i][1] # <<"b1", Nobody>>
    /\ scene = "outbox" => \A n \in DOMAIN invitations' : invitations'[n].scope \in {"t1", "r1"}

MCNext ==
    /\ \/ /\ scene = "setup"
          /\ OrganizationNext
          /\ UNCHANGED <<loginVars, adminVars>>
       \/ /\ scene = "people"
          /\ ConnectionsNext \/ LinksNext({}) \/ tickAccess
          /\ UNCHANGED <<loginVars, adminVars>>
       \/ /\ scene = "roles"
          /\ RolesNext \/ ConnectionsNext \/ tickAccess
          /\ UNCHANGED <<loginVars, adminVars>>
       \/ /\ scene = "policy"
          /\ PolicyNext \/ RolesNext \/ OrganizationNext
          /\ UNCHANGED <<loginVars, adminVars>>
       \/ /\ scene = "support"
          /\ SupportNext \/ PolicyNext \/ RolesNext \/ OrganizationNext \/ tickAccess
          /\ UNCHANGED <<loginVars, adminVars>>
       \/ scene = "login" /\ (CallbackNext \/ tickLogin \/ SessionNext) /\ UNCHANGED adminVars
       \/ /\ scene = "admission"
          /\ \/ CallbackNext \/ tickLogin \/ SessionNext
             \/ (LinksNext(HasSession) \/ ConnectionsNext \/ OrganizationNext) /\ UNCHANGED loginVars
          /\ UNCHANGED adminVars
       \/ /\ scene = "bearer"
          /\ \/ SessionNext \/ tickLogin \/ \E s \in authenticated, i \in PolicyInput : requireAction(s, i)
             \/ (LinksNext(HasSession) \/ PolicyNext) /\ UNCHANGED loginVars
          /\ UNCHANGED adminVars
       \/ scene = "keys" /\ CommandNext
       \/ scene = "office" /\ SettingsNext
       \/ scene = "outbox" /\ OutboxNext
    /\ Scene

MCSpec ==
    /\ MCInit
    /\ [][MCNext]_<<vars, scene>>
    /\ Fairness

=================================================================================
