------------------------------ MODULE MCDealJacket ------------------------------
(* Bounded instance of DealJacket for TLC: one template code with a version that   *)
(* needs both signers and one that replaces it, one requirement of each kind, and  *)
(* rows of the rooftop with and without its legal entity.  The environment plays   *)
(* one scene at a time: the paperwork is reconfigured and reviewed, the rooftop    *)
(* gets rows of its own, the desk moves on, the customer's record changes under a  *)
(* legal hold, the provider calls back, or the tenant loses its place in the       *)
(* worker's passes and gets it back.                                               *)
EXTENDS DealJacket

VARIABLE scene

Template(scope, from, status, closes) ==
    [code |-> "contract", scope |-> scope, typed |-> FALSE, from |-> from, to |-> OpenEnd,
     approvalStatus |-> status, roles |-> {"customer", "dealer_representative"},
     resolves |-> TRUE, closesPredecessor |-> closes]

Requirement(code, by, scope, from, closes) ==
    [code |-> code, scope |-> scope, typed |-> TRUE, from |-> from, to |-> OpenEnd,
     satisfiedBy |-> by, templateCode |-> "contract", required |-> TRUE,
     waivable |-> by = "evidence", closesPredecessor |-> closes]

RooftopScopes == {"rooftop", "legal_entity_and_rooftop"}
MCTemplateInput ==
    {Template("tenant", 1, "withdrawn", TRUE)} \cup {Template(scope, 0, "approved", FALSE) : scope \in RooftopScopes}
MCRequirementInput ==
    {Requirement("title", "evidence", "tenant", 1, closes) : closes \in BOOLEAN}
        \cup {Requirement("title", "evidence", scope, 0, FALSE) : scope \in RooftopScopes}
MCRetentionInput == {[from |-> 0, to |-> OpenEnd]}

\* A tenant whose paperwork is configured but for the retention policy.
MCInit ==
    /\ scene \in {"paperwork", "rooftop", "desk", "holds", "provider", "tenants"}
    /\ standing = [active |-> TRUE, ahead |-> 0, failing |-> FALSE]
    /\ approved = 0 /\ lastVersion = 0 /\ party = 0 /\ time = 0
    /\ jacket = [s \in Scenario |-> NoJacket]
    /\ items = [s \in Scenario |-> {}]
    /\ packages = <<>> /\ ceremony = <<>>
    /\ callbacks = [e \in ProviderEvent |-> "none"]
    /\ templates = Recorded({}, Template("tenant", 0, "approved", FALSE),
            [code |-> "contract", version |-> 1, scope |-> "tenant", typed |-> FALSE,
             from |-> 0, to |-> OpenEnd, approvalStatus |-> "approved",
             roles |-> {"customer", "dealer_representative"}, resolves |-> TRUE])
    /\ requirements = {[code |-> c, version |-> 1, scope |-> "tenant", typed |-> TRUE,
                        from |-> 0, to |-> OpenEnd, templateCode |-> "contract",
                        satisfiedBy |-> IF c = "contract" THEN "template" ELSE "evidence",
                        required |-> TRUE, waivable |-> c = "title"] :
                            c \in {"contract", "title"}}
    /\ retention = {}

Scene ==
    /\ scene' = scene
    /\ scene \notin {"paperwork", "rooftop"} => UNCHANGED <<templates, requirements>>
    /\ scene = "paperwork" => \A r \in templates' \cup requirements' : r.scope = "tenant"
    /\ scene = "rooftop" =>
        /\ \A r \in templates' \cup requirements' : r.from = 0
        /\ \A p \in DOMAIN ceremony' : ceremony'[p].state = "none"
    /\ scene # "tenants" => UNCHANGED standing
    /\ scene = "tenants" => Len(packages') <= 1 /\ \A s \in Scenario : jacket'[s].state # "voided"
    /\ scene # "holds" => UNCHANGED party
    /\ scene # "desk" => lastVersion' <= 1
    /\ scene # "holds" => \A s \in Scenario : ~jacket'[s].held
    /\ scene # "provider" => UNCHANGED callbacks
    /\ scene \in {"rooftop", "desk", "holds", "tenants"} => \A p \in DOMAIN packages' : ~packages'[p].reviewed

MCSpec ==
    /\ MCInit
    /\ [][JacketNext /\ Scene]_<<vars, standing, scene>>
    /\ JacketFairness

================================================================================
