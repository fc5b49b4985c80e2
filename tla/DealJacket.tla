------------------------------- MODULE DealJacket -------------------------------
(***************************************************************************)
(* The deal jacket of one desking case: opened from the approved desking   *)
(* version, assembled into packages of rendered documents, reviewed, sent, *)
(* signed in a ceremony, voided, expired or superseded, and put under a    *)
(* legal hold.                                                             *)
(*                                                                         *)
(* Source: packages/jacket/src/{intake,checklist,assembly,lifecycle,       *)
(* ceremony,signing,callbacks,reconcile,holds}.ts and                      *)
(* packages/desking/src/jacket-seam.ts.                                    *)
(*                                                                         *)
(* Every operation is one withTenantTransaction that locks the jacket, the *)
(* package or the signer it works on, so it is one action.  A request that *)
(* carries a stale expectedVersion is refused and changes nothing: it is a *)
(* stuttering step.  A jacket is named by the scenario it was opened from, *)
(* which the database keeps unique.  A package's digest covers its fields, *)
(* its documents and its version number, so the package's number stands    *)
(* for its digest.                                                         *)
(***************************************************************************)
EXTENDS DocumentConfiguration, Tenants, Sequences

CONSTANTS
    MaxScenario,   \* bound: desking versions approved over time
    MaxParty,      \* bound: edits of the customer's record
    MaxPackage,    \* bound: packages assembled
    TokenTTL,      \* SIGNER_TOKEN_TTL_HOURS, in instants
    CeremonyTTL,   \* CEREMONY_TTL_DAYS, in instants
    ProviderEvent, \* provider_event_ref values
    ProviderClaim  \* the claimed states that are posted, of ProviderClaimedState

ProviderClaimedState ==
    {"sent", "viewed", "in_progress", "completed", "declined", "expired"}
ASSUME ClaimAssumption == ProviderClaim \subseteq ProviderClaimedState

ASSUME BoundAssumption ==
    {MaxScenario, MaxParty, MaxPackage, TokenTTL, CeremonyTTL} \subseteq Nat

VARIABLES
    approved,    \* the scenario of the case in state 'approved', 0 for none
    lastVersion, \* scenarios approved so far
    party,       \* authorization_version of the customer's record
    jacket,      \* jacket[s]: the deal_jackets row opened from scenario s
    items,       \* items[s]: its jacket_checklist_items
    packages,    \* jacket_packages, in the order they were inserted
    ceremony,    \* ceremony[p]: the signing_ceremonies row of package p, with its signers
    callbacks    \* provider events recorded, with their reconciliation

jacketVars == <<approved, lastVersion, party, jacket, items, packages, ceremony, callbacks>>
vars == <<time, configVars, jacketVars>>

Scenario == 1..MaxScenario

--------------------------------------------------------------------------------
(* Rows *)

JacketState == {"none", "open", "signed_complete", "voided"}
ChecklistState == {"missing", "satisfied", "waived"}
PackageState == {"draft", "review_ready", "sent", "partially_signed", "signed_complete",
                 "voided", "expired", "superseded"}
LIVE_PACKAGE_STATES == {"draft", "review_ready", "sent", "partially_signed"}
CeremonyState == {"none", "sent", "in_progress", "completed", "declined", "expired", "voided"}
SignerState == {"none", "invited", "viewed", "consented", "signed", "declined", "expired"}

ChecklistItemView ==
    [code : STRING, satisfiedBy : {"template", "evidence"}, templateCode : STRING,
     required : BOOLEAN, waivable : BOOLEAN, state : ChecklistState]

DocumentView == [code : STRING, version : Nat \ {0}, roles : SUBSET SIGNER_ROLES]

PackageView ==
    [jacket : Scenario, state : PackageState, fields : Scenario \X (0..MaxParty),
     documents : SUBSET DocumentView, reviewRequired : BOOLEAN, reviewed : BOOLEAN,
     legalHold : BOOLEAN]

CeremonyView ==
    [state : CeremonyState, bound : 0..MaxPackage, tokenExpires : Nat, expires : Nat,
     signers : [SIGNER_ROLES -> SignerState]]

NoJacket == [state |-> "none", held |-> FALSE]
NoCeremony ==
    [state |-> "none", bound |-> 0, tokenExpires |-> 0, expires |-> 0,
     signers |-> [r \in SIGNER_ROLES |-> "none"]]

Package == 1..Len(packages)

--------------------------------------------------------------------------------
(* The desk and the customer's record, as the jacket reads them *)

\* A desk approves the next version: the one it replaces is superseded with it.
DeskApproves ==
    /\ lastVersion < MaxScenario
    /\ lastVersion' = lastVersion + 1
    /\ approved' = lastVersion + 1
    /\ UNCHANGED <<time, configVars, party, jacket, items, packages, ceremony, callbacks>>

\* The customer's record is edited under its own version.
PartyEdited ==
    /\ party < MaxParty
    /\ party' = party + 1
    /\ UNCHANGED <<time, configVars, approved, lastVersion, jacket, items, packages, ceremony,
                   callbacks>>

--------------------------------------------------------------------------------
(* Intake *)

\* The items a new jacket's checklist is made of: the requirements resolved at intake.
resolveChecklist(requirementRows) ==
    {[code |-> r.code, satisfiedBy |-> r.satisfiedBy, templateCode |-> r.templateCode,
      required |-> r.required, waivable |-> r.waivable, state |-> "missing"] :
        r \in requirementRows}

\* already_open where the case has a jacket that is not voided, not_approved where the
\* desk has approved nothing, and already_open again (ON CONFLICT DO NOTHING) where the
\* approved scenario had a jacket that was voided.
openJacket(requirementRows) ==
    /\ \A s \in Scenario : jacket[s].state \in {"none", "voided"}
    /\ approved # 0
    /\ jacket[approved].state = "none"
    /\ jacket' = [jacket EXCEPT ![approved] = [state |-> "open", held |-> FALSE]]
    /\ items' = [items EXCEPT ![approved] = resolveChecklist(requirementRows)]
    /\ UNCHANGED <<time, configVars, approved, lastVersion, party, packages, ceremony, callbacks>>

--------------------------------------------------------------------------------
(* Checklist *)

blockingItems(s) == {i \in items[s] : i.required /\ i.state = "missing"}

SetItem(s, i, state) ==
    items' = [items EXCEPT ![s] = (@ \ {i}) \cup {[i EXCEPT !.state = state]}]

\* The jacket's state is not looked at.
satisfyWithEvidence(s, i) ==
    /\ i \in items[s]
    /\ i.satisfiedBy = "evidence"
    /\ i.state = "missing"
    /\ SetItem(s, i, "satisfied")
    /\ UNCHANGED <<time, configVars, approved, lastVersion, party, jacket, packages, ceremony,
                   callbacks>>

\* By an eligible manager.
waiveRequirement(s, i) ==
    /\ i \in items[s]
    /\ i.waivable
    /\ i.state # "waived"
    /\ SetItem(s, i, "waived")
    /\ UNCHANGED <<time, configVars, approved, lastVersion, party, jacket, packages, ceremony,
                   callbacks>>

--------------------------------------------------------------------------------
(* Assembly *)

\* fieldsDigest over assembleFieldsWithin: the approved scenario and the records it names.
assembleFields == <<approved, party>>

\* planDocuments: the template items that still ask for a document.
PlannedItems(s) ==
    {i \in items[s] : i.satisfiedBy = "template" /\ i.state # "waived"}

\* Whether every field the template names is one the deal carries.
renderDocument(t) == t.resolves

\* The template resolved for a code, as a set of at most one row.
TemplateInForce(ts, code) == {t \in ts : t.code = code}

\* Items whose template is not in force or is withdrawn, or does not resolve.
RenderFailures(s, ts) ==
    {i \in PlannedItems(s) :
        \A t \in TemplateInForce(ts, i.templateCode) :
            t.approvalStatus = "withdrawn" \/ ~renderDocument(t)}

\* Failures planDocuments finds, before anything is rendered.
PlanFailures(s, ts) ==
    {i \in PlannedItems(s) :
        \A t \in TemplateInForce(ts, i.templateCode) : t.approvalStatus = "withdrawn"}

\* A document remembers the version of the template it was rendered from.
Rendered(ts) == {[code |-> t.code, version |-> t.version, roles |-> t.roles] : t \in ts}

PlannedTemplates(s, ts) ==
    {t \in UNION {TemplateInForce(ts, i.templateCode) : i \in PlannedItems(s)} :
        t.approvalStatus # "withdrawn"}

\* Mutant of predecessorPackage: a completed package is not a predecessor.
predecessorPackage_LiveOnly(s) ==
    {p \in Package : packages[p].jacket = s /\ packages[p].state \in LIVE_PACKAGE_STATES}

\* predecessorPackageWithin: the latest package in one of these states, if any.
predecessorPackage(s) ==
    LET candidates == {p \in Package : /\ packages[p].jacket = s
                                       /\ packages[p].state \in
                                            LIVE_PACKAGE_STATES \cup {"signed_complete"}}
    IN  {p \in candidates : \A q \in candidates : q <= p}

\* Same fields, same templates: already_current, and nothing is written.
AlreadyCurrent(s, ts) ==
    /\ PlanFailures(s, ts) = {}
    /\ \E p \in predecessorPackage(s) :
        /\ packages[p].fields = assembleFields
        /\ packages[p].documents # {}
        /\ packages[p].documents = Rendered(PlannedTemplates(s, ts))

\* voidCeremonyOfPackageWithin on the packages ps: signers are left as they are.
VoidedCeremonies(ps) ==
    [p \in DOMAIN ceremony |->
        IF p \in ps /\ ceremony[p].state \in {"sent", "in_progress"}
        THEN [ceremony[p] EXCEPT !.state = "voided"] ELSE ceremony[p]]

\* jacketHeldWithin: the last legal_hold_event says.
NewDocumentsHeld(s) == jacket[s].held

\* Refused for a voided jacket, a stale source, an empty plan, and without a retention
\* policy.
AssemblyAllowed(s) ==
    /\ jacket[s].state \in {"open", "signed_complete"}
    /\ approved = s
    /\ PlannedItems(s) # {}
    /\ RetentionInForce

\* The row and its documents: voided and empty when a document failed to render.
NewPackage(s, ts) ==
    LET failed == RenderFailures(s, ts) # {}
    IN  [jacket |-> s, state |-> IF failed THEN "voided" ELSE "draft",
         fields |-> assembleFields,
         documents |-> IF failed THEN {} ELSE Rendered(PlannedTemplates(s, ts)),
         reviewRequired |->
            \/ \E i \in items[s] : i.state = "waived"
            \/ \E t \in PlannedTemplates(s, ts) : renderDocument(t) /\ t.approvalStatus # "approved",
         reviewed |-> FALSE, legalHold |-> ~failed /\ NewDocumentsHeld(s)]

\* The checklist lines the new documents satisfy.
SatisfiedItems(s) ==
    {IF i \in PlannedItems(s) THEN [i EXCEPT !.state = "satisfied"] ELSE i : i \in items[s]}

\* The predecessor steps aside whether or not the new version renders.
SteppedAside(old) ==
    [p \in Package |-> IF p \in old THEN [packages[p] EXCEPT !.state = "superseded"] ELSE packages[p]]

\* With the templates ts resolved for it.  When a document fails to render, the checklist and the jacket's state are left alone.
assemblePackage(s, ts) ==
    /\ AssemblyAllowed(s)
    /\ ~AlreadyCurrent(s, ts)
    /\ Len(packages) < MaxPackage
    /\ packages' = Append(SteppedAside(predecessorPackage(s)), NewPackage(s, ts))
    /\ ceremony' = Append(VoidedCeremonies(predecessorPackage(s)), NoCeremony)
    /\ IF RenderFailures(s, ts) # {}
       THEN UNCHANGED <<items, jacket>>
       ELSE /\ items' = [items EXCEPT ![s] = SatisfiedItems(s)]
            /\ jacket' = [jacket EXCEPT ![s].state = "open"]
    /\ UNCHANGED <<time, configVars, approved, lastVersion, party, callbacks>>

--------------------------------------------------------------------------------
(* Lifecycle *)

movePackage(p, to) == packages' = [packages EXCEPT ![p].state = to]

markReviewReady(p) ==
    /\ packages[p].state = "draft"
    /\ packages[p].documents # {}
    /\ blockingItems(packages[p].jacket) = {}
    /\ movePackage(p, "review_ready")
    /\ UNCHANGED <<time, configVars, approved, lastVersion, party, jacket, items, ceremony,
                   callbacks>>

\* A manager's stamp, written once.
reviewPackage(p) ==
    /\ packages[p].state \in {"draft", "review_ready"}
    /\ ~packages[p].reviewed
    /\ packages' = [packages EXCEPT ![p].reviewed = TRUE]
    /\ UNCHANGED <<time, configVars, approved, lastVersion, party, jacket, items, ceremony,
                   callbacks>>

voidPackage(p) ==
    /\ packages[p].state \in LIVE_PACKAGE_STATES
    /\ movePackage(p, "voided")
    /\ ceremony' = VoidedCeremonies({p})
    /\ UNCHANGED <<time, configVars, approved, lastVersion, party, jacket, items, callbacks>>

\* Even a jacket whose signing completed; its completed package stays as it is.
voidJacket(s) ==
    /\ jacket[s].state \in {"open", "signed_complete"}
    /\ LET live == {p \in Package : packages[p].jacket = s
                                    /\ packages[p].state \in LIVE_PACKAGE_STATES}
       IN  /\ packages' = [p \in Package |-> IF p \in live
                                THEN [packages[p] EXCEPT !.state = "voided"] ELSE packages[p]]
           /\ ceremony' = VoidedCeremonies(live)
    /\ jacket' = [jacket EXCEPT ![s].state = "voided"]
    /\ UNCHANGED <<time, configVars, approved, lastVersion, party, items, callbacks>>

--------------------------------------------------------------------------------
(* Sending and signing *)

ROLE_ORDER == [customer |-> 1, co_buyer |-> 2, dealer_representative |-> 3]

SignerRoles(p) == UNION {t.roles : t \in packages[p].documents}

\* already_sent where the package has a ceremony.  A package with a co-buyer is refused.
SendAllowed(p) ==
    /\ ceremony[p].state = "none"
    /\ packages[p].state = "review_ready"
    /\ packages[p].reviewRequired => packages[p].reviewed
    /\ packages[p].documents # {}
    /\ SignerRoles(p) # {} /\ "co_buyer" \notin SignerRoles(p)

NewCeremony(p) ==
    [state |-> "sent", bound |-> p, tokenExpires |-> time + TokenTTL,
     expires |-> time + CeremonyTTL,
     signers |-> [r \in SIGNER_ROLES |-> IF r \in SignerRoles(p) THEN "invited" ELSE "none"]]

\* Bound: nothing is sent that would expire after the last instant of the clock.
sendPackage(p) ==
    /\ SendAllowed(p)
    /\ time + CeremonyTTL <= MaxTime
    /\ ceremony' = [ceremony EXCEPT ![p] = NewCeremony(p)]
    /\ movePackage(p, "sent")
    /\ UNCHANGED <<time, configVars, approved, lastVersion, party, jacket, items, callbacks>>

Invited(p) == {r \in SIGNER_ROLES : ceremony[p].signers[r] # "none"}
CeremonyOpen(p) == ceremony[p].state \in {"sent", "in_progress"}

\* The customer's link: a token of 72 hours, whatever the ceremony's state.
TokenValid(p) == "customer" \in Invited(p) /\ time < ceremony[p].tokenExpires

SetSigner(p, r, state) == ceremony' = [ceremony EXCEPT ![p].signers[r] = state]

\* A first look at the link is recorded even when the ceremony is over.
openSignerSession(p) ==
    /\ TokenValid(p)
    /\ ceremony[p].signers["customer"] = "invited"
    /\ SetSigner(p, "customer", "viewed")
    /\ UNCHANGED <<time, configVars, approved, lastVersion, party, jacket, items, packages,
                   callbacks>>

Consentable(p, r) == CeremonyOpen(p) /\ ceremony[p].signers[r] \in {"invited", "viewed"}

consentToElectronicRecords(p) ==
    /\ TokenValid(p)
    /\ Consentable(p, "customer")
    /\ SetSigner(p, "customer", "consented")
    /\ UNCHANGED <<time, configVars, approved, lastVersion, party, jacket, items, packages,
                   callbacks>>

\* Mutant of WaitingOn: a signer waits for nobody.
WaitingOn_Nobody(p, r) == {}

WaitingOn(p, r) ==
    {q \in Invited(p) : ROLE_ORDER[q] < ROLE_ORDER[r] /\ ceremony[p].signers[q] # "signed"}

\* The refusals of signWithin: closed, expired, hash_mismatch, out_of_order.
Signable(p, r) ==
    /\ CeremonyOpen(p)
    /\ packages[p].state \in {"sent", "partially_signed"}
    /\ time < ceremony[p].expires
    /\ ceremony[p].bound = p
    /\ WaitingOn(p, r) = {}

\* signWithin's writes: the last signature completes ceremony, package and jacket.
Signed(p, r) ==
    LET complete == \A q \in Invited(p) : q = r \/ ceremony[p].signers[q] = "signed"
    IN  /\ ceremony' = [ceremony EXCEPT
                ![p].signers[r] = "signed",
                ![p].state = IF complete THEN "completed" ELSE "in_progress"]
        /\ movePackage(p, IF complete THEN "signed_complete" ELSE "partially_signed")
        /\ jacket' = IF complete
                     THEN [jacket EXCEPT ![packages[p].jacket].state = "signed_complete"]
                     ELSE jacket

signAsCustomer(p) ==
    /\ TokenValid(p)
    /\ ceremony[p].signers["customer"] = "consented"
    /\ Signable(p, "customer")
    /\ Signed(p, "customer")
    /\ UNCHANGED <<time, configVars, approved, lastVersion, party, items, callbacks>>

\* The sending manager consents and signs in one request; a refused signature leaves
\* the consent behind.
signAsDealerRepresentative(p) ==
    LET r == "dealer_representative"
    IN  /\ \/ Consentable(p, r)
           \/ ceremony[p].signers[r] = "consented"
        /\ IF Signable(p, r)
           THEN Signed(p, r)
           ELSE /\ Consentable(p, r)
                /\ SetSigner(p, r, "consented")
                /\ UNCHANGED <<packages, jacket>>
        /\ UNCHANGED <<time, configVars, approved, lastVersion, party, items, callbacks>>

\* Mutant of declineAsCustomer: the package keeps waiting for signatures.
declineAsCustomer_PackageStays(p) ==
    /\ TokenValid(p)
    /\ ceremony[p].signers["customer"] \notin {"declined", "signed"}
    /\ CeremonyOpen(p)
    /\ ceremony' = [ceremony EXCEPT ![p].signers["customer"] = "declined",
                                    ![p].state = "declined"]
    /\ UNCHANGED <<time, configVars, approved, lastVersion, party, jacket, items, packages,
                   callbacks>>

declineAsCustomer(p) ==
    /\ TokenValid(p)
    /\ ceremony[p].signers["customer"] \notin {"declined", "signed"}
    /\ CeremonyOpen(p)
    /\ ceremony' = [ceremony EXCEPT ![p].signers["customer"] = "declined",
                                    ![p].state = "declined"]
    /\ packages' = [packages EXCEPT ![p].state =
            IF @ \in {"sent", "partially_signed"} THEN "voided" ELSE @]
    /\ UNCHANGED <<time, configVars, approved, lastVersion, party, jacket, items, callbacks>>

ExpiredSigner(state) ==
    IF state \in {"none", "signed", "declined", "expired"} THEN state ELSE "expired"

\* Mutant of Due: a ceremony somebody has signed in is not looked for.
Due_Unsigned(p) == ceremony[p].state = "sent" /\ ceremony[p].expires <= time

Due(p) == CeremonyOpen(p) /\ ceremony[p].expires <= time

\* One ceremony of expireDueCeremoniesForTenant's batch.
expireDueCeremony(p) ==
    /\ Due(p)
    /\ ceremony' = [ceremony EXCEPT
            ![p].state = "expired",
            ![p].signers = [r \in SIGNER_ROLES |-> ExpiredSigner(ceremony[p].signers[r])]]
    /\ packages' = [packages EXCEPT ![p].state =
            IF @ \in {"sent", "partially_signed"} THEN "expired" ELSE @]
    /\ UNCHANGED <<time, configVars, approved, lastVersion, party, jacket, items, callbacks>>

--------------------------------------------------------------------------------
(* Provider callbacks and legal holds *)

\* What our ledger says, in the provider's words.
ourStateAsClaimed(p) ==
    CASE ceremony[p].state = "voided" -> "expired"
      [] ceremony[p].state = "sent" ->
            IF \E r \in Invited(p) : ceremony[p].signers[r] \in {"viewed", "consented"}
            THEN "viewed" ELSE "sent"
      [] OTHER -> ceremony[p].state

\* A provider's claim is recorded once and compared; it moves nothing.
recordProviderCallback(p, e, claimed) ==
    /\ ceremony[p].state # "none"
    /\ callbacks[e] = "none"
    /\ callbacks' = [callbacks EXCEPT ![e] =
            IF claimed = ourStateAsClaimed(p) THEN "agrees" ELSE "disagrees"]
    /\ UNCHANGED <<time, configVars, approved, lastVersion, party, jacket, items, packages,
                   ceremony>>

\* placeLegalHold and liftLegalHold: an event, and the flag of every document so far.
moveHold(s, placed) ==
    /\ jacket[s].state # "none"
    /\ jacket[s].held # placed
    /\ jacket' = [jacket EXCEPT ![s].held = placed]
    /\ packages' = [p \in Package |->
            IF packages[p].jacket = s /\ packages[p].documents # {}
            THEN [packages[p] EXCEPT !.legalHold = placed] ELSE packages[p]]
    /\ UNCHANGED <<time, configVars, approved, lastVersion, party, items, ceremony, callbacks>>

--------------------------------------------------------------------------------
(* Specification *)

JacketTick ==
    /\ time < MaxTime
    /\ time' = time + 1
    /\ UNCHANGED <<configVars, jacketVars>>

Init ==
    /\ ConfigInit
    /\ approved = 0
    /\ lastVersion = 0
    /\ party = 0
    /\ jacket = [s \in Scenario |-> NoJacket]
    /\ items = [s \in Scenario |-> {}]
    /\ packages = <<>>
    /\ ceremony = <<>>
    /\ callbacks = [e \in ProviderEvent |-> "none"]

Configure == ConfigNext /\ UNCHANGED <<time, jacketVars>>

DeskStep == DeskApproves \/ PartyEdited

StaffStep ==
    \/ \E requirementRows \in pickMostSpecific(requirements) : openJacket(requirementRows)
    \/ \E s \in Scenario :
        \/ \E ts \in pickMostSpecific(templates) : assemblePackage(s, ts)
        \/ voidJacket(s)
        \/ \E placed \in BOOLEAN : moveHold(s, placed)
        \/ \E i \in items[s] : satisfyWithEvidence(s, i) \/ waiveRequirement(s, i)
    \/ \E p \in Package :
        \/ markReviewReady(p)
        \/ reviewPackage(p)
        \/ voidPackage(p)
        \/ sendPackage(p)
        \/ signAsDealerRepresentative(p)

CustomerStep ==
    \E p \in Package :
        \/ openSignerSession(p)
        \/ consentToElectronicRecords(p)
        \/ signAsCustomer(p)
        \/ declineAsCustomer(p)

\* runCeremonyExpiryPass: the tenants it lists, one after the other.
ExpirySweep == Visited /\ \E p \in Package : expireDueCeremony(p)

ProviderStep ==
    \E p \in Package, e \in ProviderEvent, claimed \in ProviderClaim :
        recordProviderCallback(p, e, claimed)

Next ==
    \/ Configure
    \/ DeskStep
    \/ StaffStep
    \/ CustomerStep
    \/ ExpirySweep
    \/ ProviderStep
    \/ JacketTick

JacketNext ==
    \/ Next /\ UNCHANGED standing
    \/ TenantsMove /\ UNCHANGED vars

\* Time passes, and the worker's sweep of the tenants it visits runs again and again.
JacketFairness == WF_vars(JacketTick) /\ WF_vars(ExpirySweep)

Spec == Init /\ TenantsInit /\ [][JacketNext]_<<vars, standing>> /\ JacketFairness

--------------------------------------------------------------------------------
(* Properties *)

JacketTypeOK ==
    /\ ConfigTypeOK /\ standing \in Standing
    /\ approved \in 0..MaxScenario /\ lastVersion \in 0..MaxScenario /\ party \in 0..MaxParty
    /\ \A s \in Scenario : /\ jacket[s].state \in JacketState /\ jacket[s].held \in BOOLEAN
                          /\ items[s] \subseteq ChecklistItemView
    /\ Len(packages) = Len(ceremony)
    /\ \A p \in Package : packages[p] \in PackageView /\ ceremony[p] \in CeremonyView

\* A ceremony takes signatures exactly as long as its package waits for them, and a
\* package is partly or completely signed exactly when that is what its signers did:
\* through signing, declining, expiry, voiding of package or jacket, and supersession.
CeremonyMatchesPackage ==
    \A p \in Package :
        LET c == ceremony[p]
            signed == {r \in Invited(p) : c.signers[r] = "signed"}
        IN  /\ CeremonyOpen(p) <=> packages[p].state \in {"sent", "partially_signed"}
            /\ packages[p].state = "sent" => c.state = "sent" /\ signed = {}
            /\ packages[p].state = "partially_signed" =>
                    c.state = "in_progress" /\ signed # {} /\ signed # Invited(p)
            /\ packages[p].state = "signed_complete" => c.state = "completed"
            /\ c.state = "completed" => /\ signed = Invited(p)
                                        /\ packages[p].state \in
                                                {"signed_complete", "superseded"}

\* predecessorPackageWithin takes one row: at most one package of a jacket may be live
\* or completed, and the unique index covers only the live ones.  A voided jacket has
\* no live package, and a case never has two jackets in use.
OneCurrentPackage ==
    /\ \A p, q \in Package :
        (/\ packages[p].jacket = packages[q].jacket
         /\ {packages[p].state, packages[q].state}
                \subseteq LIVE_PACKAGE_STATES \cup {"signed_complete"}) => p = q
    /\ \A p \in Package : jacket[packages[p].jacket].state = "voided" =>
            packages[p].state \notin LIVE_PACKAGE_STATES
    /\ Cardinality({s \in Scenario : jacket[s].state \in {"open", "signed_complete"}}) <= 1

\* A document of a jacket carries the hold exactly while the jacket is under one,
\* whichever was first, the hold or the document.
HoldCoversDocuments ==
    \A p \in Package : packages[p].documents # {} =>
        packages[p].legalHold = jacket[packages[p].jacket].held

\* The paperwork is well formed whatever the configuration does meanwhile: a jacket has one
\* package in force, its documents carry its hold, and at every moment one template and one
\* requirement answers for a code, but for rows of a rooftop with and without its legal
\* entity (assembly.ts, holds.ts, configuration.ts).
JacketIsWellFormed ==
    JacketTypeOK /\ OneCurrentPackage /\ HoldCoversDocuments /\ OnlyRooftopRowsTie

\* "A signature once written is never rewritten": nothing done to a ceremony, its
\* package or its jacket afterwards takes a signature back, and a signer who has to
\* follow another one never precedes him.
SignaturesStand ==
    [][\A p \in Package : \A r \in Invited(p) :
        /\ ceremony[p].signers[r] = "signed" => ceremony'[p].signers[r] = "signed"
        /\ (ceremony[p].signers[r] # "signed" /\ ceremony'[p].signers[r] = "signed") =>
                \A q \in Invited(p) : ROLE_ORDER[q] < ROLE_ORDER[r] =>
                    ceremony[p].signers[q] = "signed"]_vars

EveryCeremonyEnds ==
    \A p \in 1..MaxPackage :
        (p \in Package /\ CeremonyOpen(p)) ~> (p \in Package /\ ~CeremonyOpen(p))

\* No ceremony of a tenant the worker comes to visit for good waits for ever: it is
\* completed, declined, voided or, by the sweep, expired, whatever tenants were ahead of
\* this one or failed before it in the meantime.
CeremoniesEnd == <>[]Visited => EveryCeremonyEnds

\* "One pass over every active tenant" (runCeremonyExpiryPass): the list has a limit, and
\* what a tenant ahead throws ends the pass.  Refuted: see the README, section 5.
CeremoniesOfActiveTenantsEnd == <>[]standing.active => EveryCeremonyEnds

\* "A jacket that had finished signing and is re-assembled is open paperwork again":
\* a jacket that says its signing is complete has a package that is.
\* Refuted: see the README, section 5.
SignedJacketHasItsPackage ==
    \A s \in Scenario : jacket[s].state = "signed_complete" =>
        \E p \in Package : packages[p].jacket = s /\ packages[p].state = "signed_complete"

================================================================================
