------------------------- MODULE DocumentConfiguration -------------------------
(***************************************************************************)
(* The configured paperwork of a jurisdiction: document templates, the     *)
(* requirements a deal's checklist is resolved from, and the retention     *)
(* policy, each a row with a scope and a half-open interval of effect.     *)
(*                                                                         *)
(* Source: packages/jacket/src/configuration.ts and the exclusion          *)
(* constraints of migrations/066_deal_jacket_documents_esign.sql.          *)
(*                                                                         *)
(* Rows of another jurisdiction, of a rooftop the jacket is not at or of   *)
(* another transaction type never match the deal and are left out; what a  *)
(* row's text says is left out too, but for whether it names a field this  *)
(* deal does not carry.                                                    *)
(***************************************************************************)
EXTENDS Naturals, FiniteSets, FiniteSetsExt

CONSTANTS
    TemplateInput,     \* the RecordTemplateInputs that are posted
    RequirementInput,  \* the RecordRequirementInputs that are posted
    RetentionInput,    \* the RecordRetentionPolicyInputs that are posted
    MaxTime            \* bound: instants of the clock

VARIABLES
    time,          \* the wall clock
    templates,     \* rows of document_templates
    requirements,  \* rows of document_requirements
    retention      \* rows of retention_policies

configVars == <<templates, requirements, retention>>

--------------------------------------------------------------------------------
(* Rows *)

\* effective_to IS NULL: later than every instant.
OpenEnd == MaxTime + 2

\* Which of legal_entity_id and rooftop_id the row names.
SCOPES == {"tenant", "legal_entity", "rooftop", "legal_entity_and_rooftop"}
TemplateApprovalStatus == {"unapproved_sample", "approved", "withdrawn"}
SIGNER_ROLES == {"customer", "co_buyer", "dealer_representative"}

TemplateView ==
    [code : STRING, version : Nat \ {0}, scope : SCOPES, typed : BOOLEAN,
     from : 0..MaxTime, to : 1..OpenEnd, approvalStatus : TemplateApprovalStatus,
     roles : SUBSET SIGNER_ROLES, resolves : BOOLEAN]

RequirementView ==
    [code : STRING, version : Nat \ {0}, scope : SCOPES, typed : BOOLEAN,
     from : 0..MaxTime, to : 1..OpenEnd, satisfiedBy : {"template", "evidence"},
     templateCode : STRING, required : BOOLEAN, waivable : BOOLEAN]

RetentionPolicyView == [version : Nat \ {0}, from : 0..MaxTime, to : 1..OpenEnd]

RecordTemplateInput ==
    [code : STRING, scope : SCOPES, typed : BOOLEAN, from : 0..MaxTime, to : 1..OpenEnd,
     approvalStatus : TemplateApprovalStatus, roles : SUBSET SIGNER_ROLES,
     resolves : BOOLEAN, closesPredecessor : BOOLEAN]

RecordRequirementInput ==
    [code : STRING, scope : SCOPES, typed : BOOLEAN, from : 0..MaxTime, to : 1..OpenEnd,
     satisfiedBy : {"template", "evidence"}, templateCode : STRING, required : BOOLEAN,
     waivable : BOOLEAN, closesPredecessor : BOOLEAN]

ASSUME InputAssumption ==
    /\ TemplateInput \subseteq RecordTemplateInput
    /\ RequirementInput \subseteq RecordRequirementInput
    /\ RetentionInput \subseteq [from : 0..MaxTime, to : 1..OpenEnd]
    /\ MaxTime \in Nat

--------------------------------------------------------------------------------
(* Recording *)

intervalProblem(i) == i.to <= i.from

SameScope(r, i) == r.code = i.code /\ r.scope = i.scope /\ r.typed = i.typed

\* The row closesPredecessor ends where the new one starts.
OpenPredecessor(rows, i) == {r \in rows : SameScope(r, i) /\ r.to = OpenEnd}

closeOpenEndedPredecessor(rows, i) ==
    {IF r \in OpenPredecessor(rows, i) THEN [r EXCEPT !.to = i.from] ELSE r : r \in rows}

\* Whether the predecessor can be ended there: it starts before the new row does.
PredecessorStartsBefore(rows, i) == \A r \in OpenPredecessor(rows, i) : r.from < i.from

\* tstzrange(effective_from, effective_to) && of the exclusion constraints.
Overlap(r, i) == r.from < i.to /\ i.from < r.to

nextVersion(rows) == 1 + Max({0} \cup {r.version : r \in rows})

\* The table after the transaction that records input i.  An exclusion violation
\* (isExclusionViolation) aborts the transaction, the closed predecessor included.
Recorded(rows, i, row) ==
    LET kept == IF i.closesPredecessor THEN closeOpenEndedPredecessor(rows, i) ELSE rows
    IN  IF \E r \in kept : SameScope(r, i) /\ Overlap(r, i) THEN rows ELSE kept \cup {row}

recordTemplate(i) ==
    /\ i.roles # {}
    /\ ~intervalProblem(i)
    /\ i.closesPredecessor => PredecessorStartsBefore(templates, i)
    /\ templates' = Recorded(templates, i,
            [code |-> i.code, scope |-> i.scope, typed |-> i.typed, from |-> i.from,
             to |-> i.to, approvalStatus |-> i.approvalStatus, roles |-> i.roles,
             resolves |-> i.resolves,
             version |-> nextVersion({r \in templates : r.code = i.code})])
    /\ UNCHANGED <<requirements, retention>>

recordRequirement(i) ==
    /\ ~intervalProblem(i)
    /\ i.closesPredecessor => PredecessorStartsBefore(requirements, i)
    /\ requirements' = Recorded(requirements, i,
            [code |-> i.code, scope |-> i.scope, typed |-> i.typed, from |-> i.from,
             to |-> i.to, satisfiedBy |-> i.satisfiedBy, templateCode |-> i.templateCode,
             required |-> i.required, waivable |-> i.waivable,
             version |-> nextVersion({r \in requirements : r.code = i.code})])
    /\ UNCHANGED <<templates, retention>>

\* The one policy code the jacket reads; nothing closes a predecessor here.
recordRetentionPolicy(i) ==
    /\ ~intervalProblem(i)
    /\ ~\E r \in retention : Overlap(r, i)
    /\ retention' = retention
            \cup {[version |-> nextVersion(retention), from |-> i.from, to |-> i.to]}
    /\ UNCHANGED <<templates, requirements>>

--------------------------------------------------------------------------------
(* Resolution *)

NamesRooftop(r) == r.scope \in {"rooftop", "legal_entity_and_rooftop"}

\* The score of the row's scope: a rooftop, with or without its legal entity, over a legal
\* entity over the tenant, and a row for the transaction type over one for any.
specificity(r) ==
    (IF NamesRooftop(r) THEN 4 ELSE IF r.scope = "legal_entity" THEN 2 ELSE 0)
        + (IF r.typed THEN 1 ELSE 0)

\* SCOPE_PREDICATE's interval.
InForce(rows) == {r \in rows : r.from <= time /\ time < r.to}

\* The rows in force that no other one of their code in force outranks.
MostSpecific(rows) ==
    {r \in InForce(rows) : \A o \in InForce(rows) :
        o.code = r.code => specificity(o) <= specificity(r)}

\* What a resolution may return: of each code one such row, whichever of equally specific
\* ones the database returned first.
pickMostSpecific(rows) ==
    {chosen \in SUBSET MostSpecific(rows) :
        /\ \A r \in MostSpecific(rows) : \E c \in chosen : c.code = r.code
        /\ \A c, d \in chosen : c.code = d.code => c = d}

RetentionInForce == InForce(retention) # {}

--------------------------------------------------------------------------------
ConfigInit ==
    /\ time = 0
    /\ templates = {}
    /\ requirements = {}
    /\ retention = {}

ConfigNext ==
    \/ \E i \in TemplateInput : recordTemplate(i)
    \/ \E i \in RequirementInput : recordRequirement(i)
    \/ \E i \in RetentionInput : recordRetentionPolicy(i)

ConfigTypeOK ==
    /\ time \in 0..MaxTime
    /\ templates \subseteq TemplateView
    /\ requirements \subseteq RequirementView
    /\ retention \subseteq RetentionPolicyView

\* pickMostSpecific keeps the first of equally specific rows in whatever order the
\* database returned them.  Rows of a code, scope and type are never in force together,
\* through every closing of a predecessor, so that what a deal's paperwork is made from is
\* left open in one case only: a row for the rooftop beside one for the rooftop and its
\* legal entity.
OnlyRooftopRowsTie ==
    \A rows \in {templates, requirements} :
        \A r, o \in MostSpecific(rows) : r.code = o.code /\ r # o =>
            /\ {r.scope, o.scope} = {"rooftop", "legal_entity_and_rooftop"}
            /\ r.typed = o.typed

\* "A checklist that could resolve two answers cannot say what the deal needs, and the only
\* cheap place to refuse that is the write" (migration 066): the constraint takes the two
\* scopes apart and the score does not.  Refuted: see the README, section 5.
ResolutionIsDetermined ==
    \A rows \in {templates, requirements} : Cardinality(pickMostSpecific(rows)) = 1

================================================================================
