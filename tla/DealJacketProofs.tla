---------------------------- MODULE DealJacketProofs ----------------------------
(***************************************************************************)
(* The deal jacket keeps its promises for every set of inputs, however     *)
(* many versions the desk approves and packages are assembled.             *)
(*                                                                         *)
(* The configuration first: rows of one code, scope and type never         *)
(* overlap, which leaves the resolution of a code open only between rows   *)
(* of a rooftop with and without its legal entity.  Then the paperwork,    *)
(* whichever of those a resolution picks: as far as packages and           *)
(* ceremonies are concerned every step is one of five, most of them Moves, *)
(* which touches one package and its ceremony.                             *)
(***************************************************************************)
EXTENDS DealJacket, FiniteSetTheorems, TLAPS

--------------------------------------------------------------------------------
(* Configuration *)

\* No two rows of one code, scope and type are in effect at one instant.
Disjoint(rows) == \A r, o \in rows : SameScope(r, o) /\ Overlap(r, o) => r = o

\* The versions of a code, and of a table that has one code.
Versions(rows) == {0} \cup {r.version : r \in rows}
HasLatest(rows) == \E m \in Versions(rows) : \A v \in Versions(rows) : v <= m
CodesHaveLatest(rows) == \A c \in STRING : HasLatest({r \in rows : r.code = c})

\* A table whose rows have a scope, an interval that can be closed, and a version.
IsRowType(View) ==
    /\ \A r \in View : /\ r.from \in 0..MaxTime /\ r.to \in 1..OpenEnd
                       /\ r.version \in Nat \ {0} /\ r.code \in STRING
    /\ \A r \in View, t \in 1..OpenEnd :
        /\ [r EXCEPT !.to = t] \in View
        /\ [r EXCEPT !.to = t].to = t /\ [r EXCEPT !.to = t].from = r.from
        /\ [r EXCEPT !.to = t].code = r.code /\ [r EXCEPT !.to = t].scope = r.scope
        /\ [r EXCEPT !.to = t].typed = r.typed /\ [r EXCEPT !.to = t].version = r.version

ConfigInv ==
    /\ ConfigTypeOK
    /\ Disjoint(templates) /\ Disjoint(requirements)
    /\ CodesHaveLatest(templates) /\ CodesHaveLatest(requirements) /\ HasLatest(retention)

\* A row more is a version more.
LEMMA VersionsOfOneMore ==
    ASSUME NEW rows, NEW row
    PROVE  Versions(rows \cup {row}) = Versions(rows) \cup {row.version}
<1>1. ASSUME NEW v \in Versions(rows \cup {row}) PROVE v \in Versions(rows) \cup {row.version}
  BY DEF Versions
<1>2. ASSUME NEW v \in Versions(rows) \cup {row.version} PROVE v \in Versions(rows \cup {row})
  BY DEF Versions
<1> QED
  BY <1>1, <1>2

\* nextVersion is a version above every version of the rows.
LEMMA NextVersionIsLatest ==
    ASSUME NEW rows, HasLatest(rows), \A r \in rows : r.version \in Nat
    PROVE  /\ nextVersion(rows) \in Nat \ {0}
           /\ \A v \in Versions(rows) : v <= nextVersion(rows)
<1> DEFINE S == Versions(rows)
<1>1. S \subseteq Nat
  BY DEF Versions
<1>2. \E m \in S : \A v \in S : m >= v
  BY <1>1 DEF HasLatest
<1>3. Max(S) \in S /\ \A v \in S : Max(S) >= v
  <2> HIDE DEF S
  <2> QED
    BY <1>2 DEF Max
<1>4. nextVersion(rows) = 1 + Max(S)
  BY DEF nextVersion, Versions
<1> HIDE DEF S
<1>a. PICK m \in Nat : m = Max(S)
  BY <1>1, <1>3
<1>5. \A v \in S : v <= nextVersion(rows)
  <2> SUFFICES ASSUME NEW v \in S PROVE v <= 1 + m
    BY <1>4, <1>a
  <2> QED
    BY <1>1, <1>3, <1>a
<1>6. nextVersion(rows) \in Nat \ {0}
  <2>1. 1 + m \in Nat \ {0}
    OBVIOUS
  <2> QED
    BY <2>1, <1>4, <1>a
<1> QED
  BY <1>5, <1>6 DEF S

\* What recording keeps, for a table of rows of type View: the types, that no two rows of
\* one scope overlap, and that a code has a latest version.
LEMMA RecordedKeepsRows ==
    ASSUME NEW View, NEW rows, rows \subseteq View, NEW i, NEW row, row \in View,
           MaxTime \in Nat, IsRowType(View),
           i.from \in 0..MaxTime, i.to \in 1..OpenEnd, i.code \in STRING,
           i.closesPredecessor => PredecessorStartsBefore(rows, i),
           SameScope(row, i), row.from = i.from, row.to = i.to,
           row.version = nextVersion({r \in rows : r.code = i.code}),
           Disjoint(rows), CodesHaveLatest(rows)
    PROVE  /\ Recorded(rows, i, row) \subseteq View
           /\ Disjoint(Recorded(rows, i, row))
           /\ CodesHaveLatest(Recorded(rows, i, row))
<1> USE DEF IsRowType
<1> DEFINE closed(r) == IF r \in OpenPredecessor(rows, i) THEN [r EXCEPT !.to = i.from] ELSE r
           kept == IF i.closesPredecessor THEN closeOpenEndedPredecessor(rows, i) ELSE rows
<1>1. ASSUME i.closesPredecessor, NEW r \in rows
      PROVE  /\ closed(r) \in View
             /\ closed(r).from = r.from /\ closed(r).to <= r.to
             /\ closed(r).code = r.code /\ closed(r).scope = r.scope /\ closed(r).typed = r.typed
             /\ closed(r).version = r.version
  <2>1. CASE r \in OpenPredecessor(rows, i)
    <3>1. i.from \in 1..OpenEnd /\ i.from <= r.to
      BY <2>1, <1>1 DEF OpenPredecessor, PredecessorStartsBefore, OpenEnd
    <3> QED
      BY <2>1, <3>1
  <2>2. CASE r \notin OpenPredecessor(rows, i)
    BY <2>2
  <2> QED
    BY <2>1, <2>2
<1>2. i.closesPredecessor => kept = {closed(r) : r \in rows}
  BY DEF closeOpenEndedPredecessor
<1> HIDE DEF closed
<1>3. kept \subseteq View
  BY <1>1, <1>2
<1>4. Disjoint(kept)
  <2>1. CASE ~i.closesPredecessor
    BY <2>1
  <2>2. CASE i.closesPredecessor
    <3> SUFFICES ASSUME NEW x \in kept, NEW y \in kept, SameScope(x, y), Overlap(x, y)
                 PROVE  x = y
      BY DEF Disjoint
    <3>1. PICK r \in rows, o \in rows : x = closed(r) /\ y = closed(o)
      BY <2>2, <1>2
    <3>2. /\ r.from \in Nat /\ r.to \in Nat /\ o.from \in Nat /\ o.to \in Nat
          /\ x.to \in Nat /\ y.to \in Nat
      BY <3>1, <1>3 DEF OpenEnd
    <3>3. SameScope(r, o) /\ Overlap(r, o)
      BY <2>2, <1>1, <3>1, <3>2 DEF SameScope, Overlap
    <3> QED
      BY <3>1, <3>3 DEF Disjoint
  <2> QED
    BY <2>1, <2>2
<1>5. \A c \in STRING : Versions({r \in kept : r.code = c}) = Versions({r \in rows : r.code = c})
  <2>1. CASE ~i.closesPredecessor
    BY <2>1
  <2>2. CASE i.closesPredecessor
    <3> SUFFICES ASSUME NEW c \in STRING
                 PROVE  {r.version : r \in {q \in kept : q.code = c}}
                            = {r.version : r \in {q \in rows : q.code = c}}
      BY DEF Versions
    <3>1. ASSUME NEW r \in rows, r.code = c
          PROVE  \E x \in {q \in kept : q.code = c} : x.version = r.version
      BY <3>1, <2>2, <1>1, <1>2
    <3>2. ASSUME NEW x \in kept, x.code = c
          PROVE  \E r \in {q \in rows : q.code = c} : x.version = r.version
      BY <3>2, <2>2, <1>1, <1>2
    <3> QED
      BY <3>1, <3>2
  <2> QED
    BY <2>1, <2>2
<1> HIDE DEF kept
<1>6. CodesHaveLatest(kept)
  BY <1>5 DEF CodesHaveLatest, HasLatest
<1>7. CASE \E r \in kept : SameScope(r, i) /\ Overlap(r, i)
  <2>1. Recorded(rows, i, row) = rows
    BY <1>7 DEF Recorded, kept
  <2> QED
    BY <2>1
<1>8. CASE ~\E r \in kept : SameScope(r, i) /\ Overlap(r, i)
  <2>1. Recorded(rows, i, row) = kept \cup {row}
    BY <1>8 DEF Recorded, kept
  <2>2. Disjoint(kept \cup {row})
    <3>1. ASSUME NEW r \in kept PROVE ~(SameScope(r, row) /\ Overlap(r, row))
      BY <1>8 DEF SameScope, Overlap
    <3>2. ASSUME NEW r \in kept PROVE ~(SameScope(row, r) /\ Overlap(row, r))
      BY <1>8 DEF SameScope, Overlap
    <3> QED
      BY <1>4, <3>1, <3>2 DEF Disjoint
  <2>3. CodesHaveLatest(kept \cup {row})
    <3> SUFFICES ASSUME NEW c \in STRING
                 PROVE  HasLatest({r \in kept \cup {row} : r.code = c})
      BY DEF CodesHaveLatest
    <3>1. CASE c # i.code
      <4>1. {r \in kept \cup {row} : r.code = c} = {r \in kept : r.code = c}
        BY <3>1 DEF SameScope
      <4> QED
        BY <4>1, <1>6 DEF CodesHaveLatest
    <3>2. CASE c = i.code
      <4> DEFINE old == {r \in rows : r.code = c}
      <4>1. HasLatest(old) /\ \A r \in old : r.version \in Nat
        BY DEF CodesHaveLatest
      <4>2. row.version \in Nat \ {0} /\ \A v \in Versions(old) : v <= row.version
        <5> HIDE DEF old
        <5>1. row.version = nextVersion(old)
          BY <3>2 DEF old
        <5>2. nextVersion(old) \in Nat \ {0} /\ \A v \in Versions(old) : v <= nextVersion(old)
          BY ONLY <4>1, NextVersionIsLatest
        <5> QED
          BY ONLY <5>1, <5>2
      <4>3. Versions({r \in kept \cup {row} : r.code = c}) = Versions({r \in kept : r.code = c}) \cup {row.version}
        <5>1. {r \in kept \cup {row} : r.code = c} = {r \in kept : r.code = c} \cup {row}
          BY <3>2 DEF SameScope
        <5> DEFINE before == {r \in kept : r.code = c}
                   after == {r \in kept \cup {row} : r.code = c}
        <5>3. after = before \cup {row}
          BY <5>1
        <5> HIDE DEF before, after
        <5>2. Versions(before \cup {row}) = Versions(before) \cup {row.version}
          BY ONLY VersionsOfOneMore
        <5>4. Versions(after) = Versions(before) \cup {row.version}
          BY <5>2, <5>3
        <5> QED
          BY <5>4 DEF before, after
      <4>4. Versions({r \in kept \cup {row} : r.code = c}) = Versions(old) \cup {row.version}
        BY <4>3, <1>5
      <4>5. row.version <= row.version
        BY <4>2
      <4> HIDE DEF old
      <4> QED
        BY <4>2, <4>4, <4>5 DEF HasLatest
    <3> QED
      BY <3>1, <3>2
  <2> QED
    BY <2>1, <2>2, <2>3, <1>3
<1> QED
  BY <1>7, <1>8

\* Recording a template, a requirement or a retention policy keeps the tables in order.
LEMMA ConfigStep ==
    ASSUME ConfigInv, ConfigNext, time' \in 0..MaxTime
    PROVE  ConfigInv'
<1> USE InputAssumption
<1>1. ASSUME NEW i \in TemplateInput, recordTemplate(i) PROVE ConfigInv'
  <2>1. i \in RecordTemplateInput
    OBVIOUS
  <2>2. /\ i.from \in 0..MaxTime /\ i.to \in 1..OpenEnd /\ i.code \in STRING
        /\ i.scope \in SCOPES /\ i.typed \in BOOLEAN /\ i.roles \in SUBSET SIGNER_ROLES
        /\ i.resolves \in BOOLEAN /\ i.approvalStatus \in TemplateApprovalStatus
    BY <2>1 DEF RecordTemplateInput
  <2> DEFINE same == {r \in templates : r.code = i.code}
             row == [code |-> i.code, scope |-> i.scope, typed |-> i.typed, from |-> i.from,
                     to |-> i.to, approvalStatus |-> i.approvalStatus, roles |-> i.roles,
                     resolves |-> i.resolves, version |-> nextVersion(same)]
  <2>3. templates \subseteq TemplateView /\ Disjoint(templates) /\ CodesHaveLatest(templates)
    BY DEF ConfigInv, ConfigTypeOK
  <2>4. nextVersion(same) \in Nat \ {0}
    <3>1. HasLatest(same) /\ \A r \in same : r.version \in Nat
      BY <2>2, <2>3 DEF CodesHaveLatest, TemplateView
    <3> QED
      BY <3>1, NextVersionIsLatest
  <2>5. row \in TemplateView
    BY <2>2, <2>4 DEF TemplateView
  <2>6. /\ SameScope(row, i) /\ row.from = i.from /\ row.to = i.to
        /\ row.version = nextVersion({r \in templates : r.code = i.code})
    BY DEF SameScope
  <2>7. /\ templates' = Recorded(templates, i, row)
        /\ i.closesPredecessor => PredecessorStartsBefore(templates, i)
        /\ UNCHANGED <<requirements, retention>>
    BY <1>1 DEF recordTemplate
  <2> HIDE DEF row
  <2>8. IsRowType(TemplateView)
    BY DEF IsRowType, TemplateView
  <2>10. /\ Recorded(templates, i, row) \subseteq TemplateView
         /\ Disjoint(Recorded(templates, i, row))
         /\ CodesHaveLatest(Recorded(templates, i, row))
    BY <2>2, <2>3, <2>5, <2>6, <2>7, <2>8, RecordedKeepsRows
  <2> QED
    BY <2>7, <2>10 DEF ConfigInv, ConfigTypeOK
<1>2. ASSUME NEW i \in RequirementInput, recordRequirement(i) PROVE ConfigInv'
  <2>1. i \in RecordRequirementInput
    OBVIOUS
  <2>2. /\ i.from \in 0..MaxTime /\ i.to \in 1..OpenEnd /\ i.code \in STRING
        /\ i.scope \in SCOPES /\ i.typed \in BOOLEAN /\ i.satisfiedBy \in {"template", "evidence"}
        /\ i.templateCode \in STRING /\ i.required \in BOOLEAN /\ i.waivable \in BOOLEAN
    BY <2>1 DEF RecordRequirementInput
  <2> DEFINE same == {r \in requirements : r.code = i.code}
             row == [code |-> i.code, scope |-> i.scope, typed |-> i.typed, from |-> i.from,
                     to |-> i.to, satisfiedBy |-> i.satisfiedBy, templateCode |-> i.templateCode,
                     required |-> i.required, waivable |-> i.waivable,
                     version |-> nextVersion(same)]
  <2>3. requirements \subseteq RequirementView /\ Disjoint(requirements) /\ CodesHaveLatest(requirements)
    BY DEF ConfigInv, ConfigTypeOK
  <2>4. nextVersion(same) \in Nat \ {0}
    <3>1. HasLatest(same) /\ \A r \in same : r.version \in Nat
      BY <2>2, <2>3 DEF CodesHaveLatest, RequirementView
    <3> QED
      BY <3>1, NextVersionIsLatest
  <2>5. row \in RequirementView
    BY <2>2, <2>4 DEF RequirementView
  <2>6. /\ SameScope(row, i) /\ row.from = i.from /\ row.to = i.to
        /\ row.version = nextVersion({r \in requirements : r.code = i.code})
    BY DEF SameScope
  <2>7. /\ requirements' = Recorded(requirements, i, row)
        /\ i.closesPredecessor => PredecessorStartsBefore(requirements, i)
        /\ UNCHANGED <<templates, retention>>
    BY <1>2 DEF recordRequirement
  <2> HIDE DEF row
  <2>8. IsRowType(RequirementView)
    BY DEF IsRowType, RequirementView
  <2>10. /\ Recorded(requirements, i, row) \subseteq RequirementView
         /\ Disjoint(Recorded(requirements, i, row))
         /\ CodesHaveLatest(Recorded(requirements, i, row))
    BY <2>2, <2>3, <2>5, <2>6, <2>7, <2>8, RecordedKeepsRows
  <2> QED
    BY <2>7, <2>10 DEF ConfigInv, ConfigTypeOK
<1>3. ASSUME NEW i \in RetentionInput, recordRetentionPolicy(i) PROVE ConfigInv'
  <2> DEFINE row == [version |-> nextVersion(retention), from |-> i.from, to |-> i.to]
  <2>1. retention \subseteq RetentionPolicyView /\ HasLatest(retention)
    BY DEF ConfigInv, ConfigTypeOK
  <2>2. /\ nextVersion(retention) \in Nat \ {0}
        /\ \A v \in Versions(retention) : v <= nextVersion(retention)
    BY <2>1, NextVersionIsLatest DEF RetentionPolicyView
  <2>3. i.from \in 0..MaxTime /\ i.to \in 1..OpenEnd
    OBVIOUS
  <2>4. row \in RetentionPolicyView /\ row.version = nextVersion(retention)
    BY <2>2, <2>3 DEF RetentionPolicyView
  <2>5. retention' = retention \cup {row} /\ UNCHANGED <<templates, requirements>>
    BY <1>3 DEF recordRetentionPolicy
  <2> HIDE DEF row
  <2>6. Versions(retention \cup {row}) = Versions(retention) \cup {row.version}
    BY ONLY VersionsOfOneMore
  <2>7. HasLatest(retention \cup {row})
    <3>1. row.version <= row.version
      BY <2>2, <2>4
    <3> QED
      BY <2>2, <2>4, <2>6, <3>1 DEF HasLatest
  <2> QED
    BY <2>1, <2>4, <2>5, <2>7 DEF ConfigInv, ConfigTypeOK
<1> QED
  BY <1>1, <1>2, <1>3 DEF ConfigNext

\* The score tells types apart, and scopes but for the two that name the rooftop.
LEMMA ScoreTellsScopes ==
    ASSUME NEW r, NEW o, r.scope \in SCOPES, o.scope \in SCOPES, r.typed \in BOOLEAN,
           o.typed \in BOOLEAN, specificity(r) <= specificity(o), specificity(o) <= specificity(r)
    PROVE  /\ r.typed = o.typed
           /\ r.scope = o.scope \/ {r.scope, o.scope} = {"rooftop", "legal_entity_and_rooftop"}
<1>1. r.typed = o.typed
  BY DEF specificity, NamesRooftop, SCOPES
<1>2. NamesRooftop(r) = NamesRooftop(o) /\ (~NamesRooftop(r) => r.scope = o.scope)
  BY DEF specificity, NamesRooftop, SCOPES
<1> QED
  BY <1>1, <1>2 DEF NamesRooftop

\* Where rows of one scope never overlap, only rows of the rooftop are in force together.
LEMMA DisjointTies ==
    ASSUME NEW rows, Disjoint(rows), time \in Nat,
           \A r \in rows : /\ r.from \in Nat /\ r.to \in Nat /\ r.scope \in SCOPES
                           /\ r.typed \in BOOLEAN,
           NEW r \in MostSpecific(rows), NEW o \in MostSpecific(rows), r.code = o.code, r # o
    PROVE  /\ {r.scope, o.scope} = {"rooftop", "legal_entity_and_rooftop"}
           /\ r.typed = o.typed
<1>1. /\ r \in rows /\ o \in rows
      /\ r.from <= time /\ time < r.to /\ o.from <= time /\ time < o.to
      /\ specificity(r) <= specificity(o) /\ specificity(o) <= specificity(r)
  BY DEF MostSpecific, InForce
<1>2. Overlap(r, o)
  BY <1>1 DEF Overlap
<1>3. ~SameScope(r, o)
  BY <1>1, <1>2 DEF Disjoint
<1>4. /\ r.typed = o.typed
      /\ r.scope = o.scope \/ {r.scope, o.scope} = {"rooftop", "legal_entity_and_rooftop"}
  BY <1>1, ScoreTellsScopes
<1> QED
  BY <1>3, <1>4 DEF SameScope

\* The configuration's part of JacketIsWellFormed.
LEMMA ConfigTies == ASSUME ConfigInv PROVE OnlyRooftopRowsTie
<1> USE InputAssumption
<1> DEFINE Tie(r, o) == /\ {r.scope, o.scope} = {"rooftop", "legal_entity_and_rooftop"}
                        /\ r.typed = o.typed
<1>1. time \in Nat
  BY DEF ConfigInv, ConfigTypeOK
<1>2. \A r \in templates : r.from \in Nat /\ r.to \in Nat /\ r.scope \in SCOPES /\ r.typed \in BOOLEAN
  BY DEF ConfigInv, ConfigTypeOK, TemplateView, OpenEnd
<1>3. \A r \in requirements : r.from \in Nat /\ r.to \in Nat /\ r.scope \in SCOPES /\ r.typed \in BOOLEAN
  BY DEF ConfigInv, ConfigTypeOK, RequirementView, OpenEnd
<1>4. ASSUME NEW r \in MostSpecific(templates), NEW o \in MostSpecific(templates), r.code = o.code, r # o
      PROVE  Tie(r, o)
  BY <1>1, <1>2, <1>4, DisjointTies DEF ConfigInv
<1>5. ASSUME NEW r \in MostSpecific(requirements), NEW o \in MostSpecific(requirements), r.code = o.code, r # o
      PROVE  Tie(r, o)
  BY <1>1, <1>3, <1>5, DisjointTies DEF ConfigInv
<1> QED
  BY <1>4, <1>5 DEF OnlyRooftopRowsTie

\* A resolution is made of rows that were recorded.
LEMMA ChosenAreRows ==
    ASSUME NEW rows, NEW chosen \in pickMostSpecific(rows)
    PROVE  chosen \subseteq rows
BY DEF pickMostSpecific, MostSpecific, InForce

--------------------------------------------------------------------------------
(* The paperwork *)

\* Opening and assembly, whichever of equally specific rows is picked.
Opens == \E rows \in pickMostSpecific(requirements) : openJacket(rows)
Assembles(s) == \E ts \in pickMostSpecific(templates) : assemblePackage(s, ts)

JacketRow == [state : JacketState, held : BOOLEAN]
IN_USE == {"open", "signed_complete"}
CURRENT == LIVE_PACKAGE_STATES \cup {"signed_complete"}

PaperTyped ==
    /\ approved \in 0..MaxScenario /\ lastVersion \in 0..MaxScenario /\ party \in 0..MaxParty
    /\ jacket \in [Scenario -> JacketRow]
    /\ items \in [Scenario -> SUBSET ChecklistItemView]
    /\ packages \in Seq(PackageView) /\ ceremony \in Seq(CeremonyView)
    /\ Len(packages) = Len(ceremony) /\ Len(packages) <= MaxPackage

\* CeremonyMatchesPackage of one package and its ceremony; and nobody is invited before
\* there is a ceremony.
Matches(k, c) ==
    /\ c.state \in {"sent", "in_progress"} <=> k.state \in {"sent", "partially_signed"}
    /\ k.state = "sent" => c.state = "sent" /\ \A r \in SIGNER_ROLES : c.signers[r] # "signed"
    /\ k.state = "partially_signed" =>
            /\ c.state = "in_progress"
            /\ \E r \in SIGNER_ROLES : c.signers[r] = "signed"
            /\ \E r \in SIGNER_ROLES : c.signers[r] \notin {"none", "signed"}
    /\ k.state = "signed_complete" => c.state = "completed"
    /\ c.state = "completed" => /\ \A r \in SIGNER_ROLES : c.signers[r] \in {"none", "signed"}
                                /\ k.state \in {"signed_complete", "superseded"}
    /\ c.state = "none" => \A r \in SIGNER_ROLES : c.signers[r] = "none"

AllMatch == \A p \in Package : Matches(packages[p], ceremony[p])
OneCurrent ==
    \A p, q \in Package :
        (/\ packages[p].jacket = packages[q].jacket
         /\ packages[p].state \in CURRENT /\ packages[q].state \in CURRENT) => p = q
VoidedHasNoLive ==
    \A p \in Package : jacket[packages[p].jacket].state = "voided" =>
        packages[p].state \notin LIVE_PACKAGE_STATES
OneInUse == \A s, t \in Scenario : jacket[s].state \in IN_USE /\ jacket[t].state \in IN_USE => s = t

\* A package is only ever assembled for a jacket that was opened.
OpenedFirst == \A p \in Package : jacket[packages[p].jacket].state # "none"

PaperInv ==
    /\ PaperTyped /\ AllMatch /\ OneCurrent /\ VoidedHasNoLive /\ OneInUse /\ OpenedFirst
    /\ HoldCoversDocuments

\* Whatever was signed in c is signed in d, and what is signed in d only waited for nobody.
Stands(c, d) ==
    \A r \in SIGNER_ROLES : c.signers[r] # "none" =>
        /\ c.signers[r] = "signed" => d.signers[r] = "signed"
        /\ (c.signers[r] # "signed" /\ d.signers[r] = "signed") =>
                \A q \in SIGNER_ROLES : c.signers[q] # "none" /\ ROLE_ORDER[q] < ROLE_ORDER[r] =>
                    c.signers[q] = "signed"

\* Package p becomes k and its ceremony c.
Moves(p, k, c) ==
    /\ packages' = [packages EXCEPT ![p] = k] /\ ceremony' = [ceremony EXCEPT ![p] = c]
    /\ k \in PackageView /\ c \in CeremonyView
    /\ k.jacket = packages[p].jacket /\ k.documents = packages[p].documents
    /\ k.legalHold = packages[p].legalHold
    /\ k.state \in LIVE_PACKAGE_STATES => packages[p].state \in LIVE_PACKAGE_STATES
    /\ k.state \in CURRENT => packages[p].state \in CURRENT
    /\ Matches(k, c) /\ Stands(ceremony[p], c)
    /\ \/ jacket' = jacket
       \/ /\ packages[p].state \in LIVE_PACKAGE_STATES
          /\ jacket' = [jacket EXCEPT ![k.jacket].state = "signed_complete"]

Move == \E p \in Package, k \in PackageView, c \in CeremonyView : Moves(p, k, c)

--------------------------------------------------------------------------------
(* Which steps move one package *)

\* A package and its ceremony, as rows.
LEMMA PairTyped ==
    ASSUME PaperInv, NEW p \in Package
    PROVE  /\ packages[p] \in PackageView /\ ceremony[p] \in CeremonyView
           /\ ceremony[p].signers \in [SIGNER_ROLES -> SignerState]
           /\ p \in 1..MaxPackage /\ p \in DOMAIN packages /\ p \in DOMAIN ceremony
           /\ Matches(packages[p], ceremony[p])
<1>1. packages[p] \in PackageView /\ ceremony[p] \in CeremonyView
  BY DEF PaperInv, PaperTyped, Package
<1>2. /\ p \in 1..MaxPackage /\ p \in DOMAIN packages /\ p \in DOMAIN ceremony
  BY BoundAssumption DEF PaperInv, PaperTyped, Package
<1> QED
  BY <1>1, <1>2 DEF PaperInv, AllMatch, CeremonyView

\* A step that gives package p the state ks and its ceremony the state cs and the signers
\* sg is a Move, when it keeps what a Move keeps.
LEMMA StatesMove ==
    ASSUME PaperInv, NEW p \in Package, NEW ks \in PackageState, NEW cs \in CeremonyState,
           NEW sg \in [SIGNER_ROLES -> SignerState],
           packages' = [packages EXCEPT ![p].state = ks],
           ceremony' = [ceremony EXCEPT ![p] = [ceremony[p] EXCEPT !.state = cs, !.signers = sg]],
           ks \in LIVE_PACKAGE_STATES => packages[p].state \in LIVE_PACKAGE_STATES,
           ks \in CURRENT => packages[p].state \in CURRENT,
           Matches([state |-> ks], [state |-> cs, signers |-> sg]),
           Stands(ceremony[p], [signers |-> sg]),
           \/ jacket' = jacket
           \/ /\ packages[p].state \in LIVE_PACKAGE_STATES
              /\ jacket' = [jacket EXCEPT ![packages[p].jacket].state = "signed_complete"]
    PROVE  Move
<1> DEFINE k == [packages[p] EXCEPT !.state = ks]
           c == [ceremony[p] EXCEPT !.state = cs, !.signers = sg]
<1>1. packages[p] \in PackageView /\ ceremony[p] \in CeremonyView
  BY PairTyped
<1>2. /\ k \in PackageView /\ k.state = ks /\ k.jacket = packages[p].jacket
      /\ k.documents = packages[p].documents /\ k.legalHold = packages[p].legalHold
      /\ c \in CeremonyView /\ c.state = cs /\ c.signers = sg
  BY <1>1 DEF PackageView, CeremonyView
<1>3. packages' = [packages EXCEPT ![p] = k] /\ ceremony' = [ceremony EXCEPT ![p] = c]
  OBVIOUS
<1> HIDE DEF k, c
<1>4. Matches(k, c) /\ Stands(ceremony[p], c)
  BY <1>2 DEF Matches, Stands
<1>5. Moves(p, k, c)
  BY <1>2, <1>3, <1>4 DEF Moves
<1> QED
  BY <1>2, <1>5 DEF Move

\* Nothing about the ceremony changes.
LEMMA CeremonyStays ==
    ASSUME PaperInv, NEW p \in Package
    PROVE  /\ ceremony = [ceremony EXCEPT ![p] = [ceremony[p] EXCEPT !.state = ceremony[p].state,
                                                          !.signers = ceremony[p].signers]]
           /\ Stands(ceremony[p], [signers |-> ceremony[p].signers])
<1>1. ceremony[p] \in CeremonyView /\ p \in DOMAIN ceremony
  BY PairTyped
<1>2. ceremony[p] = [ceremony[p] EXCEPT !.state = ceremony[p].state, !.signers = ceremony[p].signers]
  BY <1>1 DEF CeremonyView
<1>3. ceremony = [ceremony EXCEPT ![p] = ceremony[p]]
  BY <1>1 DEF PaperInv, PaperTyped
<1> QED
  BY <1>2, <1>3 DEF Stands

\* The steps of a package before it is sent move it and nothing else.
LEMMA LifecycleMoves ==
    ASSUME PaperInv, NEW p \in Package,
           markReviewReady(p) \/ reviewPackage(p) \/ voidPackage(p)
    PROVE  Move
<1>0. /\ packages[p] \in PackageView /\ ceremony[p] \in CeremonyView
      /\ ceremony[p].signers \in [SIGNER_ROLES -> SignerState] /\ ceremony[p].state \in CeremonyState
      /\ Matches(packages[p], ceremony[p]) /\ p \in DOMAIN ceremony /\ p \in DOMAIN packages
  BY PairTyped DEF CeremonyView
<1> DEFINE cs == ceremony[p].state
           sg == ceremony[p].signers
<1>1. CASE markReviewReady(p)
  <2>1. /\ packages' = [packages EXCEPT ![p].state = "review_ready"] /\ ceremony' = ceremony
        /\ jacket' = jacket /\ packages[p].state = "draft"
    BY <1>1 DEF markReviewReady, movePackage
  <2>2. Matches([state |-> "review_ready"], [state |-> cs, signers |-> sg])
    BY <1>0, <2>1 DEF Matches
  <2>3. "review_ready" \in PackageState /\ packages[p].state \in LIVE_PACKAGE_STATES
    BY <2>1 DEF PackageState, LIVE_PACKAGE_STATES
  <2> QED
    BY <1>0, <2>1, <2>2, <2>3, CeremonyStays, StatesMove DEF CURRENT
<1>2. CASE reviewPackage(p)
  <2> DEFINE k == [packages[p] EXCEPT !.reviewed = TRUE]
  <2>1. /\ k \in PackageView /\ k.state = packages[p].state /\ k.jacket = packages[p].jacket
        /\ k.documents = packages[p].documents /\ k.legalHold = packages[p].legalHold
    BY <1>0 DEF PackageView
  <2>2. /\ packages' = [packages EXCEPT ![p] = k] /\ ceremony' = ceremony /\ jacket' = jacket
    BY <1>2 DEF reviewPackage
  <2>3. ceremony' = [ceremony EXCEPT ![p] = ceremony[p]]
    BY <1>0, <2>2 DEF PaperInv, PaperTyped
  <2> HIDE DEF k
  <2>4. Matches(k, ceremony[p]) /\ Stands(ceremony[p], ceremony[p])
    BY <1>0, <2>1 DEF Matches, Stands
  <2>5. Moves(p, k, ceremony[p])
    BY <1>0, <2>1, <2>2, <2>3, <2>4 DEF Moves
  <2> QED
    BY <1>0, <2>1, <2>5 DEF Move
<1>3. CASE voidPackage(p)
  <2> DEFINE ds == IF cs \in {"sent", "in_progress"} THEN "voided" ELSE cs
  <2>1. /\ packages' = [packages EXCEPT ![p].state = "voided"] /\ jacket' = jacket
        /\ packages[p].state \in LIVE_PACKAGE_STATES /\ ceremony' = VoidedCeremonies({p})
    BY <1>3 DEF voidPackage, movePackage
  <2>2. ds \in CeremonyState
    BY <1>0 DEF CeremonyState
  <2>3. ceremony' = [ceremony EXCEPT ![p] = [ceremony[p] EXCEPT !.state = ds, !.signers = sg]]
    <3>1. [ceremony[p] EXCEPT !.state = ds, !.signers = sg]
            = IF cs \in {"sent", "in_progress"} THEN [ceremony[p] EXCEPT !.state = "voided"] ELSE ceremony[p]
      BY <1>0 DEF CeremonyView
    <3> QED
      BY <1>0, <2>1, <3>1 DEF VoidedCeremonies, PaperInv, PaperTyped
  <2>4. Matches([state |-> "voided"], [state |-> ds, signers |-> sg])
    BY <1>0, <2>1 DEF Matches, LIVE_PACKAGE_STATES
  <2>5. Stands(ceremony[p], [signers |-> sg])
    BY DEF Stands
  <2>6. "voided" \in PackageState /\ "voided" \notin CURRENT /\ "voided" \notin LIVE_PACKAGE_STATES
    BY DEF PackageState, LIVE_PACKAGE_STATES, CURRENT
  <2> HIDE DEF ds
  <2> QED
    BY <1>0, <2>1, <2>2, <2>3, <2>4, <2>5, <2>6, StatesMove
<1> QED
  BY <1>1, <1>2, <1>3

\* Sending a package opens a ceremony where there was none.
LEMMA SendMoves == ASSUME PaperInv, NEW p \in Package, time \in Nat, sendPackage(p) PROVE Move
<1> DEFINE k == [packages[p] EXCEPT !.state = "sent"]
           c == NewCeremony(p)
<1>0. /\ packages[p] \in PackageView /\ ceremony[p] \in CeremonyView
      /\ ceremony[p].signers \in [SIGNER_ROLES -> SignerState] /\ p \in 1..MaxPackage
      /\ Matches(packages[p], ceremony[p])
  BY PairTyped
<1>1. /\ ceremony[p].state = "none" /\ packages[p].state = "review_ready"
      /\ packages' = [packages EXCEPT ![p] = k] /\ ceremony' = [ceremony EXCEPT ![p] = c]
      /\ jacket' = jacket
  BY DEF sendPackage, SendAllowed, movePackage
<1>2. /\ k \in PackageView /\ k.state = "sent" /\ k.jacket = packages[p].jacket
      /\ k.documents = packages[p].documents /\ k.legalHold = packages[p].legalHold
  BY <1>0 DEF PackageView, PackageState
<1>3. /\ c \in CeremonyView /\ c.state = "sent"
      /\ \A r \in SIGNER_ROLES : c.signers[r] \in {"invited", "none"}
  <2>1. time + TokenTTL \in Nat /\ time + CeremonyTTL \in Nat /\ p \in 0..MaxPackage
    BY <1>0, BoundAssumption
  <2>2. [r \in SIGNER_ROLES |-> IF r \in SignerRoles(p) THEN "invited" ELSE "none"]
            \in [SIGNER_ROLES -> SignerState]
    BY DEF SignerState
  <2> QED
    BY <2>1, <2>2 DEF NewCeremony, CeremonyView, CeremonyState
<1> HIDE DEF k, c
<1>4. Matches(k, c)
  BY <1>2, <1>3 DEF Matches
<1>5. Stands(ceremony[p], c)
  BY <1>0, <1>1 DEF Matches, Stands
<1>6. Moves(p, k, c)
  BY <1>1, <1>2, <1>3, <1>4, <1>5 DEF Moves, LIVE_PACKAGE_STATES, CURRENT
<1> QED
  BY <1>2, <1>3, <1>6 DEF Move

\* A signer who looks or consents moves nothing but his own line.
LEMMA SignerMoves ==
    ASSUME PaperInv, NEW p \in Package, NEW r \in SIGNER_ROLES, NEW x \in {"viewed", "consented"},
           ceremony[p].signers[r] \in {"invited", "viewed"}, SetSigner(p, r, x),
           packages' = packages, jacket' = jacket
    PROVE  Move
<1> DEFINE cs == ceremony[p].state
           sg == [ceremony[p].signers EXCEPT ![r] = x]
           ks == packages[p].state
<1>0. /\ packages[p] \in PackageView /\ ceremony[p] \in CeremonyView
      /\ ceremony[p].signers \in [SIGNER_ROLES -> SignerState] /\ cs \in CeremonyState
      /\ Matches(packages[p], ceremony[p]) /\ p \in DOMAIN ceremony /\ p \in DOMAIN packages
      /\ ks \in PackageState
  BY PairTyped DEF CeremonyView, PackageView
<1>1. sg \in [SIGNER_ROLES -> SignerState]
  BY <1>0 DEF SignerState
<1>2. packages' = [packages EXCEPT ![p].state = ks]
  <2>1. packages[p] = [packages[p] EXCEPT !.state = ks]
    BY <1>0 DEF PackageView
  <2> QED
    BY <1>0, <2>1 DEF PaperInv, PaperTyped
<1>3. ceremony' = [ceremony EXCEPT ![p] = [ceremony[p] EXCEPT !.state = cs, !.signers = sg]]
  <2>1. [ceremony[p] EXCEPT !.state = cs, !.signers = sg] = [ceremony[p] EXCEPT !.signers[r] = x]
    BY <1>0 DEF CeremonyView
  <2> QED
    BY <2>1 DEF SetSigner
<1>4. sg[r] = x /\ \A q \in SIGNER_ROLES : q # r => sg[q] = ceremony[p].signers[q]
  BY <1>0
<1> HIDE DEF sg
<1>5. Matches([state |-> ks], [state |-> cs, signers |-> sg])
  BY <1>0, <1>4 DEF Matches
<1>6. Stands(ceremony[p], [signers |-> sg])
  BY <1>4 DEF Stands
<1> QED
  BY <1>0, <1>1, <1>2, <1>3, <1>5, <1>6, StatesMove

\* A signature: the last one completes the package and its jacket.
LEMMA SignatureMoves ==
    ASSUME PaperInv, NEW p \in Package, NEW r \in SIGNER_ROLES,
           ceremony[p].signers[r] \notin {"none", "signed"}, Signable(p, r), Signed(p, r)
    PROVE  Move
<1> DEFINE complete == \A q \in Invited(p) : q = r \/ ceremony[p].signers[q] = "signed"
           cs == IF complete THEN "completed" ELSE "in_progress"
           ks == IF complete THEN "signed_complete" ELSE "partially_signed"
           sg == [ceremony[p].signers EXCEPT ![r] = "signed"]
<1>0. /\ packages[p] \in PackageView /\ ceremony[p] \in CeremonyView
      /\ ceremony[p].signers \in [SIGNER_ROLES -> SignerState]
      /\ Matches(packages[p], ceremony[p]) /\ p \in DOMAIN ceremony /\ p \in DOMAIN packages
  BY PairTyped
<1>1. sg \in [SIGNER_ROLES -> SignerState] /\ cs \in CeremonyState /\ ks \in PackageState
  BY <1>0 DEF SignerState, CeremonyState, PackageState
<1>2. packages' = [packages EXCEPT ![p].state = ks]
  BY DEF Signed, movePackage
<1>3. ceremony' = [ceremony EXCEPT ![p] = [ceremony[p] EXCEPT !.state = cs, !.signers = sg]]
  <2>1. ceremony' = [ceremony EXCEPT ![p].signers[r] = "signed", ![p].state = cs]
    BY DEF Signed
  <2>2. [[ceremony[p] EXCEPT !.signers[r] = "signed"] EXCEPT !.state = cs]
            = [ceremony[p] EXCEPT !.state = cs, !.signers = sg]
    BY <1>0 DEF CeremonyView
  <2> HIDE DEF cs, sg
  <2> QED
    BY <1>0, <2>1, <2>2 DEF PaperInv, PaperTyped
<1>4. \/ jacket' = jacket
      \/ jacket' = [jacket EXCEPT ![packages[p].jacket].state = "signed_complete"]
  BY DEF Signed
<1>5. /\ packages[p].state \in LIVE_PACKAGE_STATES /\ packages[p].state \in CURRENT
  BY DEF Signable, LIVE_PACKAGE_STATES, CURRENT
<1>6. sg[r] = "signed" /\ \A q \in SIGNER_ROLES : q # r => sg[q] = ceremony[p].signers[q]
  BY <1>0
<1>7. complete <=> \A q \in SIGNER_ROLES : sg[q] \in {"none", "signed"}
  BY <1>6 DEF Invited
<1> HIDE DEF sg, complete
<1>8. Matches([state |-> ks], [state |-> cs, signers |-> sg])
  BY <1>6, <1>7 DEF Matches
<1>9. Stands(ceremony[p], [signers |-> sg])
  <2>1. \A q \in SIGNER_ROLES : ceremony[p].signers[q] # "none" /\ ROLE_ORDER[q] < ROLE_ORDER[r] =>
            ceremony[p].signers[q] = "signed"
    BY DEF Signable, WaitingOn, Invited
  <2> QED
    BY <1>6, <2>1 DEF Stands
<1> QED
  BY <1>1, <1>2, <1>3, <1>4, <1>5, <1>8, <1>9, StatesMove

\* A ceremony that ends without its signatures takes its package with it.
LEMMA EndMoves ==
    ASSUME PaperInv, NEW p \in Package, NEW ks \in {"voided", "expired"},
           NEW cs \in {"declined", "expired"}, NEW sg \in [SIGNER_ROLES -> SignerState],
           CeremonyOpen(p), jacket' = jacket,
           packages' = [packages EXCEPT ![p].state =
                            IF packages[p].state \in {"sent", "partially_signed"} THEN ks ELSE packages[p].state],
           ceremony' = [ceremony EXCEPT ![p] = [ceremony[p] EXCEPT !.state = cs, !.signers = sg]],
           \A r \in SIGNER_ROLES : /\ sg[r] = "signed" => ceremony[p].signers[r] = "signed"
                                   /\ ceremony[p].signers[r] = "signed" => sg[r] = "signed"
    PROVE  Move
<1>0. Matches(packages[p], ceremony[p])
  BY PairTyped
<1>1. packages[p].state \in {"sent", "partially_signed"}
  BY <1>0 DEF Matches, CeremonyOpen
<1>2. packages' = [packages EXCEPT ![p].state = ks]
  BY <1>1
<1>3. /\ ks \in PackageState /\ ks \notin CURRENT /\ ks \notin LIVE_PACKAGE_STATES
      /\ cs \in CeremonyState
  BY DEF PackageState, CURRENT, LIVE_PACKAGE_STATES, CeremonyState
<1>4. Matches([state |-> ks], [state |-> cs, signers |-> sg])
  BY DEF Matches
<1>5. Stands(ceremony[p], [signers |-> sg])
  BY DEF Stands
<1> QED
  BY <1>2, <1>3, <1>4, <1>5, StatesMove

\* Everything a customer, the sending manager and the worker do to a ceremony moves it.
LEMMA CeremonyMoves ==
    ASSUME PaperInv, NEW p \in Package,
           \/ openSignerSession(p) \/ consentToElectronicRecords(p) \/ signAsCustomer(p)
           \/ declineAsCustomer(p) \/ signAsDealerRepresentative(p) \/ expireDueCeremony(p)
    PROVE  Move
<1> USE DEF SIGNER_ROLES
<1>0. /\ packages[p] \in PackageView /\ ceremony[p] \in CeremonyView
      /\ ceremony[p].signers \in [SIGNER_ROLES -> SignerState]
      /\ Matches(packages[p], ceremony[p]) /\ p \in DOMAIN ceremony /\ p \in DOMAIN packages
  BY PairTyped
<1>1. CASE openSignerSession(p)
  BY <1>1, SignerMoves DEF openSignerSession
<1>2. CASE consentToElectronicRecords(p)
  BY <1>2, SignerMoves DEF consentToElectronicRecords, Consentable
<1>3. CASE signAsCustomer(p)
  BY <1>3, SignatureMoves DEF signAsCustomer
<1>4. CASE signAsDealerRepresentative(p)
  <2> DEFINE r == "dealer_representative"
  <2>1. CASE Signable(p, r)
    <3>1. Signed(p, r) /\ ceremony[p].signers[r] \in {"invited", "viewed", "consented"}
      BY <1>4, <2>1 DEF signAsDealerRepresentative, Consentable
    <3> QED
      BY <2>1, <3>1, SignatureMoves
  <2>2. CASE ~Signable(p, r)
    <3>1. /\ ceremony[p].signers[r] \in {"invited", "viewed"} /\ SetSigner(p, r, "consented")
          /\ packages' = packages /\ jacket' = jacket
      BY <1>4, <2>2 DEF signAsDealerRepresentative, Consentable
    <3> QED
      BY <3>1, SignerMoves
  <2> QED
    BY <2>1, <2>2
<1>5. CASE declineAsCustomer(p)
  <2> DEFINE sg == [ceremony[p].signers EXCEPT !["customer"] = "declined"]
  <2>1. /\ CeremonyOpen(p) /\ jacket' = jacket /\ ceremony[p].signers["customer"] # "signed"
        /\ packages' = [packages EXCEPT ![p].state =
                IF packages[p].state \in {"sent", "partially_signed"} THEN "voided" ELSE packages[p].state]
        /\ ceremony' = [ceremony EXCEPT ![p].signers["customer"] = "declined", ![p].state = "declined"]
    BY <1>0, <1>5 DEF declineAsCustomer
  <2>2. sg \in [SIGNER_ROLES -> SignerState]
    BY <1>0 DEF SignerState
  <2>3. ceremony' = [ceremony EXCEPT ![p] = [ceremony[p] EXCEPT !.state = "declined", !.signers = sg]]
    <3>1. [[ceremony[p] EXCEPT !.signers["customer"] = "declined"] EXCEPT !.state = "declined"]
            = [ceremony[p] EXCEPT !.state = "declined", !.signers = sg]
      BY <1>0 DEF CeremonyView
    <3> QED
      BY <1>0, <2>1, <3>1 DEF PaperInv, PaperTyped
  <2>4. \A q \in SIGNER_ROLES : /\ sg[q] = "signed" => ceremony[p].signers[q] = "signed"
                                /\ ceremony[p].signers[q] = "signed" => sg[q] = "signed"
    BY <1>0, <2>1
  <2> HIDE DEF sg
  <2> QED
    BY <2>1, <2>2, <2>3, <2>4, EndMoves
<1>6. CASE expireDueCeremony(p)
  <2> DEFINE sg == [r \in SIGNER_ROLES |-> ExpiredSigner(ceremony[p].signers[r])]
  <2>1. /\ CeremonyOpen(p) /\ jacket' = jacket
        /\ packages' = [packages EXCEPT ![p].state =
                IF packages[p].state \in {"sent", "partially_signed"} THEN "expired" ELSE packages[p].state]
        /\ ceremony' = [ceremony EXCEPT ![p].state = "expired", ![p].signers = sg]
    BY <1>0, <1>6 DEF expireDueCeremony, Due
  <2>2. sg \in [SIGNER_ROLES -> SignerState]
    BY <1>0 DEF SignerState, ExpiredSigner
  <2>3. ceremony' = [ceremony EXCEPT ![p] = [ceremony[p] EXCEPT !.state = "expired", !.signers = sg]]
    <3> HIDE DEF sg
    <3> QED
      BY <1>0, <2>1 DEF PaperInv, PaperTyped
  <2>4. \A q \in SIGNER_ROLES : /\ sg[q] = "signed" => ceremony[p].signers[q] = "signed"
                                /\ ceremony[p].signers[q] = "signed" => sg[q] = "signed"
    BY <1>0 DEF ExpiredSigner
  <2> HIDE DEF sg
  <2> QED
    BY <2>1, <2>2, <2>3, <2>4, EndMoves
<1> QED
  BY <1>1, <1>2, <1>3, <1>4, <1>5, <1>6

--------------------------------------------------------------------------------
(* What a step keeps *)

\* A function on 1..n is a sequence of length n.
LEMMA FunctionIsSeq ==
    ASSUME NEW S, NEW n \in Nat, NEW f \in [1..n -> S]
    PROVE  f \in Seq(S) /\ Len(f) = n
OBVIOUS

DeskTyped ==
    /\ approved \in 0..MaxScenario /\ lastVersion \in 0..MaxScenario /\ party \in 0..MaxParty
    /\ items \in [Scenario -> SUBSET ChecklistItemView]

\* The desk's versions and the checklists stay in their types.
LEMMA DeskTypedStep ==
    ASSUME ConfigInv, PaperInv, [Next]_vars
    PROVE  DeskTyped'
<1> USE BoundAssumption
<1>0. DeskTyped
  BY DEF PaperInv, PaperTyped, DeskTyped
<1>1. ASSUME UNCHANGED <<approved, lastVersion, party, items>> PROVE DeskTyped'
  BY <1>0, <1>1 DEF DeskTyped
<1>2. CASE DeskStep
  BY <1>0, <1>2 DEF DeskStep, DeskApproves, PartyEdited, DeskTyped
<1>3. CASE Opens
  <2>1. PICK rows \in pickMostSpecific(requirements) : openJacket(rows)
    BY <1>3 DEF Opens
  <2>2. resolveChecklist(rows) \subseteq ChecklistItemView
    <3>1. requirements \subseteq RequirementView
      BY DEF ConfigInv, ConfigTypeOK
    <3>2. rows \subseteq RequirementView
      BY <3>1, ChosenAreRows
    <3> QED
      BY <3>2 DEF resolveChecklist, RequirementView, ChecklistItemView, ChecklistState
  <2> QED
    BY <1>0, <2>1, <2>2 DEF openJacket, DeskTyped
<1>4. ASSUME NEW i \in ChecklistItemView, NEW st \in ChecklistState
      PROVE  [i EXCEPT !.state = st] \in ChecklistItemView
  BY DEF ChecklistItemView
<1>5. ASSUME NEW s \in Scenario, NEW i \in items[s], satisfyWithEvidence(s, i) \/ waiveRequirement(s, i)
      PROVE  DeskTyped'
  <2>1. i \in ChecklistItemView
    BY <1>0 DEF DeskTyped
  <2>2. PICK st \in ChecklistState : SetItem(s, i, st)
    BY <1>5 DEF satisfyWithEvidence, waiveRequirement, ChecklistState
  <2>3. [i EXCEPT !.state = st] \in ChecklistItemView
    BY <1>4, <2>1
  <2>4. items' \in [Scenario -> SUBSET ChecklistItemView]
    BY <1>0, <2>2, <2>3 DEF SetItem, DeskTyped
  <2> QED
    BY <1>0, <1>5, <2>4 DEF satisfyWithEvidence, waiveRequirement, DeskTyped
<1>6. ASSUME NEW s \in Scenario, Assembles(s) PROVE DeskTyped'
  <2>0. PICK ts \in pickMostSpecific(templates) : assemblePackage(s, ts)
    BY <1>6 DEF Assembles
  <2>1. CASE RenderFailures(s, ts) # {}
    BY <1>1, <2>0, <2>1 DEF assemblePackage
  <2>2. CASE RenderFailures(s, ts) = {}
    <3>1. items[s] \subseteq ChecklistItemView
      BY <1>0 DEF DeskTyped
    <3>2. \A i \in items[s] : [i EXCEPT !.state = "satisfied"] \in ChecklistItemView
      BY <3>1, <1>4 DEF ChecklistState
    <3>3. SatisfiedItems(s) \subseteq ChecklistItemView
      BY <3>1, <3>2 DEF SatisfiedItems
    <3> QED
      BY <1>0, <2>0, <2>2, <3>3 DEF assemblePackage, DeskTyped
  <2> QED
    BY <2>1, <2>2
<1>7. CASE UNCHANGED vars
  BY <1>1, <1>7 DEF vars, jacketVars
<1>8. CASE Configure \/ JacketTick
  BY <1>1, <1>8 DEF Configure, JacketTick, jacketVars
<1>9. ASSUME NEW p \in Package,
             \/ markReviewReady(p) \/ reviewPackage(p) \/ voidPackage(p) \/ sendPackage(p)
             \/ signAsDealerRepresentative(p) \/ openSignerSession(p)
             \/ consentToElectronicRecords(p) \/ signAsCustomer(p) \/ declineAsCustomer(p)
             \/ expireDueCeremony(p)
      PROVE  DeskTyped'
  BY <1>1, <1>9 DEF markReviewReady, reviewPackage, voidPackage, sendPackage,
     signAsDealerRepresentative, openSignerSession, consentToElectronicRecords, signAsCustomer,
     declineAsCustomer, expireDueCeremony
<1>10. ASSUME NEW s \in Scenario, voidJacket(s) \/ \E placed \in BOOLEAN : moveHold(s, placed)
       PROVE  DeskTyped'
  BY <1>1, <1>10 DEF voidJacket, moveHold
<1>11. CASE ProviderStep
  BY <1>1, <1>11 DEF ProviderStep, recordProviderCallback
<1> QED
  BY <1>2, <1>3, <1>5, <1>6, <1>7, <1>8, <1>9, <1>10, <1>11
  DEF Next, StaffStep, CustomerStep, ExpirySweep, Opens, Assembles

\* What the steps keep of the paperwork, its types included.
RowsInv ==
    /\ jacket \in [Scenario -> JacketRow]
    /\ packages \in Seq(PackageView) /\ ceremony \in Seq(CeremonyView)
    /\ Len(packages) = Len(ceremony) /\ Len(packages) <= MaxPackage
    /\ AllMatch /\ OneCurrent /\ VoidedHasNoLive /\ OneInUse /\ OpenedFirst
    /\ HoldCoversDocuments

\* A Move keeps all of it.
LEMMA MoveKeeps == ASSUME PaperInv, Move PROVE RowsInv'
<1>1. PICK p \in Package, k \in PackageView, c \in CeremonyView : Moves(p, k, c)
  BY DEF Move
<1>2. /\ packages \in Seq(PackageView) /\ ceremony \in Seq(CeremonyView)
      /\ Len(packages) = Len(ceremony) /\ Len(packages) <= MaxPackage /\ Len(packages) \in Nat
      /\ jacket \in [Scenario -> JacketRow]
  BY DEF PaperInv, PaperTyped
<1>3. /\ packages' \in Seq(PackageView) /\ ceremony' \in Seq(CeremonyView)
      /\ Len(packages') = Len(packages) /\ Len(ceremony') = Len(packages)
      /\ packages'[p] = k /\ ceremony'[p] = c
      /\ \A q \in Package : q # p => packages'[q] = packages[q] /\ ceremony'[q] = ceremony[q]
  BY <1>1, <1>2 DEF Moves, Package
<1>4. Package' = Package
  BY <1>3 DEF Package
<1>5. packages[p].jacket \in Scenario /\ k.jacket = packages[p].jacket
  BY <1>1, PairTyped DEF PackageView, Moves
<1>6. \A q \in Package : packages'[q].jacket = packages[q].jacket /\ packages[q].jacket \in Scenario
  BY <1>3, <1>5, PairTyped DEF PackageView
<1>7. AllMatch'
  BY <1>1, <1>3, <1>4 DEF Moves, AllMatch, PaperInv
<1>8. \A q \in Package : /\ packages'[q].state \in CURRENT => packages[q].state \in CURRENT
                         /\ packages'[q].state \in LIVE_PACKAGE_STATES =>
                                packages[q].state \in LIVE_PACKAGE_STATES
                         /\ packages'[q].documents = packages[q].documents
                         /\ packages'[q].legalHold = packages[q].legalHold
  BY <1>1, <1>3 DEF Moves
<1>9. OneCurrent'
  BY <1>4, <1>6, <1>8 DEF OneCurrent, PaperInv
<1>10. /\ jacket' \in [Scenario -> JacketRow]
       /\ \A s \in Scenario : /\ jacket'[s].held = jacket[s].held
                              /\ jacket'[s].state = "none" => jacket[s].state = "none"
                              /\ jacket'[s].state = "voided" => jacket[s].state = "voided"
                              /\ jacket'[s].state \in IN_USE => jacket[s].state \in IN_USE
  <2>1. CASE jacket' = jacket
    BY <1>2, <2>1
  <2>2. CASE /\ packages[p].state \in LIVE_PACKAGE_STATES
             /\ jacket' = [jacket EXCEPT ![k.jacket].state = "signed_complete"]
    <3>1. jacket[k.jacket] \in JacketRow /\ jacket[k.jacket].state \notin {"none", "voided"}
      BY <1>2, <1>5, <2>2 DEF PaperInv, VoidedHasNoLive, OpenedFirst
    <3>2. jacket[k.jacket].state \in IN_USE
      BY <3>1 DEF JacketRow, JacketState, IN_USE
    <3>3. /\ [jacket[k.jacket] EXCEPT !.state = "signed_complete"] \in JacketRow
          /\ [jacket[k.jacket] EXCEPT !.state = "signed_complete"].held = jacket[k.jacket].held
          /\ [jacket[k.jacket] EXCEPT !.state = "signed_complete"].state = "signed_complete"
      BY <3>1 DEF JacketRow, JacketState
    <3>4. jacket' = [jacket EXCEPT ![k.jacket] = [jacket[k.jacket] EXCEPT !.state = "signed_complete"]]
      BY <2>2
    <3> QED
      BY <1>2, <1>5, <3>2, <3>3, <3>4
  <2> QED
    BY <1>1, <2>1, <2>2 DEF Moves
<1>11. VoidedHasNoLive /\ OpenedFirst /\ HoldCoversDocuments /\ OneInUse
  BY DEF PaperInv
<1>12. VoidedHasNoLive'
  BY <1>4, <1>6, <1>8, <1>10, <1>11 DEF VoidedHasNoLive
<1>13. OpenedFirst'
  BY <1>4, <1>6, <1>10, <1>11 DEF OpenedFirst
<1>14. HoldCoversDocuments'
  BY <1>4, <1>6, <1>8, <1>10, <1>11 DEF HoldCoversDocuments
<1>15. OneInUse'
  BY <1>10, <1>11 DEF OneInUse
<1> QED
  BY <1>2, <1>3, <1>7, <1>9, <1>10, <1>12, <1>13, <1>14, <1>15 DEF RowsInv

\* A step that leaves jackets, packages and ceremonies alone.
LEMMA QuietKeeps == ASSUME PaperInv, UNCHANGED <<jacket, packages, ceremony>> PROVE RowsInv'
<1>1. Package' = Package
  BY DEF Package
<1>2. \A p \in Package : Matches(packages[p], ceremony[p])' <=> Matches(packages[p], ceremony[p])
  BY DEF Matches
<1> QED
  BY <1>1, <1>2 DEF PaperInv, PaperTyped, RowsInv, AllMatch, OneCurrent, VoidedHasNoLive, OneInUse,
     OpenedFirst, HoldCoversDocuments

\* Opening a jacket: there is no other in use, and no package is its.
LEMMA OpenKeeps == ASSUME PaperInv, Opens PROVE RowsInv'
<1>1. /\ jacket' = [jacket EXCEPT ![approved] = [state |-> "open", held |-> FALSE]]
      /\ approved \in Scenario /\ jacket[approved].state = "none"
      /\ \A s \in Scenario : jacket[s].state \in {"none", "voided"}
      /\ packages' = packages /\ ceremony' = ceremony
  BY DEF Opens, openJacket, PaperInv, PaperTyped, Scenario
<1>2. jacket \in [Scenario -> JacketRow]
  BY DEF PaperInv, PaperTyped
<1>3. /\ jacket' \in [Scenario -> JacketRow]
      /\ jacket'[approved].state = "open"
      /\ \A s \in Scenario : s # approved => jacket'[s] = jacket[s]
  BY <1>1, <1>2 DEF JacketRow, JacketState
<1>4. Package' = Package
  BY <1>1 DEF Package
<1>5. \A p \in Package : packages[p].jacket \in Scenario /\ packages[p].jacket # approved
  BY <1>1, PairTyped DEF PackageView, PaperInv, OpenedFirst
<1>6. OneInUse'
  BY <1>1, <1>3 DEF OneInUse, IN_USE
<1>7. VoidedHasNoLive' /\ OpenedFirst' /\ HoldCoversDocuments'
  BY <1>1, <1>3, <1>4, <1>5 DEF PaperInv, VoidedHasNoLive, OpenedFirst, HoldCoversDocuments
<1>8. AllMatch' /\ OneCurrent'
  BY <1>1, <1>4 DEF PaperInv, AllMatch, OneCurrent, Matches
<1> QED
  BY <1>1, <1>3, <1>6, <1>7, <1>8 DEF PaperInv, PaperTyped, RowsInv

\* A hold placed or lifted reaches every document the jacket has.
LEMMA HoldKeeps ==
    ASSUME PaperInv, NEW s \in Scenario, NEW placed \in BOOLEAN, moveHold(s, placed)
    PROVE  RowsInv'
<1> DEFINE held(p) == IF packages[p].jacket = s /\ packages[p].documents # {}
                      THEN [packages[p] EXCEPT !.legalHold = placed] ELSE packages[p]
<1>1. /\ jacket[s].state # "none" /\ jacket' = [jacket EXCEPT ![s].held = placed]
      /\ packages' = [p \in Package |-> held(p)] /\ ceremony' = ceremony
  BY DEF moveHold
<1>2. /\ jacket \in [Scenario -> JacketRow] /\ Len(packages) \in Nat /\ Package = 1..Len(packages)
      /\ Len(packages) = Len(ceremony) /\ Len(packages) <= MaxPackage
      /\ ceremony \in Seq(CeremonyView)
  BY DEF PaperInv, PaperTyped, Package
<1>3. \A p \in Package : packages[p] \in PackageView
  BY PairTyped
<1>4. \A p \in Package :
        /\ held(p) \in PackageView
        /\ held(p).state = packages[p].state /\ held(p).jacket = packages[p].jacket
        /\ held(p).documents = packages[p].documents
        /\ held(p).documents # {} /\ held(p).jacket = s => held(p).legalHold = placed
        /\ held(p).jacket # s => held(p) = packages[p]
  BY <1>3 DEF PackageView
<1> HIDE DEF held
<1>5. packages' \in [1..Len(packages) -> PackageView]
  BY <1>1, <1>2, <1>4
<1>6. packages' \in Seq(PackageView) /\ Len(packages') = Len(packages)
  BY <1>2, <1>5, FunctionIsSeq
<1>7. Package' = Package /\ \A p \in Package : packages'[p] = held(p)
  BY <1>1, <1>2, <1>6 DEF Package
<1>8. /\ jacket' \in [Scenario -> JacketRow]
      /\ \A t \in Scenario : jacket'[t].state = jacket[t].state
      /\ jacket'[s].held = placed
      /\ \A t \in Scenario : t # s => jacket'[t] = jacket[t]
  <2>1. /\ [jacket[s] EXCEPT !.held = placed] \in JacketRow
        /\ [jacket[s] EXCEPT !.held = placed].state = jacket[s].state
        /\ [jacket[s] EXCEPT !.held = placed].held = placed
    BY <1>2 DEF JacketRow
  <2>2. jacket' = [jacket EXCEPT ![s] = [jacket[s] EXCEPT !.held = placed]]
    BY <1>1
  <2> QED
    BY <1>2, <2>1, <2>2
<1>9. \A p \in Package : packages[p].jacket \in Scenario
  BY <1>3 DEF PackageView
<1>10. /\ AllMatch /\ OneCurrent /\ VoidedHasNoLive /\ OneInUse /\ OpenedFirst
       /\ HoldCoversDocuments
  BY DEF PaperInv
<1>11. AllMatch'
  BY <1>1, <1>4, <1>7, <1>10 DEF AllMatch, Matches
<1>12. OneCurrent'
  BY <1>4, <1>7, <1>10 DEF OneCurrent
<1>13. VoidedHasNoLive'
  BY <1>4, <1>7, <1>8, <1>9, <1>10 DEF VoidedHasNoLive
<1>14. OpenedFirst'
  BY <1>4, <1>7, <1>8, <1>9, <1>10 DEF OpenedFirst
<1>15. OneInUse'
  BY <1>8, <1>10 DEF OneInUse
<1>16. HoldCoversDocuments'
  <2> SUFFICES ASSUME NEW p \in Package, held(p).documents # {}
               PROVE  held(p).legalHold = jacket'[held(p).jacket].held
    BY <1>7 DEF HoldCoversDocuments
  <2>1. CASE held(p).jacket = s
    BY <2>1, <1>4, <1>8
  <2>2. CASE held(p).jacket # s
    BY <2>2, <1>4, <1>8, <1>9, <1>10 DEF HoldCoversDocuments
  <2> QED
    BY <2>1, <2>2
<1> QED
  BY <1>1, <1>2, <1>6, <1>8, <1>11, <1>12, <1>13, <1>14, <1>15, <1>16 DEF RowsInv

\* Voiding the ceremonies of some packages leaves the signers as they are.
LEMMA VoidedCeremoniesFacts ==
    ASSUME PaperInv, NEW ps
    PROVE  /\ VoidedCeremonies(ps) \in Seq(CeremonyView)
           /\ Len(VoidedCeremonies(ps)) = Len(packages)
           /\ \A p \in Package :
                /\ VoidedCeremonies(ps)[p].signers = ceremony[p].signers
                /\ VoidedCeremonies(ps)[p].state =
                        IF p \in ps /\ ceremony[p].state \in {"sent", "in_progress"} THEN "voided"
                        ELSE ceremony[p].state
<1> DEFINE after(p) == IF p \in ps /\ ceremony[p].state \in {"sent", "in_progress"}
                       THEN [ceremony[p] EXCEPT !.state = "voided"] ELSE ceremony[p]
<1>1. /\ DOMAIN ceremony = 1..Len(packages) /\ Len(packages) \in Nat /\ Package = 1..Len(packages)
      /\ \A p \in Package : ceremony[p] \in CeremonyView
  BY DEF PaperInv, PaperTyped, Package
<1>2. \A p \in Package : /\ after(p) \in CeremonyView /\ after(p).signers = ceremony[p].signers
                         /\ after(p).state =
                                IF p \in ps /\ ceremony[p].state \in {"sent", "in_progress"}
                                THEN "voided" ELSE ceremony[p].state
  BY <1>1 DEF CeremonyView, CeremonyState
<1>3. VoidedCeremonies(ps) = [p \in 1..Len(packages) |-> after(p)]
  BY <1>1 DEF VoidedCeremonies
<1> HIDE DEF after
<1>4. VoidedCeremonies(ps) \in [1..Len(packages) -> CeremonyView]
  BY <1>1, <1>2, <1>3
<1> QED
  BY <1>1, <1>2, <1>3, <1>4, FunctionIsSeq

\* The same for the states of packages: those in ps become st.
LEMMA PackagesSetFacts ==
    ASSUME PaperInv, NEW ps, NEW st \in PackageState, NEW after,
           after = [p \in Package |-> IF p \in ps THEN [packages[p] EXCEPT !.state = st] ELSE packages[p]]
    PROVE  /\ after \in Seq(PackageView) /\ Len(after) = Len(packages)
           /\ \A p \in Package :
                /\ after[p].state = IF p \in ps THEN st ELSE packages[p].state
                /\ after[p].jacket = packages[p].jacket /\ after[p].jacket \in Scenario
                /\ after[p].documents = packages[p].documents
                /\ after[p].legalHold = packages[p].legalHold
<1> DEFINE one(p) == IF p \in ps THEN [packages[p] EXCEPT !.state = st] ELSE packages[p]
<1>1. /\ Len(packages) \in Nat /\ Package = 1..Len(packages)
      /\ \A p \in Package : packages[p] \in PackageView
  BY DEF PaperInv, PaperTyped, Package
<1>2. \A p \in Package :
        /\ one(p) \in PackageView
        /\ one(p).state = IF p \in ps THEN st ELSE packages[p].state
        /\ one(p).jacket = packages[p].jacket /\ one(p).jacket \in Scenario
        /\ one(p).documents = packages[p].documents
        /\ one(p).legalHold = packages[p].legalHold
  BY <1>1 DEF PackageView
<1>3. after = [p \in 1..Len(packages) |-> one(p)]
  BY <1>1
<1> HIDE DEF one
<1>4. after \in [1..Len(packages) -> PackageView]
  BY <1>1, <1>2, <1>3
<1>5. after \in Seq(PackageView) /\ Len(after) = Len(packages)
  BY <1>1, <1>4, FunctionIsSeq
<1>6. \A p \in Package : after[p] = one(p)
  BY <1>1, <1>3
<1> QED
  BY <1>2, <1>5, <1>6

\* A live or completed package that steps aside or is voided still matches its ceremony.
LEMMA AsideMatches ==
    ASSUME NEW k, NEW c, Matches(k, c), NEW j, NEW d,
           \/ /\ k.state \in LIVE_PACKAGE_STATES /\ j.state \in {"voided", "superseded"}
           \/ /\ k.state = "signed_complete" /\ j.state = "superseded",
           d.signers = c.signers,
           d.state = IF c.state \in {"sent", "in_progress"} THEN "voided" ELSE c.state
    PROVE  Matches(j, d)
BY DEF Matches, LIVE_PACKAGE_STATES

\* Voiding a jacket voids what is live of it.
LEMMA VoidJacketKeeps == ASSUME PaperInv, NEW s \in Scenario, voidJacket(s) PROVE RowsInv'
<1> DEFINE live == {p \in Package : packages[p].jacket = s /\ packages[p].state \in LIVE_PACKAGE_STATES}
<1>1. /\ jacket[s].state \in {"open", "signed_complete"}
      /\ jacket' = [jacket EXCEPT ![s].state = "voided"]
      /\ packages' = [p \in Package |-> IF p \in live THEN [packages[p] EXCEPT !.state = "voided"]
                                        ELSE packages[p]]
      /\ ceremony' = VoidedCeremonies(live)
  BY DEF voidJacket
<1>2. /\ packages' \in Seq(PackageView) /\ Len(packages') = Len(packages)
      /\ \A p \in Package :
            /\ packages'[p].state = IF p \in live THEN "voided" ELSE packages[p].state
            /\ packages'[p].jacket = packages[p].jacket /\ packages'[p].jacket \in Scenario
            /\ packages'[p].documents = packages[p].documents
            /\ packages'[p].legalHold = packages[p].legalHold
  <2>1. "voided" \in PackageState
    BY DEF PackageState
  <2> HIDE DEF live
  <2> QED
    BY <1>1, <2>1, PackagesSetFacts
<1>3. /\ ceremony' \in Seq(CeremonyView) /\ Len(ceremony') = Len(packages)
      /\ \A p \in Package :
            /\ ceremony'[p].signers = ceremony[p].signers
            /\ ceremony'[p].state =
                    IF p \in live /\ ceremony[p].state \in {"sent", "in_progress"} THEN "voided"
                    ELSE ceremony[p].state
  <2> HIDE DEF live
  <2> QED
    BY <1>1, VoidedCeremoniesFacts
<1>4. /\ AllMatch /\ OneCurrent /\ VoidedHasNoLive /\ OneInUse /\ OpenedFirst
      /\ HoldCoversDocuments /\ Len(packages) <= MaxPackage /\ jacket \in [Scenario -> JacketRow]
  BY DEF PaperInv, PaperTyped
<1>5. Package' = Package
  BY <1>2 DEF Package
<1>6. /\ jacket' \in [Scenario -> JacketRow] /\ jacket'[s].state = "voided"
      /\ \A t \in Scenario : /\ jacket'[t].held = jacket[t].held
                             /\ t # s => jacket'[t] = jacket[t]
  <2>1. /\ [jacket[s] EXCEPT !.state = "voided"] \in JacketRow
        /\ [jacket[s] EXCEPT !.state = "voided"].held = jacket[s].held
        /\ [jacket[s] EXCEPT !.state = "voided"].state = "voided"
    BY <1>4 DEF JacketRow, JacketState
  <2>2. jacket' = [jacket EXCEPT ![s] = [jacket[s] EXCEPT !.state = "voided"]]
    BY <1>1
  <2> QED
    BY <1>4, <2>1, <2>2
<1>7. AllMatch'
  <2> SUFFICES ASSUME NEW p \in Package PROVE Matches(packages'[p], ceremony'[p])
    BY <1>5 DEF AllMatch
  <2>0. Matches(packages[p], ceremony[p])
    BY <1>4 DEF AllMatch
  <2>1. CASE p \in live
    BY <2>0, <2>1, <1>2, <1>3, AsideMatches
  <2>2. CASE p \notin live
    BY <2>0, <2>2, <1>2, <1>3 DEF Matches
  <2> QED
    BY <2>1, <2>2
<1>8. OneCurrent'
  <2>1. "voided" \notin CURRENT
    BY DEF CURRENT, LIVE_PACKAGE_STATES
  <2>2. \A p \in Package : packages'[p].state \in CURRENT => packages[p].state \in CURRENT
    BY <1>2, <2>1
  <2> QED
    BY <1>2, <1>4, <1>5, <2>2 DEF OneCurrent
<1>9. VoidedHasNoLive'
  <2> SUFFICES ASSUME NEW p \in Package, jacket'[packages'[p].jacket].state = "voided",
                      packages'[p].state \in LIVE_PACKAGE_STATES
               PROVE  FALSE
    BY <1>5 DEF VoidedHasNoLive
  <2>1. p \notin live /\ packages[p].state \in LIVE_PACKAGE_STATES
    BY <1>2 DEF LIVE_PACKAGE_STATES
  <2>2. packages[p].jacket # s /\ packages[p].jacket \in Scenario
    BY <1>2, <2>1
  <2> QED
    BY <1>2, <1>4, <1>6, <2>1, <2>2 DEF VoidedHasNoLive
<1>10. OneInUse'
  BY <1>4, <1>6 DEF OneInUse, IN_USE
<1>11. OpenedFirst'
  BY <1>2, <1>4, <1>5, <1>6 DEF OpenedFirst
<1>12. HoldCoversDocuments'
  BY <1>2, <1>4, <1>5, <1>6 DEF HoldCoversDocuments
<1> QED
  BY <1>2, <1>3, <1>4, <1>6, <1>7, <1>8, <1>9, <1>10, <1>11, <1>12 DEF RowsInv

\* What assembly writes is a package in draft, or a voided one without documents.
LEMMA NewPackageFacts ==
    ASSUME ConfigInv, PaperInv, NEW s \in Scenario, NEW ts \in pickMostSpecific(templates), AssemblyAllowed(s)
    PROVE  /\ NewPackage(s, ts) \in PackageView /\ NewPackage(s, ts).jacket = s
           /\ NewPackage(s, ts).state \in {"draft", "voided"}
           /\ NewPackage(s, ts).documents # {} => NewPackage(s, ts).legalHold = jacket[s].held
<1> DEFINE failed == RenderFailures(s, ts) # {}
           docs == IF failed THEN {} ELSE Rendered(PlannedTemplates(s, ts))
           review == \/ \E i \in items[s] : i.state = "waived"
                     \/ \E t \in PlannedTemplates(s, ts) : renderDocument(t) /\ t.approvalStatus # "approved"
           hold == ~failed /\ NewDocumentsHeld(s)
           st == IF failed THEN "voided" ELSE "draft"
<1>1. PlannedTemplates(s, ts) \subseteq TemplateView
  BY ChosenAreRows DEF PlannedTemplates, TemplateInForce, ConfigInv, ConfigTypeOK
<1>2. docs \in SUBSET DocumentView
  BY <1>1 DEF Rendered, DocumentView, TemplateView
<1>3. review \in BOOLEAN
  OBVIOUS
<1>4. jacket[s].held \in BOOLEAN
  BY DEF PaperInv, PaperTyped, JacketRow
<1>5. hold \in BOOLEAN /\ (docs # {} => hold = jacket[s].held)
  BY <1>4 DEF NewDocumentsHeld
<1>6. assembleFields \in Scenario \X (0..MaxParty)
  BY DEF assembleFields, AssemblyAllowed, PaperInv, PaperTyped
<1>7. st \in PackageState /\ st \in {"draft", "voided"}
  BY DEF PackageState
<1>8. NewPackage(s, ts) = [jacket |-> s, state |-> st, fields |-> assembleFields, documents |-> docs,
                       reviewRequired |-> review, reviewed |-> FALSE, legalHold |-> hold]
  BY DEF NewPackage
<1> HIDE DEF failed, docs, review, hold, st
<1> QED
  BY <1>2, <1>3, <1>5, <1>6, <1>7, <1>8 DEF PackageView

\* The one predecessor is every live or completed package of the jacket.
LEMMA PredecessorIsAll ==
    ASSUME PaperInv, NEW s \in Scenario
    PROVE  predecessorPackage(s) = {p \in Package : packages[p].jacket = s /\ packages[p].state \in CURRENT}
<1> DEFINE cand == {p \in Package : packages[p].jacket = s /\ packages[p].state \in CURRENT}
<1>1. predecessorPackage(s) = {p \in cand : \A q \in cand : q <= p}
  BY DEF predecessorPackage, CURRENT
<1>2. \A p, q \in cand : q = p
  BY DEF PaperInv, OneCurrent
<1>3. \A p \in cand : p \in Nat
  BY DEF Package, PaperInv, PaperTyped
<1>4. \A p, q \in cand : q <= p
  <2> SUFFICES ASSUME NEW p \in cand, NEW q \in cand PROVE q <= p
    OBVIOUS
  <2>1. q = p /\ p \in Nat
    BY <1>2, <1>3
  <2> QED
    BY <2>1
<1> HIDE DEF cand
<1> QED
  BY <1>1, <1>4 DEF cand

\* Assembly: the predecessor steps aside, and the new package is the only current one.
LEMMA AssemblyKeeps ==
    ASSUME ConfigInv, PaperInv, NEW s \in Scenario, Assembles(s)
    PROVE  RowsInv'
<1>a. PICK ts \in pickMostSpecific(templates) : assemblePackage(s, ts)
  BY DEF Assembles
<1> DEFINE old == predecessorPackage(s)
           n == Len(packages) + 1
           new == NewPackage(s, ts)
           aside == SteppedAside(old)
           voided == VoidedCeremonies(old)
<1>0. /\ AssemblyAllowed(s) /\ Len(packages) < MaxPackage
      /\ packages' = Append(aside, new) /\ ceremony' = Append(voided, NoCeremony)
      /\ jacket[s].state \in IN_USE
      /\ jacket' = jacket \/ jacket' = [jacket EXCEPT ![s].state = "open"]
  BY <1>a DEF assemblePackage, AssemblyAllowed, IN_USE
<1>1. /\ new \in PackageView /\ new.jacket = s /\ new.state \in {"draft", "voided"}
      /\ new.documents # {} => new.legalHold = jacket[s].held
  BY <1>0, NewPackageFacts
<1>2. /\ aside \in Seq(PackageView) /\ Len(aside) = Len(packages)
      /\ \A p \in Package :
            /\ aside[p].state = IF p \in old THEN "superseded" ELSE packages[p].state
            /\ aside[p].jacket = packages[p].jacket /\ aside[p].jacket \in Scenario
            /\ aside[p].documents = packages[p].documents
            /\ aside[p].legalHold = packages[p].legalHold
  <2>1. "superseded" \in PackageState
    BY DEF PackageState
  <2>2. aside = [p \in Package |-> IF p \in old THEN [packages[p] EXCEPT !.state = "superseded"]
                                   ELSE packages[p]]
    BY DEF SteppedAside
  <2> HIDE DEF old, aside
  <2> QED
    BY <2>1, <2>2, PackagesSetFacts
<1>3. /\ voided \in Seq(CeremonyView) /\ Len(voided) = Len(packages)
      /\ \A p \in Package :
            /\ voided[p].signers = ceremony[p].signers
            /\ voided[p].state =
                    IF p \in old /\ ceremony[p].state \in {"sent", "in_progress"} THEN "voided"
                    ELSE ceremony[p].state
  <2> HIDE DEF old
  <2> QED
    BY VoidedCeremoniesFacts
<1>4. /\ AllMatch /\ OneCurrent /\ VoidedHasNoLive /\ OneInUse /\ OpenedFirst
      /\ HoldCoversDocuments /\ jacket \in [Scenario -> JacketRow] /\ Len(packages) \in Nat
  BY DEF PaperInv, PaperTyped
<1>5. old = {p \in Package : packages[p].jacket = s /\ packages[p].state \in CURRENT}
  BY PredecessorIsAll
<1>6. NoCeremony \in CeremonyView /\ NoCeremony.state = "none"
      /\ \A r \in SIGNER_ROLES : NoCeremony.signers[r] = "none"
  <2>1. 0 \in 0..MaxPackage
    BY BoundAssumption
  <2> QED
    BY <2>1 DEF NoCeremony, CeremonyView, CeremonyState, SignerState
<1> HIDE DEF old, new, aside, voided
<1>7. /\ packages' \in Seq(PackageView) /\ ceremony' \in Seq(CeremonyView)
      /\ Len(packages') = n /\ Len(ceremony') = n /\ n <= MaxPackage
      /\ packages'[n] = new /\ ceremony'[n] = NoCeremony
      /\ \A p \in Package : packages'[p] = aside[p] /\ ceremony'[p] = voided[p] /\ p # n
  BY <1>0, <1>1, <1>2, <1>3, <1>4, <1>6, BoundAssumption DEF Package
<1>8. \A p \in Package' : p = n \/ p \in Package
  BY <1>4, <1>7 DEF Package
<1>9. /\ jacket' \in [Scenario -> JacketRow]
      /\ jacket'[s].state \in IN_USE
      /\ \A t \in Scenario : /\ jacket'[t].held = jacket[t].held
                             /\ t # s => jacket'[t] = jacket[t]
  <2>1. /\ [jacket[s] EXCEPT !.state = "open"] \in JacketRow
        /\ [jacket[s] EXCEPT !.state = "open"].held = jacket[s].held
        /\ [jacket[s] EXCEPT !.state = "open"].state = "open"
    BY <1>4 DEF JacketRow, JacketState
  <2>2. jacket' = jacket \/ jacket' = [jacket EXCEPT ![s] = [jacket[s] EXCEPT !.state = "open"]]
    BY <1>0
  <2> QED
    BY <1>0, <1>4, <2>1, <2>2 DEF IN_USE
<1>10. AllMatch'
  <2>1. ASSUME NEW p \in Package PROVE Matches(packages'[p], ceremony'[p])
    <3>0. Matches(packages[p], ceremony[p])
      BY <1>4 DEF AllMatch
    <3>1. CASE p \in old
      BY <3>0, <3>1, <1>2, <1>3, <1>5, <1>7, AsideMatches DEF CURRENT
    <3>2. CASE p \notin old
      BY <3>0, <3>2, <1>2, <1>3, <1>7 DEF Matches
    <3> QED
      BY <3>1, <3>2
  <2>2. Matches(new, NoCeremony)
    BY <1>1, <1>6 DEF Matches
  <2> QED
    BY <2>1, <2>2, <1>7, <1>8 DEF AllMatch
<1>11. \A p \in Package : packages'[p].jacket = s => packages'[p].state \notin CURRENT
  BY <1>2, <1>5, <1>7 DEF CURRENT, LIVE_PACKAGE_STATES
<1>12. \A p \in Package : packages'[p].state \in CURRENT => packages[p].state \in CURRENT
  BY <1>2, <1>7 DEF CURRENT, LIVE_PACKAGE_STATES
<1>13. OneCurrent'
  <2> SUFFICES ASSUME NEW p \in Package', NEW q \in Package', packages'[p].jacket = packages'[q].jacket,
                      packages'[p].state \in CURRENT, packages'[q].state \in CURRENT
               PROVE  p = q
    BY DEF OneCurrent
  <2>1. CASE p = n \/ q = n
    BY <2>1, <1>1, <1>7, <1>8, <1>11
  <2>2. CASE p # n /\ q # n
    BY <2>2, <1>2, <1>4, <1>7, <1>8, <1>12 DEF OneCurrent
  <2> QED
    BY <2>1, <2>2
<1>14. VoidedHasNoLive'
  <2> SUFFICES ASSUME NEW p \in Package', jacket'[packages'[p].jacket].state = "voided",
                      packages'[p].state \in LIVE_PACKAGE_STATES
               PROVE  FALSE
    BY DEF VoidedHasNoLive
  <2>1. packages'[p].jacket # s
    BY <1>9 DEF IN_USE
  <2>2. p \in Package
    BY <2>1, <1>1, <1>7, <1>8
  <2>3. packages[p].state \in LIVE_PACKAGE_STATES
    BY <2>2, <1>2, <1>7 DEF LIVE_PACKAGE_STATES
  <2> QED
    BY <2>1, <2>2, <2>3, <1>2, <1>4, <1>7, <1>9 DEF VoidedHasNoLive
<1>15. OneInUse'
  BY <1>0, <1>4, <1>9 DEF OneInUse
<1>16. OpenedFirst'
  <2> SUFFICES ASSUME NEW p \in Package', jacket'[packages'[p].jacket].state = "none" PROVE FALSE
    BY DEF OpenedFirst
  <2>1. packages'[p].jacket # s
    BY <1>9 DEF IN_USE
  <2>2. p \in Package
    BY <2>1, <1>1, <1>7, <1>8
  <2> QED
    BY <2>1, <2>2, <1>2, <1>4, <1>7, <1>9 DEF OpenedFirst
<1>17. HoldCoversDocuments'
  <2> SUFFICES ASSUME NEW p \in Package', packages'[p].documents # {}
               PROVE  packages'[p].legalHold = jacket'[packages'[p].jacket].held
    BY DEF HoldCoversDocuments
  <2>1. CASE p = n
    BY <2>1, <1>1, <1>7, <1>9
  <2>2. CASE p \in Package
    BY <2>2, <1>2, <1>4, <1>7, <1>9 DEF HoldCoversDocuments
  <2> QED
    BY <2>1, <2>2, <1>8
<1> QED
  BY <1>7, <1>9, <1>10, <1>13, <1>14, <1>15, <1>16, <1>17 DEF RowsInv

--------------------------------------------------------------------------------
(* Every step *)

\* The steps that are not Moves.
Others ==
    \/ UNCHANGED <<jacket, packages, ceremony>>
    \/ Opens
    \/ \E s \in Scenario : \/ Assembles(s) \/ voidJacket(s)
                           \/ \E placed \in BOOLEAN : moveHold(s, placed)

\* Every step of the jacket is of one of these shapes.
LEMMA StepShapes == ASSUME ConfigInv, PaperInv, [Next]_vars PROVE Move \/ Others
<1>0. time \in Nat
  BY InputAssumption DEF ConfigInv, ConfigTypeOK
<1>1. ASSUME NEW p \in Package,
             markReviewReady(p) \/ reviewPackage(p) \/ voidPackage(p) \/ sendPackage(p)
      PROVE  Move
  BY <1>0, <1>1, LifecycleMoves, SendMoves
<1>2. ASSUME NEW p \in Package,
             \/ openSignerSession(p) \/ consentToElectronicRecords(p) \/ signAsCustomer(p)
             \/ declineAsCustomer(p) \/ signAsDealerRepresentative(p) \/ expireDueCeremony(p)
      PROVE  Move
  BY <1>2, CeremonyMoves
<1>3. ASSUME NEW s \in Scenario, NEW i \in items[s], satisfyWithEvidence(s, i) \/ waiveRequirement(s, i)
      PROVE  Others
  BY <1>3 DEF satisfyWithEvidence, waiveRequirement, Others
<1>4. ASSUME Configure \/ DeskStep \/ ProviderStep \/ JacketTick \/ UNCHANGED vars PROVE Others
  BY <1>4 DEF Configure, DeskStep, DeskApproves, PartyEdited, ProviderStep, recordProviderCallback,
     JacketTick, vars, jacketVars, Others
<1>5. ASSUME StaffStep PROVE Move \/ Others
  <2>1. ASSUME NEW s \in Scenario,
               Assembles(s) \/ voidJacket(s) \/ \E placed \in BOOLEAN : moveHold(s, placed)
        PROVE  Others
    BY <2>1 DEF Others
  <2>2. Opens => Others
    BY DEF Others
  <2> QED
    BY <1>5, <1>1, <1>2, <1>3, <2>1, <2>2 DEF StaffStep, Opens, Assembles
<1> QED
  BY <1>2, <1>4, <1>5 DEF Next, CustomerStep, ExpirySweep

\* Time and the configuration: only Configure records, only JacketTick counts.
LEMMA ConfigInvStep == ASSUME ConfigInv, [Next]_vars PROVE ConfigInv'
<1>1. CASE Configure
  <2>1. ConfigNext /\ time' = time
    BY <1>1 DEF Configure
  <2>2. time' \in 0..MaxTime
    BY <2>1 DEF ConfigInv, ConfigTypeOK
  <2> QED
    BY <2>1, <2>2, ConfigStep
<1>2. ASSUME UNCHANGED configVars, time' \in 0..MaxTime PROVE ConfigInv'
  BY <1>2 DEF configVars, ConfigInv, ConfigTypeOK
<1>3. time \in 0..MaxTime
  BY DEF ConfigInv, ConfigTypeOK
<1>4. CASE JacketTick
  BY <1>2, <1>3, <1>4, InputAssumption DEF JacketTick
<1>5. ASSUME UNCHANGED <<time, configVars>> PROVE ConfigInv'
  BY <1>2, <1>3, <1>5
<1>6. ASSUME NEW p \in Package,
             \/ markReviewReady(p) \/ reviewPackage(p) \/ voidPackage(p) \/ sendPackage(p)
             \/ signAsDealerRepresentative(p) \/ openSignerSession(p)
             \/ consentToElectronicRecords(p) \/ signAsCustomer(p) \/ declineAsCustomer(p)
             \/ expireDueCeremony(p)
      PROVE  ConfigInv'
  BY <1>5, <1>6 DEF markReviewReady, reviewPackage, voidPackage, sendPackage,
     signAsDealerRepresentative, openSignerSession, consentToElectronicRecords, signAsCustomer,
     declineAsCustomer, expireDueCeremony
<1>7. ASSUME NEW s \in Scenario,
             \/ Assembles(s) \/ voidJacket(s) \/ \E placed \in BOOLEAN : moveHold(s, placed)
             \/ \E i \in items[s] : satisfyWithEvidence(s, i) \/ waiveRequirement(s, i)
      PROVE  ConfigInv'
  BY <1>5, <1>7 DEF Assembles, assemblePackage, voidJacket, moveHold, satisfyWithEvidence, waiveRequirement
<1>8. CASE Opens \/ DeskStep \/ ProviderStep \/ UNCHANGED vars
  BY <1>5, <1>8 DEF Opens, openJacket, DeskStep, DeskApproves, PartyEdited, ProviderStep,
     recordProviderCallback, vars
<1> QED
  BY <1>1, <1>4, <1>6, <1>7, <1>8 DEF Next, StaffStep, CustomerStep, ExpirySweep, Opens, Assembles

\* Every step keeps the paperwork's invariant.
LEMMA PaperInvStep == ASSUME ConfigInv, PaperInv, [Next]_vars PROVE PaperInv'
<1>1. RowsInv'
  BY StepShapes, MoveKeeps, QuietKeeps, OpenKeeps, HoldKeeps, VoidJacketKeeps, AssemblyKeeps DEF Others
<1>2. DeskTyped'
  BY DeskTypedStep
<1> QED
  BY <1>1, <1>2 DEF RowsInv, DeskTyped, PaperInv, PaperTyped

\* Nothing is configured, opened or assembled at first.
LEMMA InvInit == ASSUME Init PROVE ConfigInv /\ PaperInv
<1> USE BoundAssumption, InputAssumption
<1>1. ConfigInv
  <2>1. time \in 0..MaxTime /\ templates = {} /\ requirements = {} /\ retention = {}
    BY DEF Init, ConfigInit
  <2>2. HasLatest({})
    BY DEF HasLatest, Versions
  <2>3. \A c \in STRING : {r \in {} : r.code = c} = {}
    OBVIOUS
  <2>4. CodesHaveLatest({})
    BY <2>2, <2>3 DEF CodesHaveLatest
  <2>5. Disjoint({})
    BY DEF Disjoint
  <2> QED
    BY <2>1, <2>2, <2>4, <2>5 DEF ConfigInv, ConfigTypeOK
<1>2. packages = <<>> /\ ceremony = <<>> /\ Package = {}
  BY DEF Init, Package
<1>3. \A s \in Scenario : jacket[s] = NoJacket
  BY DEF Init
<1>4. PaperTyped
  <2>1. jacket \in [Scenario -> JacketRow]
    BY DEF Init, NoJacket, JacketRow, JacketState
  <2>2. items \in [Scenario -> SUBSET ChecklistItemView]
    BY DEF Init
  <2> QED
    BY <1>2, <2>1, <2>2 DEF Init, PaperTyped
<1>5. AllMatch /\ OneCurrent /\ VoidedHasNoLive /\ OpenedFirst /\ HoldCoversDocuments
  BY <1>2 DEF AllMatch, OneCurrent, VoidedHasNoLive, OpenedFirst, HoldCoversDocuments
<1>6. OneInUse
  BY <1>3 DEF OneInUse, NoJacket, IN_USE
<1> QED
  BY <1>1, <1>4, <1>5, <1>6 DEF PaperInv

\* A step leaves the tenants alone, or is one of theirs and leaves the jacket alone.
LEMMA JacketSteps == [JacketNext]_<<vars, standing>> => [Next]_vars
BY DEF JacketNext

\* The inductive invariant: the tables of the configuration in order, the paperwork in its
\* types and in step with its ceremonies.
THEOREM JacketInvariant == Spec => [](ConfigInv /\ PaperInv)
<1>1. ConfigInv /\ PaperInv /\ [Next]_vars => (ConfigInv /\ PaperInv)'
  BY ConfigInvStep, PaperInvStep
<1> QED
  BY <1>1, InvInit, JacketSteps, PTL DEF Spec

\* The tenant has its place, whatever happens to it or to others.
LEMMA StandingTyped == Spec => [](standing \in Standing)
<1>1. TenantsInit => standing \in Standing
  BY DEF TenantsInit
<1>2. standing \in Standing /\ [JacketNext]_<<vars, standing>> => (standing \in Standing)'
  BY DEF JacketNext, TenantsMove
<1> QED
  BY <1>1, <1>2, PTL DEF Spec

\* At most one element: the form in which OneCurrentPackage counts jackets in use.
LEMMA AtMostOne ==
    ASSUME NEW S, \A s, t \in S : s = t
    PROVE  Cardinality(S) <= 1
<1>1. CASE S = {}
  BY <1>1, FS_EmptySet
<1>2. CASE S # {}
  <2>1. PICK s : S = {s}
    BY <1>2
  <2>2. Cardinality({s}) = 1
    BY FS_Singleton
  <2> QED
    BY <2>1, <2>2
<1> QED
  BY <1>1, <1>2

\* The paperwork is well formed whatever the configuration does meanwhile, for every set of
\* inputs and any number of versions, edits, packages and instants: a jacket has one package
\* in force, a case one jacket in use, documents carry their jacket's hold, and at every
\* moment one row answers for a code, but for rows of a rooftop with and without its legal
\* entity.
THEOREM JacketStaysWellFormed == Spec => []JacketIsWellFormed
<1>1. ASSUME ConfigInv, PaperInv, standing \in Standing PROVE JacketIsWellFormed
  <2>1. JacketTypeOK
    <3>1. \A p \in Package : packages[p] \in PackageView /\ ceremony[p] \in CeremonyView
      BY <1>1, PairTyped
    <3>2. \A s \in Scenario : /\ jacket[s].state \in JacketState /\ jacket[s].held \in BOOLEAN
                              /\ items[s] \subseteq ChecklistItemView
      BY <1>1 DEF PaperInv, PaperTyped, JacketRow
    <3> QED
      BY <1>1, <3>1, <3>2 DEF JacketTypeOK, ConfigInv, PaperInv, PaperTyped
  <2>2. OneCurrentPackage
    <3>1. Cardinality({s \in Scenario : jacket[s].state \in {"open", "signed_complete"}}) <= 1
      <4> DEFINE S == {s \in Scenario : jacket[s].state \in {"open", "signed_complete"}}
      <4>1. \A s, t \in S : s = t
        BY <1>1 DEF PaperInv, OneInUse, IN_USE
      <4> HIDE DEF S
      <4>2. Cardinality(S) <= 1
        BY <4>1, AtMostOne
      <4> QED
        BY <4>2 DEF S
    <3> QED
      BY <1>1, <3>1 DEF PaperInv, OneCurrent, VoidedHasNoLive, OneCurrentPackage, CURRENT
  <2> QED
    BY <1>1, <2>1, <2>2, ConfigTies DEF PaperInv, JacketIsWellFormed
<1> QED
  BY <1>1, JacketInvariant, StandingTyped, PTL

\* A ceremony takes signatures exactly as long as its package waits for them, and a package
\* is partly or completely signed exactly when that is what its signers did.
THEOREM CeremoniesMatchPackages == Spec => []CeremonyMatchesPackage
<1>1. ASSUME PaperInv PROVE CeremonyMatchesPackage
  BY <1>1 DEF PaperInv, AllMatch, Matches, CeremonyMatchesPackage, CeremonyOpen, Invited
<1> QED
  BY <1>1, JacketInvariant, PTL

\* A signature once written is never rewritten, and a signer who has to follow another one
\* never precedes him, whatever is done to the ceremony, its package or its jacket.
THEOREM SignaturesAreFinal == Spec => SignaturesStand
<1>1. ASSUME ConfigInv, PaperInv, [Next]_vars, NEW p \in Package
      PROVE  Stands(ceremony[p], ceremony'[p])
  <2>1. ASSUME ceremony'[p].signers = ceremony[p].signers PROVE Stands(ceremony[p], ceremony'[p])
    BY <2>1 DEF Stands
  <2>2. CASE Move
    <3>1. PICK q \in Package, k \in PackageView, c \in CeremonyView : Moves(q, k, c)
      BY <2>2 DEF Move
    <3>2. CASE q = p
      BY <1>1, <3>1, <3>2, PairTyped DEF Moves
    <3>3. CASE q # p
      <4>1. ceremony'[p] = ceremony[p]
        BY <1>1, <3>1, <3>3, PairTyped DEF Moves
      <4> QED
        BY <2>1, <4>1
    <3> QED
      BY <3>2, <3>3
  <2>3. CASE Others
    <3>1. ASSUME NEW s \in Scenario, Assembles(s) PROVE ceremony'[p].signers = ceremony[p].signers
      <4> DEFINE old == predecessorPackage(s)
      <4>1. ceremony' = Append(VoidedCeremonies(old), NoCeremony)
        BY <3>1 DEF Assembles, assemblePackage
      <4> HIDE DEF old
      <4>2. /\ VoidedCeremonies(old) \in Seq(CeremonyView) /\ Len(VoidedCeremonies(old)) = Len(packages)
            /\ VoidedCeremonies(old)[p].signers = ceremony[p].signers
        BY <1>1, VoidedCeremoniesFacts
      <4>3. p \in 1..Len(VoidedCeremonies(old))
        BY <1>1, <4>2 DEF Package
      <4>4. ceremony'[p] = VoidedCeremonies(old)[p]
        <5> DEFINE v == VoidedCeremonies(old)
        <5> HIDE DEF v
        <5>1. ceremony' = Append(v, NoCeremony) /\ v \in Seq(CeremonyView) /\ p \in 1..Len(v)
          BY <4>1, <4>2, <4>3 DEF v
        <5>2. ceremony'[p] = v[p]
          BY <5>1
        <5> QED
          BY <5>2 DEF v
      <4> QED
        BY <4>2, <4>4
    <3>2. ASSUME NEW s \in Scenario, voidJacket(s) PROVE ceremony'[p].signers = ceremony[p].signers
      <4>1. PICK ps : ceremony' = VoidedCeremonies(ps)
        BY <3>2 DEF voidJacket
      <4> QED
        BY <1>1, <4>1, VoidedCeremoniesFacts
    <3>3. ASSUME ceremony' = ceremony PROVE ceremony'[p].signers = ceremony[p].signers
      BY <3>3
    <3> QED
      BY <2>1, <2>3, <3>1, <3>2, <3>3 DEF Others, Opens, openJacket, moveHold
  <2> QED
    BY <1>1, <2>2, <2>3, StepShapes
<1>2. ASSUME ConfigInv, PaperInv, [Next]_vars
      PROVE  [\A p \in Package : \A r \in Invited(p) :
                /\ ceremony[p].signers[r] = "signed" => ceremony'[p].signers[r] = "signed"
                /\ (ceremony[p].signers[r] # "signed" /\ ceremony'[p].signers[r] = "signed") =>
                        \A q \in Invited(p) : ROLE_ORDER[q] < ROLE_ORDER[r] =>
                            ceremony[p].signers[q] = "signed"]_vars
  BY <1>1, <1>2 DEF Stands, Invited
<1> QED
  BY <1>2, JacketInvariant, JacketSteps, PTL DEF Spec, SignaturesStand

================================================================================
