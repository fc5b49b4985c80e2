-------------------------------- MODULE Desking --------------------------------
(***************************************************************************)
(* Desking: the case opened for a handoff, the appraisal of the trade, the *)
(* rule book, the scenarios priced with it, and the manager's decision.    *)
(*                                                                         *)
(* Source: packages/desking/src/{intake,appraisal,rules,calculator,money,  *)
(* scenarios,jacket-seam}.ts.                                              *)
(*                                                                         *)
(* Every operation locks its case, its appraisal or its scenario and is    *)
(* one action.  Amounts are small integers, PPM and PAYMENT_SCALE are      *)
(* constants, a rule code is its place in the order of codes, and a        *)
(* fingerprint is the figures it is taken of.                              *)
(***************************************************************************)
EXTENDS Selling, Totals

CONSTANTS
    Manager,        \* who manages which rooftop (isEligibleManager)
    PPM,            \* the unit of rates: 1 000 000 in the code
    PAYMENT_SCALE,  \* the scale of the payment formula: 10^12 in the code
    RuleInput,      \* the rules a request may record
    ScenarioInput,  \* the scenarios a request may price
    MaxDay,         \* bound: the last day
    MaxRule,        \* bound: rules recorded
    MaxScenario,    \* bound: scenarios built
    MaxAppraisal,   \* bound: versions of an appraisal
    Forever         \* an interval without end

VARIABLES
    today,
    cases,        \* desking_cases by the opportunity handed over, NoCase for none
    appraisals,   \* the appraisal of each case, NoAppraisal for none
    rules,        \* desking_rules
    scenarios     \* desking_scenarios with their scenario_approvals, in order of insertion

deskVars == <<today, cases, appraisals, rules, scenarios>>
floorVars == <<inventoryVars, opportunities, reading, shortlist, demos, owed, rounds, turnovers,
               rotation, floor, bookings, visits>>

--------------------------------------------------------------------------------
(* Rows *)

DeskingCaseView == [rooftop : Rooftop, item : Stock \cup {0}, state : {"open", "approved"}]
NoCase == [rooftop |-> "none", item |-> 0, state |-> "none"]
Case == {o \in DOMAIN cases : cases[o] # NoCase}

\* current_version_no, and the version each quotation and attachment was added in.
AppraisalView == [version : 0..MaxAppraisal, quotes : SUBSET (1..MaxAppraisal), files : SUBSET (1..MaxAppraisal)]
NoAppraisal == [version |-> 0, quotes |-> {}, files |-> {}]

RULE_KINDS == {"tax", "fee", "incentive", "valuation", "policy"}
RULE_BASES == {"rate_ppm", "flat_amount"}
RULE_TARGETS == {"vehicle_price", "taxable_amount", "total"}
RecordRuleInput ==
    [kind : RULE_KINDS, code : Nat, scoped : BOOLEAN, from : 0..MaxDay, to : (0..MaxDay) \cup {Forever},
     basis : RULE_BASES, magnitude : Nat, appliesTo : RULE_TARGETS]

ScenarioInputs ==
    [price : Nat, allowance : Nat, payoff : Nat, down : Nat, term : Nat, apr : Nat,
     pricedAt : 0..MaxDay, expiresAt : (0..MaxDay) \cup {Forever}]

ASSUME DeskingAssumption ==
    /\ RuleInput \subseteq RecordRuleInput /\ ScenarioInput \subseteq ScenarioInputs
    /\ MaxDay \in Nat /\ Forever \in Nat /\ Forever > MaxDay /\ Manager \subseteq Works
    /\ PPM \in Nat \ {0} /\ PAYMENT_SCALE \in Nat \ {0} /\ MaxAppraisal \in Nat \ {0}

ScenarioState == {"draft", "submitted", "approved", "rejected", "expired", "superseded"}

--------------------------------------------------------------------------------
(* Money *)

\* Half away from zero, for a positive divisor.
roundDiv(dividend, divisor) ==
    IF dividend < 0 THEN -((-dividend * 2 + divisor) \div (divisor * 2))
    ELSE (dividend * 2 + divisor) \div (divisor * 2)

applyRate(amount, rate) == roundDiv(amount * rate, PPM)

growth(r, n) ==
    LET g[i \in 0..n] == IF i = 0 THEN PAYMENT_SCALE
                         ELSE (g[i - 1] * (PAYMENT_SCALE + r)) \div PAYMENT_SCALE
    IN g[n]

monthlyPayment(financed, n, apr) ==
    LET r == roundDiv(apr * PAYMENT_SCALE, PPM * 12)
        grown == growth(r, n) IN
    IF financed <= 0 THEN 0
    ELSE IF r = 0 \/ grown <= PAYMENT_SCALE THEN roundDiv(financed, n)
    ELSE roundDiv(financed * r * grown, (grown - PAYMENT_SCALE) * PAYMENT_SCALE)

--------------------------------------------------------------------------------
(* The calculator *)

magnitude(rule, base) ==
    IF rule.basis = "flat_amount" THEN rule.magnitude ELSE applyRate(base, rule.magnitude)

RuleRank == [policy |-> 0, tax |-> 1, fee |-> 2, incentive |-> 3, valuation |-> 4]

\* By kind, then by code; one rule of a kind and code is in force.
Before(a, b) ==
    \/ RuleRank[a.kind] < RuleRank[b.kind]
    \/ a.kind = b.kind /\ a.code < b.code

ordered(book) ==
    CHOOSE s \in [1..Cardinality(book) -> book] :
        Range(s) = book /\ \A i, j \in DOMAIN s : i < j => ~Before(s[j], s[i])

LineKinds == {"tax", "fee", "incentive"}
TRADE_TAX_CREDIT == 0

\* The trade credit against the taxable base.
creditCents(in, book) ==
    LET credit == {r \in book : r.kind = "policy" /\ r.code = TRADE_TAX_CREDIT /\ r.basis = "rate_ppm"} IN
    IF credit = {} THEN 0 ELSE applyRate(in.allowance, (CHOOSE r \in credit : TRUE).magnitude)

taxableAmount(in, book) == Max({0, in.price - creditCents(in, book)})

\* Amounts of the rules of one pass: totals by kind, and the lines in order.
Pass(in, book, bases) ==
    [i \in DOMAIN book |->
        [kind |-> book[i].kind, code |-> book[i].code, amount |-> magnitude(book[i], bases[book[i].appliesTo])]]

TotalOf(applied, kind) ==
    Total([i \in DOMAIN applied |-> IF applied[i].kind = kind THEN applied[i].amount ELSE 0])

LinesOf(applied) ==
    [i \in DOMAIN applied |->
        [applied[i] EXCEPT !.amount = IF applied[i].kind = "incentive" THEN -@ ELSE @]]

Line(kind, amount) == [kind |-> kind, code |-> 0, amount |-> amount]

\* Mutant of tradeEquity: the payoff of the traded vehicle is not taken off.
tradeEquity_NoPayoff(in) == in.allowance

tradeEquity(in) == in.allowance - in.payoff

computeScenario(in, book) ==
    LET priced == {r \in book : r.kind \in LineKinds}
        taxable == taxableAmount(in, book)
        first == Pass(in, ordered({r \in priced : r.appliesTo # "total"}),
                      [vehicle_price |-> in.price, taxable_amount |-> taxable, total |-> 0])
        subtotal == in.price + TotalOf(first, "tax") + TotalOf(first, "fee")
        second == Pass(in, ordered({r \in priced : r.appliesTo = "total"}),
                       [vehicle_price |-> 0, taxable_amount |-> 0, total |-> subtotal])
        applied == first \o second
        financed == in.price + TotalOf(applied, "tax") + TotalOf(applied, "fee")
                        - TotalOf(applied, "incentive") - in.down - tradeEquity(in) IN
    [taxable |-> taxable, tax |-> TotalOf(applied, "tax"), financed |-> financed,
     monthly |-> IF in.term = 0 THEN 0 ELSE monthlyPayment(financed, in.term, in.apr),
     lines |-> <<Line("price", in.price)>>
               \o (IF in.allowance # 0 \/ in.payoff # 0 THEN <<Line("trade", in.payoff - in.allowance)>>
                   ELSE <<>>)
               \o LinesOf(applied)
               \o (IF in.down # 0 THEN <<Line("down_payment", -in.down)>> ELSE <<>>)]

--------------------------------------------------------------------------------
(* The rule book *)

InForce(rule, at) == rule.from <= at /\ (rule.to = Forever \/ at < rule.to)

Overlaps(a, b) ==
    /\ a.kind = b.kind /\ a.code = b.code /\ a.scoped = b.scoped
    /\ a.from < b.to /\ b.from < a.to

\* An exclusion constraint keeps two rules of one kind and code from being in force together.
recordRule(rule) ==
    /\ rule.from < rule.to
    /\ \A i \in DOMAIN rules : ~Overlaps(rules[i], rule)
    /\ Len(rules) < MaxRule
    /\ rules' = Append(rules, rule)
    /\ UNCHANGED <<floorVars, deskHandoffs, today, cases, appraisals, scenarios>>

\* A rooftop's own rule replaces the tenant's rule of the same kind and code.
resolveRuleBook(at) ==
    LET force == {r \in Range(rules) : InForce(r, at)} IN
    {r \in force : r.scoped \/ \A q \in force : ~(q.scoped /\ q.kind = r.kind /\ q.code = r.code)}

\* missing: no tax rule was ever recorded.  expired: none of them ends after the instant,
\* whether or not it has begun.
RuleBookAnswers(at) ==
    \E r \in Range(rules) : r.kind = "tax" /\ (r.to = Forever \/ at < r.to)

--------------------------------------------------------------------------------
(* Cases and appraisals *)

\* Under the advisory lock on the handoff; a replay finds the case.
openDeskingCase(actor, o) ==
    /\ deskHandoffs[o] # NoDeskHandoff /\ cases[o] = NoCase
    /\ reaches(actor, opportunities[o].rooftop)
    /\ cases' = [cases EXCEPT ![o] = [rooftop |-> opportunities[o].rooftop,
                                      item |-> deskHandoffs[o].item, state |-> "open"]]
    /\ deskHandoffs' = [deskHandoffs EXCEPT ![o].status = "AVAILABLE"]
    /\ UNCHANGED <<floorVars, today, appraisals, rules, scenarios>>

recordAppraisal(c) ==
    /\ cases[c] # NoCase /\ appraisals[c] = NoAppraisal
    /\ appraisals' = [appraisals EXCEPT ![c].version = 1]
    /\ UNCHANGED <<floorVars, deskHandoffs, today, cases, rules, scenarios>>

reviseAppraisal(c) ==
    /\ appraisals[c].version \in 1..(MaxAppraisal - 1)
    /\ appraisals' = [appraisals EXCEPT ![c].version = @ + 1]
    /\ UNCHANGED <<floorVars, deskHandoffs, today, cases, rules, scenarios>>

recordSourceQuotation(c) ==
    /\ appraisals[c] # NoAppraisal
    /\ appraisals' = [appraisals EXCEPT ![c].quotes = @ \cup {appraisals[c].version}]
    /\ UNCHANGED <<floorVars, deskHandoffs, today, cases, rules, scenarios>>

addAppraisalAttachment(c) ==
    /\ appraisals[c] # NoAppraisal
    /\ appraisals' = [appraisals EXCEPT ![c].files = @ \cup {appraisals[c].version}]
    /\ UNCHANGED <<floorVars, deskHandoffs, today, cases, rules, scenarios>>

--------------------------------------------------------------------------------
(* Scenarios *)

ScenariosOf(c) == {n \in DOMAIN scenarios : scenarios[n].case = c}
NewScenario(c, in) ==
    [case |-> c, versionNo |-> Cardinality(ScenariosOf(c)) + 1, in |-> in, state |-> "draft",
     out |-> computeScenario(in, resolveRuleBook(in.pricedAt)), applied |-> resolveRuleBook(in.pricedAt),
     decision |-> "none", decidedBy |-> Unowned, decidedOn |-> 0]

buildScenario(c, in) ==
    /\ cases[c] # NoCase
    /\ RuleBookAnswers(in.pricedAt)
    /\ Len(scenarios) < MaxScenario
    /\ scenarios' = Append(scenarios, NewScenario(c, in))
    /\ UNCHANGED <<floorVars, deskHandoffs, today, cases, appraisals, rules>>

submitScenario(n) ==
    /\ scenarios[n].state = "draft"
    /\ scenarios' = [scenarios EXCEPT ![n].state = "submitted"]
    /\ UNCHANGED <<floorVars, deskHandoffs, today, cases, appraisals, rules>>

isEligibleManager(actor, n) == <<actor, cases[scenarios[n].case].rooftop>> \in Manager

\* reviewed: the figures the manager was looking at.
decidable(actor, n, reviewed) ==
    /\ scenarios[n].decision = "none" /\ scenarios[n].state = "submitted"
    /\ isEligibleManager(actor, n)
    /\ scenarios[n].in.expiresAt = Forever \/ today < scenarios[n].in.expiresAt
    /\ scenarios[n].out = reviewed

Decided(n, actor, decision) ==
    [scenarios EXCEPT ![n].state = decision, ![n].decision = decision,
                      ![n].decidedBy = actor, ![n].decidedOn = today]

\* Mutant of Superseded: the version approved before is left standing.
Superseded_Nothing(rows, n) == rows

\* The standing approved version of the case is superseded: its figures stay.
Superseded(rows, n) ==
    [m \in DOMAIN rows |->
        IF m # n /\ rows[m].case = rows[n].case /\ rows[m].state = "approved"
        THEN [rows[m] EXCEPT !.state = "superseded"] ELSE rows[m]]

approveScenario(actor, n, reviewed) ==
    /\ decidable(actor, n, reviewed)
    /\ scenarios' = Superseded(Decided(n, actor, "approved"), n)
    /\ cases' = [cases EXCEPT ![scenarios[n].case].state = "approved"]
    /\ UNCHANGED <<floorVars, deskHandoffs, today, appraisals, rules>>

rejectScenario(actor, n, reviewed) ==
    /\ decidable(actor, n, reviewed)
    /\ scenarios' = Decided(n, actor, "rejected")
    /\ UNCHANGED <<floorVars, deskHandoffs, today, cases, appraisals, rules>>

\* Mutant of expireScenario: any version that is not finished is expired.
expireScenario_Approved(n) ==
    /\ scenarios[n].state \in {"draft", "submitted", "approved"}
    /\ scenarios' = [scenarios EXCEPT ![n].state = "expired"]
    /\ UNCHANGED <<floorVars, deskHandoffs, today, cases, appraisals, rules>>

expireScenario(n) ==
    /\ scenarios[n].state \in {"draft", "submitted"}
    /\ scenarios' = [scenarios EXCEPT ![n].state = "expired"]
    /\ UNCHANGED <<floorVars, deskHandoffs, today, cases, appraisals, rules>>

dayPasses ==
    /\ today < MaxDay
    /\ today' = today + 1
    /\ UNCHANGED <<floorVars, deskHandoffs, cases, appraisals, rules, scenarios>>

\* What the deal jacket is assembled from: the one approved version of a case.
getApprovedDeskingVersion(c) == {n \in ScenariosOf(c) : scenarios[n].state = "approved"}

DeskingInit ==
    /\ today = 0 /\ cases = [o \in 1..MaxOpportunity |-> NoCase]
    /\ appraisals = [o \in 1..MaxOpportunity |-> NoAppraisal] /\ rules = <<>> /\ scenarios = <<>>

DeskingNext ==
    \/ \E u \in User, o \in Opportunity : openDeskingCase(u, o)
    \/ \E c \in Case : recordAppraisal(c) \/ reviseAppraisal(c) \/ recordSourceQuotation(c)
                           \/ addAppraisalAttachment(c)
    \/ \E rule \in RuleInput : recordRule(rule)
    \/ \E c \in Case, in \in ScenarioInput : buildScenario(c, in)
    \/ \E n \in DOMAIN scenarios : submitScenario(n) \/ expireScenario(n)
    \/ \E u \in User, n, m \in DOMAIN scenarios :
        approveScenario(u, n, scenarios[m].out) \/ rejectScenario(u, n, scenarios[m].out)
    \/ dayPasses

--------------------------------------------------------------------------------
(* The showroom: inventory, selling and desking together *)

vars == <<inventoryVars, salesVars, deskVars>>

ShowroomInit == PartiesInit /\ StockInit /\ ListingsInit /\ SellingInit /\ DeskingInit

Next ==
    \/ PartiesNext /\ UNCHANGED <<stockVars, listingVars, salesVars, deskVars>>
    \/ StockNext /\ UNCHANGED <<listingVars, salesVars, deskVars>>
    \/ ListingsNext /\ UNCHANGED <<salesVars, deskVars>>
    \/ SellingNext /\ UNCHANGED deskVars
    \/ DeskingNext

ShowroomSpec == ShowroomInit /\ [][Next]_vars

\* The worker polls the outbox, deferrals are written, and time passes.
Fairness ==
    /\ WF_vars(dispatchDueListingEvents /\ UNCHANGED <<salesVars, deskVars>>)
    /\ WF_vars((\E f \in failed : deferEvent(f)) /\ UNCHANGED <<salesVars, deskVars>>)
    /\ WF_vars(backoffTick /\ UNCHANGED <<salesVars, deskVars>>)

--------------------------------------------------------------------------------
(* Properties *)

ShowroomTypeOK ==
    /\ PartiesTypeOK /\ StockTypeOK /\ ListingsTypeOK /\ SellingTypeOK
    /\ today \in 0..MaxDay
    /\ cases \in [1..MaxOpportunity -> DeskingCaseView \cup {NoCase}]
    /\ appraisals \in [1..MaxOpportunity -> AppraisalView]
    /\ Range(rules) \subseteq RecordRuleInput
    /\ \A n \in DOMAIN scenarios : scenarios[n].state \in ScenarioState

\* A case that was approved keeps exactly one approved version to assemble a jacket from,
\* through later versions, supersessions, rejections and expiries, and the version was
\* decided by a manager before it ran out.
ApprovedCaseHasItsVersion ==
    \A c \in Case :
        /\ cases[c].state = "approved" => Cardinality(getApprovedDeskingVersion(c)) = 1
        /\ \A n \in getApprovedDeskingVersion(c) :
            /\ scenarios[n].decision = "approved"
            /\ <<scenarios[n].decidedBy, cases[c].rooftop>> \in Manager
            /\ scenarios[n].decidedOn < scenarios[n].in.expiresAt

\* The showroom's tables agree across components: a vehicle in transfer is where the
\* transfer starts, a listing that waits has the event that will answer it, and an approved
\* case has the one version its jacket is assembled from.
ShowroomAgrees ==
    /\ ShowroomTypeOK /\ OpenTransferStartsWhereTheVehicleIs
    /\ PendingListingsHaveAnEvent /\ ApprovedCaseHasItsVersion

\* The lines a customer is shown add up to the amount financed, whatever taxes, fees,
\* incentives, trade and credit the rule book brings in, and the monthly payments pay it
\* back to within the rounding of each payment.
FiguresAddUp ==
    \A n \in DOMAIN scenarios :
        LET out == scenarios[n].out
            term == scenarios[n].in.term IN
        /\ out.financed = Total([i \in DOMAIN out.lines |-> out.lines[i].amount])
        /\ term # 0 => 2 * term * out.monthly + term >= 2 * out.financed

\* "A tax book that is empty or entirely expired is reported rather than silently priced at
\* zero" (packages/desking/src/rules.ts:218-220): every scenario was priced with a tax rule.
\* Refuted: see the README, section 5.
NeverPricedWithoutTax ==
    \A n \in DOMAIN scenarios : \E r \in scenarios[n].applied : r.kind = "tax"

================================================================================
