------------------------------- MODULE MCShowroom -------------------------------
(* Bounded instance of inventory, selling and desking for TLC.  The environment    *)
(* plays one scene at a time: vehicles are acquired and moved; one is              *)
(* merchandised; listings are published and withdrawn through a failing            *)
(* dispatcher; customers visit; two rooftops issue drives to two customers; two    *)
(* requests select vehicles of one customer; an opportunity is worked and handed   *)
(* to desking; a trade is appraised; scenarios are priced and decided.             *)
EXTENDS Desking

VARIABLE scene

Details(email) == [email |-> email, phone |-> "none"]
MCPartyInput == {Details("a@x")}
MCWorks == {<<"u1", "r1">>, <<"u2", "r1">>, <<"u3", "r2">>, <<"u2", "r2">>}
MCManager == {<<"u2", "r1">>}
MCSnapshot == [h1 |-> [rooftop |-> "r1", party |-> 1, item |-> 1, to |-> "u3"],
               h2 |-> [rooftop |-> "r2", party |-> 2, item |-> 0, to |-> "u3"],
               h3 |-> [rooftop |-> "r2", party |-> 1, item |-> 0, to |-> "nobody"]]
MCBookedBy == [b1 |-> 1]

Rule(kind, code, from, to, basis, amount, target) ==
    [kind |-> kind, code |-> code, scoped |-> FALSE, from |-> from, to |-> to, basis |-> basis,
     magnitude |-> amount, appliesTo |-> target]
MCRuleInput ==
    {Rule("tax", 1, 0, 1, "rate_ppm", 8, "taxable_amount"), Rule("tax", 1, 1, 9, "rate_ppm", 10, "taxable_amount"),
     [Rule("tax", 1, 0, 9, "rate_ppm", 15, "total") EXCEPT !.scoped = TRUE],
     Rule("fee", 2, 0, 9, "flat_amount", 35, "vehicle_price"), Rule("incentive", 3, 0, 9, "rate_ppm", 5, "total"),
     Rule("policy", 0, 0, 9, "rate_ppm", 50, "vehicle_price")}
Deal(price, allowance, payoff, down, term, apr, at) ==
    [price |-> price, allowance |-> allowance, payoff |-> payoff, down |-> down, term |-> term,
     apr |-> apr, pricedAt |-> at, expiresAt |-> 1]
MCScenarioInput ==
    {[Deal(1005, 0, 0, 0, 0, 0, 0) EXCEPT !.expiresAt = 9], Deal(995, 300, 410, 105, 12, 7, 0),
     Deal(105, 300, 0, 0, 3, 0, 1)}

AnItem(v, number, state) ==
    [vin |-> v, number |-> number, rooftop |-> "r1", state |-> state, source |-> "auction",
     title |-> "pending", wasReady |-> state = "retail_ready"]
APhoto(s) == [item |-> s, kind |-> "photo", position |-> 1, status |-> "active"]
APrice(s) == [item |-> s, type |-> "retail", supersededBy |-> 0]
ReadyStock == <<AnItem("v1", "n1", "retail_ready"), AnItem("v2", "n2", "retail_ready")>>

AVisit == [rooftop |-> "r1", party |-> 1, opportunity |-> 1, state |-> "with_salesperson",
           greeter |-> "u1", acceptedBy |-> "u1"]

AnOpportunity(r, p) == NewOpportunity(r, p, Unowned, 0, Unowned, "u2")

SalesScenes == {"floor", "drives", "choose", "sell"}
MCInit ==
    /\ scene \in {"stock", "lot", "merch", "listing", "floor", "drives", "choose", "sell", "trade", "price"}
    /\ parties = IF scene \in SalesScenes \cup {"trade", "price"}
                 THEN <<NewParty(<<>>, Details("a@x")), NewParty(<<>>, Details("b@x"))>> ELSE <<>>
    /\ channelConsent = [p \in PartyId |-> "none"] /\ acquiredFrom = [s \in Stock |-> 0]
    /\ vehicles = [v \in Vin |-> IF scene = "stock" THEN NoVehicle ELSE NewVehicle]
    /\ stockItems = IF scene = "stock" THEN <<>> ELSE IF scene = "lot" THEN <<AnItem("v1", "n1", "acquired")>>
                    ELSE IF scene \in {"listing", "merch"} THEN <<ReadyStock[1]>>
                    ELSE IF scene = "drives" THEN [ReadyStock EXCEPT ![2].rooftop = "r2"] ELSE ReadyStock
    /\ documents = {} /\ costs = {}
    /\ prices = IF scene = "listing" THEN <<APrice(1)>> ELSE <<>>
    /\ media = IF scene = "listing" THEN <<APhoto(1)>> ELSE <<>>
    /\ features = [s \in Stock |-> {}] /\ holds = [s \in Stock |-> NoHold] /\ transfers = <<>>
    /\ listings = [l \in Listing |-> NoListing] /\ listingOutbox = <<>> /\ failed = {}
    /\ listingEvents = {} /\ failures = 0
    /\ opportunities = IF scene \in {"trade", "price"}
                       THEN <<[NewOpportunity("r1", 1, Unowned, 1, Unowned, "u1") EXCEPT !.stage = "negotiating"]>>
                       ELSE IF scene = "drives" THEN <<AnOpportunity("r1", 1), AnOpportunity("r2", 2)>>
                       ELSE IF scene = "choose" THEN <<AnOpportunity("r1", 1)>> ELSE <<>>
    /\ reading = [k \in Clerk |-> NoRequest]
    /\ shortlist = [o \in 1..MaxOpportunity |-> [s \in Stock |->
                        IF scene = "choose" /\ o = 1 THEN "considering" ELSE "none"]]
    /\ demos = <<>> /\ owed = <<>> /\ rounds = [o \in 1..MaxOpportunity |-> 0] /\ turnovers = {}
    /\ rotation = [r \in Rooftop |-> <<>>] /\ floor = [r \in Rooftop |-> [u \in User |-> "none"]]
    /\ bookings = [b \in Booking |-> "scheduled"]
    /\ visits = IF scene = "drives" THEN <<AVisit>> ELSE <<>>
    /\ deskHandoffs = [o \in 1..MaxOpportunity |-> NoDeskHandoff]
    /\ today = 0 /\ cases = [o \in 1..MaxOpportunity |-> NoCase]
    /\ appraisals = [o \in 1..MaxOpportunity |-> NoAppraisal] /\ rules = <<>> /\ scenarios = <<>>

Scene ==
    /\ scene' = scene
    /\ scene = "stock" =>
        /\ \A v \in Vin : v # "v1" => vehicles'[v].status \in {"none", "undecoded"} /\ vehicles'[v].color = "none"
        /\ \A s \in DOMAIN stockItems' :
            /\ stockItems'[s].source \in {"trade_in", "auction"} /\ stockItems'[s].title = "pending"
            /\ stockItems'[s].state \in {"acquired", "retired"} /\ vehicles'[stockItems'[s].vin].color = "none"
        /\ UNCHANGED <<documents, costs, prices, media, features, holds, transfers>>
    /\ scene = "lot" =>
        /\ UNCHANGED <<partyVars, vehicles, costs, prices, media, features, listingVars>>
        /\ Len(stockItems') = 1 /\ \A s \in Stock : holds'[s] \in {"manager", NoHold}
        /\ documents' # {} => holds' = holds /\ transfers = <<>> /\ stockItems'[1].title = "pending"
    /\ scene = "merch" =>
        /\ UNCHANGED <<partyVars, vehicles, stockItems, documents, holds, transfers>>
        /\ \A p \in DOMAIN prices' : prices'[p].type \in {"retail", "msrp"}
        /\ \A c \in costs' : c.item = 1
        /\ prices' # <<>> => costs' = {} /\ media' = <<>>
        /\ media' # <<>> => costs' = {}
    /\ scene = "listing" =>
        /\ UNCHANGED <<partyVars, stockVars>> \/ stockItems'[1].state \in {"retired", "in_reconditioning"}
        /\ Cardinality({e \in DOMAIN listingOutbox' : listingOutbox'[e].listing[2] = "web"}) <= 1
        /\ \A e \in listingEvents' : e.type = "reconciled" => failures = 0
    /\ scene \in SalesScenes => UNCHANGED deskVars
    /\ scene \notin {"drives", "choose"} => \A k \in Clerk : k # "k1" => reading'[k] = NoRequest
    /\ scene = "floor" =>
        /\ UNCHANGED <<opportunities, reading, demos, owed, rounds, turnovers, deskHandoffs>>
        /\ bookings'["b1"] \in {"scheduled", "confirmed", "completed"}
        /\ rotation'["r2"] = <<>> /\ \A v \in DOMAIN visits' : visits'[v].rooftop = "r1"
    /\ scene = "drives" =>
        /\ UNCHANGED <<opportunities, shortlist, owed, rounds, turnovers, rotation, floor, bookings, visits,
                       deskHandoffs>>
        /\ \A k \in Clerk : reading'[k].phase = "drive" =>
            reading'[k].demo.visit = IF reading'[k].demo.item = 1 /\ reading'[k].demo.driver = 1 THEN 1 ELSE 0
    /\ scene = "choose" =>
        /\ UNCHANGED <<opportunities, owed, rounds, turnovers, rotation, floor, bookings, visits, deskHandoffs>>
        /\ \A k \in Clerk : reading'[k].phase = "drive" => reading'[k].demo.driver = 1 /\ reading'[k].demo.escort = "u1"
        /\ Len(demos') <= 1
    /\ scene = "sell" =>
        /\ UNCHANGED <<demos, rotation, floor, visits>>
        /\ bookings' # bookings => opportunities = <<>>
        /\ \A k \in Clerk : reading'[k].phase \in {"open", "select"} => reading'[k].opportunity = 1
        /\ \A k \in Clerk : reading'[k].phase # "drive"
        /\ \A a \in DOMAIN owed' : owed'[a].kind \in {"task", "call"}
        /\ \A t \in turnovers' : t[2] = "u1"
        /\ Len(opportunities') = 2 =>
            UNCHANGED <<shortlist, turnovers, owed, rounds, reading>> /\ shortlist[1][1] = "none" /\ owed = <<>>
        /\ \A o \in DOMAIN opportunities' : opportunities'[o].interest # 2 /\ opportunities'[o].owner # "u3"
        /\ \A o \in DOMAIN opportunities' :
            opportunities'[o].stage \in {"received", "follow_up", "negotiating", "ready_for_desking"}
        /\ turnovers' # {} => owed' = <<>> /\ shortlist'[1][1] = "none" /\ shortlist'[1][2] = "none"
        /\ \A s \in Stock : shortlist'[1][s] # "demonstrated"
        /\ \A o \in DOMAIN opportunities' : rounds'[o] # 0 => owed' = <<>> /\ shortlist'[1][1] = "none" /\ shortlist'[1][2] = "none"
        /\ owed' # <<>> => shortlist'[1][2] = "none"
    /\ scene \in {"trade", "price"} =>
        /\ UNCHANGED <<demos, owed, rounds, turnovers, rotation, floor, bookings, visits>>
        /\ Len(opportunities') = 1 /\ opportunities'[1].owner = "u1"
        /\ opportunities'[1].stage \in {"negotiating", "ready_for_desking"}
    /\ scene = "trade" => UNCHANGED <<today, rules, scenarios>> /\ shortlist'[1][2] = "none"
    /\ scene = "price" =>
        /\ UNCHANGED <<appraisals, reading, shortlist>>
        /\ rules' # rules =>
            /\ scenarios = <<>> /\ cases[1] = NoCase /\ today = 0 /\ opportunities[1].stage = "negotiating"
            /\ rules # <<>> => rules[Len(rules)].code <= rules'[Len(rules')].code

MCNext ==
    /\ \/ /\ scene \in {"stock", "lot", "merch"}
          /\ StockNext /\ UNCHANGED <<listingVars, salesVars, deskVars>>
       \/ /\ scene \in {"stock", "lot", "listing"}
          /\ ListingsNext /\ UNCHANGED <<salesVars, deskVars>>
       \/ /\ scene \in SalesScenes \cup {"trade", "price"}
          /\ SellingNext /\ UNCHANGED deskVars
       \/ /\ scene \in {"trade", "price"}
          /\ DeskingNext
    /\ Scene

MCSpec ==
    /\ MCInit
    /\ [][MCNext]_<<vars, scene>>
    /\ Fairness

=================================================================================
