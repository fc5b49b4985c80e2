-------------------------------- MODULE Selling --------------------------------
(***************************************************************************)
(* The sales floor: opportunities and their stages, the vehicles a customer*)
(* considers and drives, the work a salesperson owes, the floor rotation,  *)
(* showroom visits and the handoff to desking.                             *)
(*                                                                         *)
(* Source: packages/sales/src/{opportunities,selling,showroom,             *)
(* desking-seam}.ts.                                                       *)
(*                                                                         *)
(* An operation that locks the row it decides about is one action.  Five   *)
(* operations check that the opportunity is open by an unlocked read       *)
(* (assertOpportunityOpen) and write later: the read is an action of its   *)
(* own, and a conclusion may come between.  Two of them check again before *)
(* they write and lock less than they decide about: issuing a drive locks  *)
(* the car and neither the driver nor the escort, selecting a vehicle      *)
(* locks rows of the shortlist and not the opportunity.  Their check and   *)
(* their write are two actions, and unique indexes decide the race.        *)
(* The CRM's handoffs and appointments are read here: a handoff is its     *)
(* snapshot, an appointment its state.  Who works where is a constant.  A  *)
(* floor position only orders the rotation, so the rotation is a sequence. *)
(***************************************************************************)
EXTENDS Listings

CONSTANTS
    User, Works,     \* Works: who works which rooftop (permittedRooftopIds)
    Handoff, Snapshot, \* the CRM's handoffs and what each snapshot says
    Booking, BookedBy, \* the CRM's appointments and the customer of each
    Clerk,           \* requests about open opportunities, in flight at one time
    Unowned,
    MaxOpportunity,  \* bound: opportunities
    MaxDemo,         \* bound: demonstrations
    MaxOwed,         \* bound: activities
    MaxRound,        \* bound: negotiation rounds of an opportunity
    MaxVisit         \* bound: showroom visits

VARIABLES
    opportunities, \* opportunities, in the order they were inserted
    reading,       \* what each request in flight has read so far, NoRequest for none
    shortlist,     \* opportunity_vehicles.status by opportunity and stock item, "none"
    demos,         \* demonstrations
    owed,          \* opportunity_activities
    rounds,        \* the latest round_number of each opportunity
    turnovers,     \* manager_turnovers
    rotation,      \* floor_rotations of each rooftop, in the order of position
    floor,         \* floor_rotations.status
    bookings,      \* appointments.state
    visits,        \* showroom_visits
    deskHandoffs   \* desking_handoffs of each opportunity, NoDeskHandoff for none

salesVars == <<opportunities, reading, shortlist, demos, owed, rounds, turnovers, rotation, floor,
               bookings, visits, deskHandoffs>>
inventoryVars == <<partyVars, stockVars, listingVars>>

--------------------------------------------------------------------------------
(* Rows *)

OPPORTUNITY_STAGES ==
    {"received", "in_showroom", "demonstrated", "negotiating", "follow_up", "ready_for_desking", "lost"}
TERMINAL_STAGES == {"ready_for_desking", "lost"}
LEGAL_STAGES ==
    [received          |-> {"in_showroom", "demonstrated", "negotiating", "follow_up", "lost"},
     in_showroom       |-> {"demonstrated", "negotiating", "follow_up", "ready_for_desking", "lost"},
     demonstrated      |-> {"negotiating", "in_showroom", "follow_up", "ready_for_desking", "lost"},
     negotiating       |-> {"demonstrated", "follow_up", "ready_for_desking", "lost"},
     follow_up         |-> {"in_showroom", "demonstrated", "negotiating", "ready_for_desking", "lost"},
     ready_for_desking |-> {},
     lost              |-> {}]

OpportunityView ==
    [rooftop : Rooftop, party : PartyId, handoff : Handoff \cup {Unowned}, interest : Stock \cup {0},
     booking : Booking \cup {Unowned}, owner : User \cup {Unowned}, stage : OPPORTUNITY_STAGES]

VEHICLE_INTEREST_STATUSES == {"considering", "demonstrated", "rejected", "selected"}

DemonstrationState == {"issued", "in_progress", "returned", "cancelled", "exception"}
ACTIVE_DEMONSTRATION_STATES == {"issued", "in_progress"}
DemonstrationView ==
    [opportunity : 1..MaxOpportunity, item : Stock, visit : 0..MaxVisit, driver : PartyId,
     escort : User, state : DemonstrationState]

\* A request has read its opportunity as open, or has passed its check and holds its locks
\* until it writes: the row of the drive it inserts, or the vehicle it selects and the
\* ones it has stood down.
NoRequest == [phase |-> "none"]
RequestView ==
    {NoRequest}
        \cup [phase : {"open"}, opportunity : 1..MaxOpportunity]
        \cup [phase : {"drive"}, demo : DemonstrationView]
        \cup [phase : {"select"}, opportunity : 1..MaxOpportunity, item : Stock, stood : SUBSET Stock]

SALES_ACTIVITY_KINDS == {"note", "call", "email", "sms", "task", "appointment_followup"}
OWED_KINDS == {"task", "appointment_followup"}
SalesActivityView ==
    [opportunity : 1..MaxOpportunity, kind : SALES_ACTIVITY_KINDS, due : BOOLEAN,
     state : {"open", "completed", "cancelled"}]

RotationStatus == {"available", "with_customer", "unavailable"}
VisitState == {"arrived", "greeted", "with_salesperson", "departed"}
VisitView ==
    [rooftop : Rooftop, party : PartyId, opportunity : 0..MaxOpportunity, state : VisitState,
     greeter : User \cup {Unowned}, acceptedBy : User \cup {Unowned}]

DeskingHandoffFact == [item : Stock \cup {0}, status : {"NOT_YET_AVAILABLE", "AVAILABLE"}]
NoDeskHandoff == [item |-> 0, status |-> "none"]

ASSUME SellingAssumption ==
    /\ Snapshot \in [Handoff -> [rooftop : Rooftop, party : PartyId, item : Stock \cup {0},
                                 to : User \cup {Unowned}]]
    /\ MaxOpportunity \in Nat /\ MaxVisit \in Nat

Opportunity == DOMAIN opportunities
Open(o) == opportunities[o].stage \notin TERMINAL_STAGES
reaches(u, r) == <<u, r>> \in Works

\* The partial unique index on open opportunities of a customer at a rooftop.
OpenFor(r, p) == {o \in Opportunity : Open(o) /\ opportunities[o].rooftop = r /\ opportunities[o].party = p}

--------------------------------------------------------------------------------
(* Opportunities *)

NewOpportunity(r, p, h, interest, booking, owner) ==
    [rooftop |-> r, party |-> p, handoff |-> h, interest |-> interest, booking |-> booking,
     owner |-> owner, stage |-> "received"]

\* The person the lead was handed to owns the opportunity if they work the rooftop, else the
\* one who receives it, else nobody yet.
OwnerAtReceipt(actor, s) ==
    IF s.to \in User /\ reaches(s.to, s.rooftop) THEN s.to
    ELSE IF reaches(actor, s.rooftop) THEN actor ELSE Unowned

KeptBooking(p) ==
    LET upcoming == {b \in Booking : BookedBy[b] = p /\ bookings[b] \in {"scheduled", "confirmed"}} IN
    IF upcoming = {} THEN Unowned ELSE CHOOSE b \in upcoming : TRUE

\* Under the advisory lock on the handoff.  A customer who already has an open opportunity
\* at the rooftop trips the unique index, which the upsert does not name: nothing is kept.
receiveHandoff(actor, h) ==
    LET s == Snapshot[h] IN
    /\ \A o \in Opportunity : opportunities[o].handoff # h
    /\ OpenFor(s.rooftop, s.party) = {}
    /\ Len(opportunities) < MaxOpportunity
    /\ opportunities' = Append(opportunities,
                               NewOpportunity(s.rooftop, s.party, h, s.item, KeptBooking(s.party),
                                              OwnerAtReceipt(actor, s)))
    /\ UNCHANGED <<inventoryVars, reading, shortlist, demos, owed, rounds, turnovers, rotation, floor,
                   bookings, visits, deskHandoffs>>

\* Under the advisory lock on the customer at the rooftop.
openWalkIn(actor, r, p, interest) ==
    /\ reaches(actor, r)
    /\ OpenFor(r, p) = {}
    /\ Active(p)
    /\ interest # 0 => Live(interest) /\ stockItems[interest].rooftop = r
    /\ Len(opportunities) < MaxOpportunity
    /\ opportunities' = Append(opportunities, NewOpportunity(r, p, Unowned, interest, Unowned, actor))
    /\ UNCHANGED <<inventoryVars, reading, shortlist, demos, owed, rounds, turnovers, rotation, floor,
                   bookings, visits, deskHandoffs>>

acceptOpportunity(actor, o) ==
    /\ Open(o) /\ opportunities[o].owner = Unowned
    /\ reaches(actor, opportunities[o].rooftop)
    /\ opportunities' = [opportunities EXCEPT ![o].owner = actor]
    /\ UNCHANGED <<inventoryVars, reading, shortlist, demos, owed, rounds, turnovers, rotation, floor,
                   bookings, visits, deskHandoffs>>

assignOpportunity(o, to) ==
    /\ Open(o) /\ opportunities[o].owner # to
    /\ reaches(to, opportunities[o].rooftop)
    /\ opportunities' = [opportunities EXCEPT ![o].owner = to]
    /\ UNCHANGED <<inventoryVars, reading, shortlist, demos, owed, rounds, turnovers, rotation, floor,
                   bookings, visits, deskHandoffs>>

OwedOpen(o) == \E a \in DOMAIN owed : owed[a].opportunity = o /\ owed[a].state = "open" /\ owed[a].due

Selected(o) == {s \in Stock : shortlist[o][s] = "selected"}
TheSelected(o) == IF Selected(o) = {} THEN 0 ELSE CHOOSE s \in Selected(o) : TRUE

DeskingFact(o) == [item |-> TheSelected(o), status |-> "NOT_YET_AVAILABLE"]

\* The disposition a request must carry is determined by the stage and left out.
moveOpportunityStage(o, to) ==
    /\ to \in LEGAL_STAGES[opportunities[o].stage]
    /\ to = "follow_up" => OwedOpen(o)
    /\ opportunities' = [opportunities EXCEPT ![o].stage = to]
    /\ deskHandoffs' = IF to = "ready_for_desking" THEN [deskHandoffs EXCEPT ![o] = DeskingFact(o)]
                       ELSE deskHandoffs
    /\ UNCHANGED <<inventoryVars, reading, shortlist, demos, owed, rounds, turnovers, rotation, floor,
                   bookings, visits>>

--------------------------------------------------------------------------------
(* Work on an open opportunity *)

\* The unlocked read: the answer is acted on later.
assertOpportunityOpen(k, o) ==
    /\ reading[k] = NoRequest /\ Open(o)
    /\ reading' = [reading EXCEPT ![k] = [phase |-> "open", opportunity |-> o]]
    /\ UNCHANGED <<inventoryVars, opportunities, shortlist, demos, owed, rounds, turnovers, rotation,
                   floor, bookings, visits, deskHandoffs>>

Answered(k) == reading' = [reading EXCEPT ![k] = NoRequest]

\* The request is refused for some other reason, or its caller is gone.
readingDropped(k) ==
    /\ reading[k] # NoRequest /\ Answered(k)
    /\ UNCHANGED <<inventoryVars, opportunities, shortlist, demos, owed, rounds, turnovers, rotation,
                   floor, bookings, visits, deskHandoffs>>

shortlistVehicle(k, s) ==
    LET o == reading[k].opportunity IN
    /\ reading[k].phase = "open" /\ Answered(k)
    /\ shortlist[o][s] = "none"
    /\ Live(s) /\ stockItems[s].rooftop = opportunities[o].rooftop
    /\ shortlist' = [shortlist EXCEPT ![o][s] = "considering"]
    /\ UNCHANGED <<inventoryVars, opportunities, demos, owed, rounds, turnovers, rotation, floor,
                   bookings, visits, deskHandoffs>>

\* The rows of a shortlist that a request selecting a vehicle holds.
Locked(o, s) ==
    \E k \in Clerk : /\ reading[k].phase = "select" /\ reading[k].opportunity = o
                     /\ s \in {reading[k].item} \cup reading[k].stood

setVehicleStatus(k, s, status) ==
    LET o == reading[k].opportunity IN
    /\ reading[k].phase = "open" /\ Answered(k)
    /\ status # "selected"
    /\ shortlist[o][s] \notin {"none", status} /\ ~Locked(o, s)
    /\ shortlist' = [shortlist EXCEPT ![o][s] = status]
    /\ UNCHANGED <<inventoryVars, opportunities, demos, owed, rounds, turnovers, rotation, floor,
                   bookings, visits, deskHandoffs>>

\* The row is locked, then the vehicle selected so far; one that another request is about
\* to select is not seen.
selectVehicleChecked(k, s) ==
    LET o == reading[k].opportunity IN
    /\ reading[k].phase = "open"
    /\ shortlist[o][s] \notin {"none", "selected"}
    /\ \A t \in Selected(o) \cup {s} : ~Locked(o, t)
    /\ reading' = [reading EXCEPT ![k] = [phase |-> "select", opportunity |-> o, item |-> s,
                                          stood |-> Selected(o)]]
    /\ UNCHANGED <<inventoryVars, opportunities, shortlist, demos, owed, rounds, turnovers, rotation,
                   floor, bookings, visits, deskHandoffs>>

StandDown(o, stood) == [s \in Stock |-> IF s \in stood THEN "considering" ELSE shortlist[o][s]]

\* The partial unique index on the selected vehicle of an opportunity.
SelectionAdmitted(k) == Selected(reading[k].opportunity) \subseteq reading[k].stood

selectVehicleWritten(k) ==
    LET o == reading[k].opportunity IN
    /\ reading[k].phase = "select" /\ Answered(k)
    /\ SelectionAdmitted(k)
    /\ shortlist' = [shortlist EXCEPT
                        ![o] = [StandDown(o, reading[k].stood) EXCEPT ![reading[k].item] = "selected"]]
    /\ UNCHANGED <<inventoryVars, opportunities, demos, owed, rounds, turnovers, rotation, floor,
                   bookings, visits, deskHandoffs>>

Out == {d \in DOMAIN demos : demos[d].state \in ACTIVE_DEMONSTRATION_STATES}

\* The three physical conflicts, looked for among the drives that are out.
available(s, driver, escort) ==
    \A d \in Out : demos[d].item # s /\ demos[d].driver # driver /\ demos[d].escort # escort

\* The advisory lock on the car, held from the check to the end of the request.
CarLocked(s) == \E k \in Clerk : reading[k].phase = "drive" /\ reading[k].demo.item = s

issueDemonstrationChecked(k, s, visit, driver, escort) ==
    LET o == reading[k].opportunity IN
    /\ reading[k].phase = "open"
    /\ reaches(escort, opportunities[o].rooftop)
    /\ Live(s) /\ stockItems[s].rooftop = opportunities[o].rooftop
    /\ ~CarLocked(s) /\ available(s, driver, escort)
    /\ reading' = [reading EXCEPT ![k] =
                    [phase |-> "drive",
                     demo |-> [opportunity |-> o, item |-> s, visit |-> visit, driver |-> driver,
                               escort |-> escort, state |-> "issued"]]]
    /\ UNCHANGED <<inventoryVars, opportunities, shortlist, demos, owed, rounds, turnovers, rotation,
                   floor, bookings, visits, deskHandoffs>>

\* Mutant of DriveAdmitted: the escort has no index of his own.
DriveAdmitted_AnyEscort(row) ==
    \A d \in Out : demos[d].item # row.item /\ demos[d].driver # row.driver

\* The three partial unique indexes on drives that are out.
DriveAdmitted(row) ==
    \A d \in Out :
        demos[d].item # row.item /\ demos[d].driver # row.driver /\ demos[d].escort # row.escort

issueDemonstrationWritten(k) ==
    /\ reading[k].phase = "drive" /\ Answered(k)
    /\ DriveAdmitted(reading[k].demo)
    /\ Len(demos) < MaxDemo
    /\ demos' = Append(demos, reading[k].demo)
    /\ UNCHANGED <<inventoryVars, opportunities, shortlist, owed, rounds, turnovers, rotation, floor,
                   bookings, visits, deskHandoffs>>

\* A request that lost the race since its check: the write fails and all of it is undone.
uniqueViolation(k) ==
    /\ \/ reading[k].phase = "drive" /\ ~DriveAdmitted(reading[k].demo)
       \/ reading[k].phase = "select" /\ ~SelectionAdmitted(k)
    /\ Answered(k)
    /\ UNCHANGED <<inventoryVars, opportunities, shortlist, demos, owed, rounds, turnovers, rotation,
                   floor, bookings, visits, deskHandoffs>>

startDemonstration(d) ==
    /\ demos[d].state = "issued"
    /\ demos' = [demos EXCEPT ![d].state = "in_progress"]
    /\ UNCHANGED <<inventoryVars, opportunities, reading, shortlist, owed, rounds, turnovers, rotation,
                   floor, bookings, visits, deskHandoffs>>

\* A vehicle that was only considered has now been driven.
returnDemonstration(d) ==
    LET o == demos[d].opportunity
        s == demos[d].item IN
    /\ d \in Out
    /\ shortlist[o][s] = "considering" => ~Locked(o, s)
    /\ demos' = [demos EXCEPT ![d].state = "returned"]
    /\ shortlist' = [shortlist EXCEPT ![o][s] = IF @ = "considering" THEN "demonstrated" ELSE @]
    /\ UNCHANGED <<inventoryVars, opportunities, reading, owed, rounds, turnovers, rotation, floor,
                   bookings, visits, deskHandoffs>>

cancelDemonstration(d) ==
    /\ d \in Out
    /\ demos' = [demos EXCEPT ![d].state = "cancelled"]
    /\ UNCHANGED <<inventoryVars, opportunities, reading, shortlist, owed, rounds, turnovers, rotation,
                   floor, bookings, visits, deskHandoffs>>

recordDemonstrationException(d) ==
    /\ d \in Out
    /\ demos' = [demos EXCEPT ![d].state = "exception"]
    /\ UNCHANGED <<inventoryVars, opportunities, reading, shortlist, owed, rounds, turnovers, rotation,
                   floor, bookings, visits, deskHandoffs>>

\* Only a task or a follow-up is owed; everything else is done when it is logged.
logSalesActivity(k, kind, due) ==
    LET o == reading[k].opportunity IN
    /\ reading[k].phase = "open" /\ Answered(k)
    /\ due => kind \in OWED_KINDS
    /\ Len(owed) < MaxOwed
    /\ owed' = Append(owed, [opportunity |-> o, kind |-> kind, due |-> due,
                             state |-> IF kind \in OWED_KINDS THEN "open" ELSE "completed"])
    /\ UNCHANGED <<inventoryVars, opportunities, shortlist, demos, rounds, turnovers, rotation, floor,
                   bookings, visits, deskHandoffs>>

closeSalesActivity(a, state) ==
    /\ owed[a].state = "open"
    /\ owed' = [owed EXCEPT ![a].state = state]
    /\ UNCHANGED <<inventoryVars, opportunities, reading, shortlist, demos, rounds, turnovers, rotation,
                   floor, bookings, visits, deskHandoffs>>

\* The opportunity is locked, so that two rounds take different numbers.
recordNegotiationRound(o) ==
    /\ Open(o) /\ rounds[o] < MaxRound
    /\ rounds' = [rounds EXCEPT ![o] = @ + 1]
    /\ UNCHANGED <<inventoryVars, opportunities, reading, shortlist, demos, owed, turnovers, rotation,
                   floor, bookings, visits, deskHandoffs>>

recordTurnover(k, by, manager) ==
    LET o == reading[k].opportunity IN
    /\ reading[k].phase = "open" /\ Answered(k)
    /\ by # manager /\ reaches(manager, opportunities[o].rooftop)
    /\ turnovers' = turnovers \cup {<<o, by, manager>>}
    /\ UNCHANGED <<inventoryVars, opportunities, shortlist, demos, owed, rounds, rotation, floor,
                   bookings, visits, deskHandoffs>>

--------------------------------------------------------------------------------
(* The floor *)

joinFloor(u, r) ==
    /\ reaches(u, r) /\ u \notin Range(rotation[r])
    /\ rotation' = [rotation EXCEPT ![r] = Append(@, u)]
    /\ floor' = [floor EXCEPT ![r][u] = "available"]
    /\ UNCHANGED <<inventoryVars, opportunities, reading, shortlist, demos, owed, rounds, turnovers,
                   bookings, visits, deskHandoffs>>

FreeOn(r) == {i \in DOMAIN rotation[r] : floor[r][rotation[r][i]] = "available"}
takeNextTurn(r) == rotation[r][Min(FreeOn(r))]

PlaceOf(r, u) == CHOOSE i \in DOMAIN rotation[r] : rotation[r][i] = u

\* claimNamedTurnWithin and takeNextTurnWithin write the same: busy, and to the back.
ToTheBack(r, u) == [rotation EXCEPT ![r] = Append(RemoveAt(@, PlaceOf(r, u)), u)]

releaseToFloor(u, r) ==
    /\ u \in Range(rotation[r])
    /\ floor' = [floor EXCEPT ![r][u] = "available"]
    /\ UNCHANGED <<inventoryVars, opportunities, reading, shortlist, demos, owed, rounds, turnovers,
                   rotation, bookings, visits, deskHandoffs>>

Here(p) == {v \in DOMAIN visits : visits[v].party = p /\ visits[v].state # "departed"}

\* Under the advisory lock on the customer.  An appointment named is kept in the same
\* transaction.
checkIn(r, p, o, b) ==
    /\ Here(p) = {} /\ Active(p)
    /\ o # 0 => opportunities[o].rooftop = r /\ opportunities[o].party = p
    /\ b # Unowned => BookedBy[b] = p /\ bookings[b] \in {"scheduled", "confirmed"}
    /\ Len(visits) < MaxVisit
    /\ bookings' = IF b = Unowned THEN bookings ELSE [bookings EXCEPT ![b] = "completed"]
    /\ visits' = Append(visits, [rooftop |-> r, party |-> p, opportunity |-> o, state |-> "arrived",
                                 greeter |-> Unowned, acceptedBy |-> Unowned])
    /\ UNCHANGED <<inventoryVars, opportunities, reading, shortlist, demos, owed, rounds, turnovers,
                   rotation, floor, deskHandoffs>>

\* Somebody named must be on the floor and free; otherwise the next in turn is taken.
GreeterTakes(r, u) == u \in Range(rotation[r]) /\ floor[r][u] = "available"

greetVisit(v, named) ==
    LET r == visits[v].rooftop IN
    /\ visits[v].state = "arrived"
    /\ IF named = Unowned THEN FreeOn(r) # {} ELSE GreeterTakes(r, named)
    /\ LET u == IF named = Unowned THEN takeNextTurn(r) ELSE named IN
        /\ visits' = [visits EXCEPT ![v].state = "greeted", ![v].greeter = u]
        /\ floor' = [floor EXCEPT ![r][u] = "with_customer"]
        /\ rotation' = ToTheBack(r, u)
    /\ UNCHANGED <<inventoryVars, opportunities, reading, shortlist, demos, owed, rounds, turnovers,
                   bookings, deskHandoffs>>

\* Whoever takes the customer on need not be the one who greeted them, nor on the floor.
acceptVisit(v, actor) ==
    /\ visits[v].state = "greeted" /\ visits[v].acceptedBy = Unowned
    /\ reaches(actor, visits[v].rooftop)
    /\ visits' = [visits EXCEPT ![v].state = "with_salesperson", ![v].acceptedBy = actor]
    /\ UNCHANGED <<inventoryVars, opportunities, reading, shortlist, demos, owed, rounds, turnovers,
                   rotation, floor, bookings, deskHandoffs>>

CarOut(v) == \E d \in Out : demos[d].visit = v

WithCustomer(v) == IF visits[v].acceptedBy # Unowned THEN visits[v].acceptedBy ELSE visits[v].greeter

\* releaseWithin: freed only if the floor still has them busy.
releaseWithin(r, u) ==
    IF u \in Range(rotation[r]) /\ floor[r][u] = "with_customer"
    THEN [floor EXCEPT ![r][u] = "available"] ELSE floor

departVisit(v) ==
    /\ visits[v].state # "departed" /\ ~CarOut(v)
    /\ visits' = [visits EXCEPT ![v].state = "departed"]
    /\ floor' = releaseWithin(visits[v].rooftop, WithCustomer(v))
    /\ UNCHANGED <<inventoryVars, opportunities, reading, shortlist, demos, owed, rounds, turnovers,
                   rotation, bookings, deskHandoffs>>

\* The CRM moves an appointment by itself (setAppointmentState); what it looks like there
\* is in module Leads.
BOOKING_MOVES ==
    [scheduled |-> {"confirmed", "completed", "cancelled", "no_show"},
     confirmed |-> {"completed", "cancelled", "no_show"},
     completed |-> {}, cancelled |-> {}, no_show |-> {}]

bookingMoves(b, state) ==
    /\ state \in BOOKING_MOVES[bookings[b]]
    /\ bookings' = [bookings EXCEPT ![b] = state]
    /\ UNCHANGED <<inventoryVars, opportunities, reading, shortlist, demos, owed, rounds, turnovers,
                   rotation, floor, visits, deskHandoffs>>

SellingInit ==
    /\ opportunities = <<>> /\ reading = [k \in Clerk |-> NoRequest]
    /\ shortlist = [o \in 1..MaxOpportunity |-> [s \in Stock |-> "none"]]
    /\ demos = <<>> /\ owed = <<>> /\ rounds = [o \in 1..MaxOpportunity |-> 0] /\ turnovers = {}
    /\ rotation = [r \in Rooftop |-> <<>>] /\ floor = [r \in Rooftop |-> [u \in User |-> "none"]]
    /\ bookings = [b \in Booking |-> "scheduled"] /\ visits = <<>>
    /\ deskHandoffs = [o \in 1..MaxOpportunity |-> NoDeskHandoff]

SellingNext ==
    \/ \E u \in User, h \in Handoff : receiveHandoff(u, h)
    \/ \E u \in User, r \in Rooftop, p \in Party, s \in Stock \cup {0} : openWalkIn(u, r, p, s)
    \/ \E u \in User, o \in Opportunity : acceptOpportunity(u, o) \/ assignOpportunity(o, u)
    \/ \E o \in Opportunity, to \in OPPORTUNITY_STAGES : moveOpportunityStage(o, to)
    \/ \E k \in Clerk, o \in Opportunity : assertOpportunityOpen(k, o)
    \/ \E k \in Clerk : readingDropped(k) \/ uniqueViolation(k)
    \/ \E k \in Clerk, s \in Stock : shortlistVehicle(k, s)
    \/ \E k \in Clerk, s \in Stock, status \in VEHICLE_INTEREST_STATUSES : setVehicleStatus(k, s, status)
    \/ \E k \in Clerk, s \in Stock : selectVehicleChecked(k, s)
    \/ \E k \in Clerk : selectVehicleWritten(k) \/ issueDemonstrationWritten(k)
    \/ \E k \in Clerk, s \in Item, v \in DOMAIN visits \cup {0}, p \in Party, u \in User :
        issueDemonstrationChecked(k, s, v, p, u)
    \/ \E d \in DOMAIN demos :
        startDemonstration(d) \/ returnDemonstration(d) \/ cancelDemonstration(d)
            \/ recordDemonstrationException(d)
    \/ \E k \in Clerk, kind \in SALES_ACTIVITY_KINDS, due \in BOOLEAN : logSalesActivity(k, kind, due)
    \/ \E a \in DOMAIN owed, state \in {"completed", "cancelled"} : closeSalesActivity(a, state)
    \/ \E o \in Opportunity : recordNegotiationRound(o)
    \/ \E k \in Clerk, u, m \in User : recordTurnover(k, u, m)
    \/ \E u \in User, r \in Rooftop : joinFloor(u, r) \/ releaseToFloor(u, r)
    \/ \E r \in Rooftop, p \in Party, o \in Opportunity \cup {0}, b \in Booking \cup {Unowned} :
        checkIn(r, p, o, b)
    \/ \E v \in DOMAIN visits, u \in User \cup {Unowned} : greetVisit(v, u)
    \/ \E v \in DOMAIN visits, u \in User : acceptVisit(v, u)
    \/ \E v \in DOMAIN visits : departVisit(v)
    \/ \E b \in Booking : \E state \in BOOKING_MOVES[bookings[b]] : bookingMoves(b, state)

--------------------------------------------------------------------------------
(* Properties *)

SellingTypeOK ==
    /\ opportunities \in Seq(OpportunityView)
    /\ reading \in [Clerk -> RequestView]
    /\ shortlist \in [1..MaxOpportunity -> [Stock -> VEHICLE_INTEREST_STATUSES \cup {"none"}]]
    /\ demos \in Seq(DemonstrationView) /\ owed \in Seq(SalesActivityView)
    /\ rotation \in [Rooftop -> Seq(User)] /\ floor \in [Rooftop -> [User -> RotationStatus \cup {"none"}]]
    /\ visits \in Seq(VisitView)
    /\ deskHandoffs \in [1..MaxOpportunity -> DeskingHandoffFact \cup {NoDeskHandoff}]

\* One physical thing is in one place: no two drives that are out share the car, the driver
\* or the salesperson riding along, whichever opportunities and rooftops issued them and
\* whatever was issued between a request's check and its write; and a customer has one
\* vehicle selected at most, although the requests that select vehicles do not lock the
\* opportunity.  For the car the index never has to speak: "the second caller WAITS and then
\* reads the truth" (packages/sales/src/selling.ts:474-477), so a request that has passed
\* its check is not refused because somebody else has taken the car since.
DrivesAndSelectionsAreExclusive ==
    /\ \A d, e \in Out : d # e =>
        demos[d].item # demos[e].item /\ demos[d].driver # demos[e].driver
            /\ demos[d].escort # demos[e].escort
    /\ \A o \in Opportunity : Cardinality(Selected(o)) <= 1
    /\ \A k \in Clerk, d \in Out :
        reading[k].phase = "drive" => demos[d].item # reading[k].demo.item

\* "A floor that leaks people is a floor that stops giving out turns"
\* (packages/sales/src/showroom.ts:747-748): whoever the rotation has with a customer is
\* the greeter or the salesperson of somebody who has not left.
\* Refuted: see the README, section 5.
FloorDoesNotLeak ==
    \A r \in Rooftop, u \in User :
        floor[r][u] = "with_customer" =>
            \E v \in DOMAIN visits :
                visits[v].state # "departed" /\ u \in {visits[v].greeter, visits[v].acceptedBy}

================================================================================
