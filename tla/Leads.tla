--------------------------------- MODULE Leads ---------------------------------
(***************************************************************************)
(* The leads of one rooftop: where they come from, how captures converge   *)
(* on one open lead per interest, how a lead is worked, booked, escalated  *)
(* and handed to sales, and how its sources are credited.                  *)
(*                                                                         *)
(* Source: packages/crm/src/{sources,leads,routing,activities,             *)
(* attribution}.ts.                                                        *)
(*                                                                         *)
(* A capture is three steps, because the replay check runs before the      *)
(* advisory lock on the interest, and the lock keeps out other captures    *)
(* but not a close or a handoff.  Logging or closing an activity is two,   *)
(* because the lead's state is read without a lock; the activity that is   *)
(* being closed is locked.  Every other operation locks the row it decides *)
(* about and is one action; one that carries a stale expectedVersion is    *)
(* refused and changes nothing.  Time is counted in ticks left, so no      *)
(* clock needs a bound.                                                    *)
(***************************************************************************)
EXTENDS Parties, Totals, Tenants

CONSTANTS
    Source, Queue, Owner, Interest, IntakeKey,
    Capturer,      \* concurrent capture transactions
    Logger,        \* concurrent logActivity and closeActivity transactions
    MaxLead,       \* bound: leads created
    MaxActivity,   \* bound: activities logged
    MaxBooking,    \* bound: appointments booked
    ActivityInput, \* the activities a request may log
    SlaInput,      \* the policies a request may set
    CaptureInput,  \* the captures a request may make
    Nobody

VARIABLES
    sources,      \* lead_sources.status, "none" where undefined
    queues,       \* lead_queues that are active
    sla,          \* the active lead_sla_policies row: minutes to respond and to escalate
    leads,        \* leads, in the order they were inserted
    touches,      \* touches[l]: lead_source_touches of lead l, in touch_seq order
    intakes,      \* lead_intakes by intake_key
    capture,      \* the capture transactions in flight
    activities,   \* lead_activities
    logging,      \* the logActivity and closeActivity transactions in flight
    appointments, \* appointments
    handoffs,     \* lead_handoffs: the snapshot of each lead handed off
    attribution   \* the computed attribution run of each model

leadVars == <<sources, queues, sla, leads, touches, intakes, capture, activities, logging,
              appointments, handoffs, attribution>>

--------------------------------------------------------------------------------
(* Rows *)

LeadState == {"new", "working", "qualified", "appointment_set", "handed_off", "closed"}

LEGAL_TRANSITIONS ==
    [new             |-> {"working", "closed"},
     working         |-> {"qualified", "closed"},
     qualified       |-> {"appointment_set", "handed_off", "closed"},
     appointment_set |-> {"qualified", "handed_off", "closed"},
     handed_off      |-> {},
     closed          |-> {}]

Never == -1  \* a clock that is not set

\* dueIn and escalateIn are the ticks left on first_response_due_at and escalate_at.
LeadView ==
    [party : PartyId, interest : Interest, state : LeadState, source : Source,
     owner : Owner \cup {Nobody}, queue : Queue \cup {Nobody}, dueIn : Nat \cup {Never},
     escalateIn : Nat \cup {Never}, responded : BOOLEAN, escalated : BOOLEAN]

ActivityKind == {"task", "note", "call", "email", "sms", "reminder"}
COMMUNICATIONS == {"call", "email", "sms"}
SCHEDULABLE == {"task", "reminder"}
ActivityView ==
    [lead : 1..MaxLead, kind : ActivityKind, direction : {"inbound", "outbound", "none"},
     due : BOOLEAN, state : {"open", "completed", "cancelled"}]

AppointmentState == {"scheduled", "confirmed", "completed", "cancelled", "no_show"}
AppointmentView == [lead : 1..MaxLead, state : AppointmentState, rescheduleCount : Nat]
APPOINTMENT_TRANSITIONS ==
    [s \in AppointmentState |->
        CASE s = "scheduled" -> {"confirmed", "completed", "cancelled", "no_show"}
          [] s = "confirmed" -> {"completed", "cancelled", "no_show"}
          [] OTHER -> {}]

SlaPolicy == [respond : Nat, escalate : Nat]
NoSla == [respond |-> Never, escalate |-> Never]

\* A customer is named by id, or by details where the id is 0.
LeadCaptureInput ==
    [key : IntakeKey, source : Source, partyId : 0..MaxParty, party : PartyDetails,
     interest : Interest]

NoIntake == [outcome |-> "none", lead |-> 0]
Idle == [phase |-> "idle"]

ASSUME LeadAssumption ==
    /\ MaxLead \in Nat
    /\ ActivityInput \subseteq [kind : ActivityKind,
                                direction : {"inbound", "outbound", "none"}, due : BOOLEAN]
    /\ SlaInput \subseteq SlaPolicy
    /\ CaptureInput \subseteq LeadCaptureInput

Lead == 1..Len(leads)
Terminal(l) == leads[l].state \in {"handed_off", "closed"}

--------------------------------------------------------------------------------
(* Sources, queues and the response policy *)

defineLeadSource(s) ==
    /\ sources[s] = "none"
    /\ sources' = [sources EXCEPT ![s] = "active"]
    /\ UNCHANGED <<queues, sla, leads, touches, intakes, capture, activities, logging,
                   appointments, handoffs, attribution>>

retireLeadSource(s) ==
    /\ sources[s] = "active"
    /\ sources' = [sources EXCEPT ![s] = "retired"]
    /\ UNCHANGED <<queues, sla, leads, touches, intakes, capture, activities, logging,
                   appointments, handoffs, attribution>>

createQueue(q) ==
    /\ q \notin queues
    /\ queues' = queues \cup {q}
    /\ UNCHANGED <<sources, sla, leads, touches, intakes, capture, activities, logging,
                   appointments, handoffs, attribution>>

\* The policy in force is superseded; leads already captured keep their clocks.
setSlaPolicy(policy) ==
    /\ policy.respond >= 1
    /\ policy.escalate >= policy.respond
    /\ sla' = policy
    /\ UNCHANGED <<sources, queues, leads, touches, intakes, capture, activities, logging,
                   appointments, handoffs, attribution>>

--------------------------------------------------------------------------------
(* Capture *)

OpenLeads(p, i) ==
    {l \in Lead : leads[l].party = p /\ leads[l].interest = i /\ ~Terminal(l)}

\* lockIntakeDecision: another capture of the interest has decided and not committed.
InterestLocked(p, i) ==
    \E c \in Capturer : capture[c].phase = "decided" /\ capture[c].party = p
                        /\ capture[c].in.interest = i

SetCapture(c, s) == capture' = [capture EXCEPT ![c] = s]

\* The replay check and the source: a key that is recorded gets its recorded answer.
captureReceived(c, in) ==
    /\ capture[c].phase = "idle"
    /\ intakes[in.key].outcome = "none"
    /\ sources[in.source] = "active"
    /\ SetCapture(c, [phase |-> "received", in |-> in])
    /\ UNCHANGED <<partyVars, sources, queues, sla, leads, touches, intakes, activities,
                   logging, appointments, handoffs, attribution>>

\* Mutant of recordIntake: a key that is already there is passed over (DO NOTHING).
recordIntake_Ignore(key, outcome, l) ==
    intakes' = IF intakes[key].outcome = "none"
               THEN [intakes EXCEPT ![key] = [outcome |-> outcome, lead |-> l]] ELSE intakes

\* The insert fails where the key is there, and the transaction with it.
recordIntake(key, outcome, l) ==
    /\ intakes[key].outcome = "none"
    /\ intakes' = [intakes EXCEPT ![key] = [outcome |-> outcome, lead |-> l]]

\* The customer a capture is about: the known one, or the first live record that
\* shares the contact details; 0 where a new record is made, Never where it is refused.
resolveParty(in) ==
    IF in.partyId # 0 THEN (IF Active(in.partyId) THEN in.partyId ELSE Never)
    ELSE IF in.party.email = NoContact /\ in.party.phone = NoContact THEN Never
    ELSE LET matches == identifyingCollisions(parties, in.party, 0) IN
         IF matches = {} THEN 0 ELSE CHOOSE p \in matches : \A q \in matches : p <= q

\* A refused customer is a refused intake, recorded under its key.
captureRefused(c) ==
    /\ capture[c].phase = "received"
    /\ resolveParty(capture[c].in) = Never
    /\ recordIntake(capture[c].in.key, "rejected", 0)
    /\ SetCapture(c, Idle)
    /\ UNCHANGED <<partyVars, sources, queues, sla, leads, touches, activities, logging,
                   appointments, handoffs, attribution>>

\* The interest is locked, and only then is the open-lead question asked.
captureDecided(c) ==
    LET in == capture[c].in
        p  == resolveParty(in) IN
    /\ capture[c].phase = "received"
    /\ p \in Party
    /\ ~InterestLocked(p, in.interest)
    /\ SetCapture(c, [phase |-> "decided", in |-> in, party |-> p,
                      lead |-> IF OpenLeads(p, in.interest) = {} THEN 0
                               ELSE CHOOSE l \in OpenLeads(p, in.interest) : TRUE])
    /\ UNCHANGED <<partyVars, sources, queues, sla, leads, touches, intakes, activities,
                   logging, appointments, handoffs, attribution>>

NewLead(p, in) ==
    [party |-> p, interest |-> in.interest, state |-> "new", source |-> in.source,
     owner |-> Nobody, queue |-> Nobody, dueIn |-> sla.respond, escalateIn |-> sla.escalate,
     responded |-> FALSE, escalated |-> FALSE]

\* recordSourceTouchWithin: touch_seq follows the touches the lead has.
recordSourceTouch(l, source) == touches' = [touches EXCEPT ![l] = Append(@, source)]

\* A new lead, its first touch and its intake.
CreateLead(p, in) ==
    /\ Len(leads) < MaxLead
    /\ leads' = Append(leads, NewLead(p, in))
    /\ touches' = Append(touches, <<in.source>>)
    /\ recordIntake(in.key, "created", Len(leads) + 1)

\* The capture joins the open lead: the touch and the intake.
MergeIntoLead(l, in) ==
    /\ recordSourceTouch(l, in.source)
    /\ recordIntake(in.key, "merged_into_existing", l)
    /\ UNCHANGED leads

captureWritten(c) ==
    LET t == capture[c] IN
    /\ t.phase = "decided"
    /\ IF t.lead = 0 THEN CreateLead(t.party, t.in) ELSE MergeIntoLead(t.lead, t.in)
    /\ SetCapture(c, Idle)
    /\ UNCHANGED <<partyVars, sources, queues, sla, activities, logging, appointments,
                   handoffs, attribution>>

\* The key was recorded meanwhile: the transaction fails and leaves nothing.
captureFailed(c) ==
    /\ capture[c].phase # "idle"
    /\ intakes[capture[c].in.key].outcome # "none"
    /\ SetCapture(c, Idle)
    /\ UNCHANGED <<partyVars, sources, queues, sla, leads, touches, intakes, activities,
                   logging, appointments, handoffs, attribution>>

\* A customer nobody has met: the record, the lead, the touch and the intake commit
\* together, and no other transaction can have decided about them.
captureNewCustomer(c) ==
    LET in == capture[c].in IN
    /\ capture[c].phase = "received"
    /\ resolveParty(in) = 0
    /\ Len(parties) < MaxParty
    /\ parties' = createPartyWithin(parties, in.party, FALSE)
    /\ CreateLead(Len(parties) + 1, in)
    /\ SetCapture(c, Idle)
    /\ UNCHANGED <<channelConsent, acquiredFrom, sources, queues, sla, activities, logging,
                   appointments, handoffs, attribution>>

--------------------------------------------------------------------------------
(* Working a lead *)

SetLead(l, row) == leads' = [leads EXCEPT ![l] = row]

\* handed_off is reached by handOffLead only; a close states its disposition.
transitionLead(l, toState) ==
    /\ toState \in LEGAL_TRANSITIONS[leads[l].state] \ {"handed_off"}
    /\ SetLead(l, [leads[l] EXCEPT !.state = toState])
    /\ UNCHANGED <<sources, queues, sla, touches, intakes, capture, activities, logging,
                   appointments, handoffs, attribution>>

\* An owner who reaches the rooftop, or a queue of the rooftop.
assignLead(l, owner, queue) ==
    LET lead == leads[l] IN
    /\ ~Terminal(l)
    /\ owner # Nobody \/ queue # Nobody
    /\ <<owner, queue>> # <<lead.owner, lead.queue>>
    /\ queue \in queues \cup {Nobody}
    /\ SetLead(l, [lead EXCEPT !.owner = owner, !.queue = queue,
                   !.state = IF @ = "new" /\ owner # Nobody THEN "working" ELSE @])
    /\ UNCHANGED <<sources, queues, sla, touches, intakes, capture, activities, logging,
                   appointments, handoffs, attribution>>

HandoffSnapshot(l) ==
    [party |-> leads[l].party, interest |-> leads[l].interest, source |-> leads[l].source,
     owner |-> leads[l].owner, responded |-> leads[l].responded]

\* A lead that was handed off answers already_handed_off.
handOffLead(l) ==
    /\ handoffs[l] = <<>>
    /\ "handed_off" \in LEGAL_TRANSITIONS[leads[l].state]
    /\ SetLead(l, [leads[l] EXCEPT !.state = "handed_off"])
    /\ handoffs' = [handoffs EXCEPT ![l] = <<HandoffSnapshot(l)>>]
    /\ UNCHANGED <<sources, queues, sla, touches, intakes, capture, activities, logging,
                   appointments, attribution>>

EscalationDue(l) ==
    /\ ~leads[l].responded /\ ~leads[l].escalated
    /\ leads[l].escalateIn = 0 /\ ~Terminal(l)

\* One pass of the sweep: every lead whose escalation clock has run out unanswered.
runEscalationSweep ==
    /\ Visited
    /\ \E l \in Lead : EscalationDue(l)
    /\ leads' = [l \in Lead |-> [leads[l] EXCEPT !.escalated = @ \/ EscalationDue(l)]]
    /\ UNCHANGED <<sources, queues, sla, touches, intakes, capture, activities, logging,
                   appointments, handoffs, attribution>>

--------------------------------------------------------------------------------
(* Activities and appointments *)

\* A communication has a direction and nothing else has; only a task or a reminder is due.
activityProblem(a) ==
    \/ (a.kind \in COMMUNICATIONS) # (a.direction # "none")
    \/ a.due /\ a.kind \notin SCHEDULABLE

\* The lead's state is read without a lock.
logActivityChecked(g, l, a) ==
    /\ logging[g].phase = "idle"
    /\ ~activityProblem(a)
    /\ ~Terminal(l)
    /\ logging' = [logging EXCEPT ![g] = [phase |-> "checked", lead |-> l, activity |-> a]]
    /\ UNCHANGED <<sources, queues, sla, leads, touches, intakes, capture, activities,
                   appointments, handoffs, attribution>>

\* An outbound communication is the first response where there was none.
stampFirstResponse(l, a) ==
    leads' = IF a.kind \in COMMUNICATIONS /\ a.direction = "outbound"
             THEN [leads EXCEPT ![l].responded = TRUE] ELSE leads

logActivityWritten(g) ==
    LET t == logging[g] IN
    /\ t.phase = "checked"
    /\ Len(activities) < MaxActivity
    /\ activities' = Append(activities,
            [lead |-> t.lead, kind |-> t.activity.kind, direction |-> t.activity.direction,
             due |-> t.activity.due, state |-> "open"])
    /\ stampFirstResponse(t.lead, t.activity)
    /\ logging' = [logging EXCEPT ![g] = Idle]
    /\ UNCHANGED <<sources, queues, sla, touches, intakes, capture, appointments, handoffs,
                   attribution>>

ActivityLocked(n) == \E g \in Logger : logging[g].phase = "closing" /\ logging[g].number = n

\* The activity is locked and checked; the lead's state is read without a lock.
closeActivityChecked(g, n, state) ==
    /\ logging[g].phase = "idle"
    /\ ~ActivityLocked(n)
    /\ ~Terminal(activities[n].lead)
    /\ activities[n].state = "open"
    /\ logging' = [logging EXCEPT ![g] = [phase |-> "closing", number |-> n, state |-> state]]
    /\ UNCHANGED <<sources, queues, sla, leads, touches, intakes, capture, activities,
                   appointments, handoffs, attribution>>

closeActivityWritten(g) ==
    LET t == logging[g] IN
    /\ t.phase = "closing"
    /\ activities' = [activities EXCEPT ![t.number].state = t.state]
    /\ logging' = [logging EXCEPT ![g] = Idle]
    /\ UNCHANGED <<sources, queues, sla, leads, touches, intakes, capture, appointments,
                   handoffs, attribution>>

\* Booking an appointment is working the lead.
AdvanceToAppointment(l) ==
    leads' = IF leads[l].state \in {"new", "working", "qualified"}
             THEN [leads EXCEPT ![l].state = "appointment_set"] ELSE leads

scheduleAppointment(l) ==
    /\ ~Terminal(l)
    /\ Len(appointments) < MaxBooking
    /\ appointments' = Append(appointments,
                              [lead |-> l, state |-> "scheduled", rescheduleCount |-> 0])
    /\ AdvanceToAppointment(l)
    /\ UNCHANGED <<sources, queues, sla, touches, intakes, capture, activities, logging,
                   handoffs, attribution>>

\* Bound: an appointment is moved once.
rescheduleAppointment(n) ==
    /\ APPOINTMENT_TRANSITIONS[appointments[n].state] # {}
    /\ appointments[n].rescheduleCount < 1
    /\ appointments' = [appointments EXCEPT ![n].rescheduleCount = @ + 1]
    /\ UNCHANGED <<sources, queues, sla, leads, touches, intakes, capture, activities,
                   logging, handoffs, attribution>>

\* The lead keeps its state whatever becomes of the appointment.
setAppointmentState(n, state) ==
    /\ state \in APPOINTMENT_TRANSITIONS[appointments[n].state]
    /\ appointments' = [appointments EXCEPT ![n].state = state]
    /\ UNCHANGED <<sources, queues, sla, leads, touches, intakes, capture, activities,
                   logging, handoffs, attribution>>

--------------------------------------------------------------------------------
(* Attribution *)

AttributionModel == {"first_touch", "last_touch", "linear"}

\* Basis points for each of n touches.
attributionWeights(model, n) ==
    [i \in 1..n |->
        CASE model = "first_touch" -> IF i = 1 THEN 10000 ELSE 0
          [] model = "last_touch"  -> IF i = n THEN 10000 ELSE 0
          [] model = "linear"      ->
                (10000 \div n) + (IF i <= 10000 - n * (10000 \div n) THEN 1 ELSE 0)]

\* The run replaces the computed one of its model; every lead of the window is credited.
computeAttribution(model) ==
    /\ attribution' = [attribution EXCEPT ![model] =
            [l \in Lead |-> attributionWeights(model, Len(touches[l]))]]
    /\ UNCHANGED <<sources, queues, sla, leads, touches, intakes, capture, activities,
                   logging, appointments, handoffs>>

--------------------------------------------------------------------------------

\* A tick of the clock, for the leads.
Elapsed(ticks) == IF ticks > 0 THEN ticks - 1 ELSE ticks
LeadsTick ==
    [l \in Lead |-> [leads[l] EXCEPT !.dueIn = Elapsed(@), !.escalateIn = Elapsed(@)]]

LeadsInit ==
    /\ sources = [s \in Source |-> "none"]
    /\ queues = {} /\ sla = NoSla /\ leads = <<>> /\ touches = <<>>
    /\ intakes = [k \in IntakeKey |-> NoIntake]
    /\ capture = [c \in Capturer |-> Idle]
    /\ activities = <<>> /\ logging = [g \in Logger |-> Idle]
    /\ appointments = <<>>
    /\ handoffs = [l \in 1..MaxLead |-> <<>>]
    /\ attribution = [m \in AttributionModel |-> <<>>]

CaptureNext ==
    \E c \in Capturer :
        \/ \E in \in CaptureInput : captureReceived(c, in)
        \/ captureRefused(c) \/ captureDecided(c) \/ captureWritten(c)
        \/ captureFailed(c) \/ captureNewCustomer(c)

WorkNext ==
    \/ \E s \in Source : defineLeadSource(s) \/ retireLeadSource(s)
    \/ \E q \in Queue : createQueue(q)
    \/ \E policy \in SlaInput : setSlaPolicy(policy)
    \/ \E l \in Lead :
        \/ \E s \in LeadState : transitionLead(l, s)
        \/ \E o \in Owner \cup {Nobody}, q \in Queue \cup {Nobody} : assignLead(l, o, q)
        \/ handOffLead(l)
        \/ \E g \in Logger, a \in ActivityInput : logActivityChecked(g, l, a)
        \/ scheduleAppointment(l)
    \/ runEscalationSweep
    \/ \E g \in Logger :
        \/ logActivityWritten(g) \/ closeActivityWritten(g)
        \/ \E n \in 1..Len(activities), s \in {"completed", "cancelled"} :
            closeActivityChecked(g, n, s)
    \/ \E n \in 1..Len(appointments) :
        rescheduleAppointment(n) \/ \E s \in AppointmentState : setAppointmentState(n, s)
    \/ \E m \in AttributionModel : computeAttribution(m)

--------------------------------------------------------------------------------
(* Properties *)

LeadsTypeOK ==
    /\ sources \in [Source -> {"none", "active", "retired"}] /\ queues \subseteq Queue
    /\ leads \in Seq(LeadView) /\ Len(touches) = Len(leads)
    /\ \A l \in Lead : touches[l] \in Seq(Source)
    /\ activities \in Seq(ActivityView) /\ appointments \in Seq(AppointmentView)

\* However captures, closes and merges interleave, a customer's interest in one thing is
\* one open lead (captureLeadWithin: the advisory lock and the open-lead question).
OneOpenLead ==
    \A k, l \in Lead :
        leads[k].party = leads[l].party /\ leads[k].interest = leads[l].interest
        /\ ~Terminal(k) /\ ~Terminal(l) => k = l

\* A redelivered capture leaves nothing: each lead has as many touches as intakes were
\* recorded against it, so no enquiry is credited twice and none is lost
\* (captureLeadWithin: the replay check runs before the lock, the unique key after it).
TouchPerIntake ==
    \A l \in Lead :
        Len(touches[l]) = Cardinality({k \in DOMAIN intakes : intakes[k].lead = l})

\* A computed run hands out exactly the whole of every lead it considered.
CreditIsWhole ==
    \A m \in AttributionModel : \A l \in DOMAIN attribution[m] :
        Total(attribution[m][l]) = 10000

\* The snapshot sales received is the lead as it stands: nothing the CRM does after the
\* handoff moves what was handed over (activities.ts:116-119).
\* Refuted: see the README, section 5.
HandoffSnapshotStands ==
    \A l \in Lead : handoffs[l] # <<>> => handoffs[l][1].responded = leads[l].responded

\* A lead whose escalation clock runs out is answered, escalated or finished.
LateLeadsAreEscalated ==
    \A l \in 1..MaxLead :
        (l \in Lead /\ leads[l].escalateIn = 0) ~>
            (l \in Lead /\ (leads[l].responded \/ leads[l].escalated \/ Terminal(l)))

================================================================================
