------------------------------ MODULE MCCampaigns ------------------------------
(* Bounded instance of the CRM for TLC.  The environment plays one scene at a     *)
(* time: customers are entered, edited and merged; captures of one interest race  *)
(* with a close; one lead is worked and handed to sales; a campaign is run while  *)
(* a customer's address and permission change, through nights when the clock is   *)
(* changed, and while tenants come and go.                                        *)
EXTENDS Campaigns

VARIABLE scene

Details(email, phone) == [email |-> email, phone |-> phone]

MCPartyInput ==
    {Details("a@x", "none"), Details("b@x", "none"), Details("a@x", "555"),
     Details("none", "555")}

MCActivityInput ==
    [kind : {"call", "task", "note"}, direction : {"outbound", "none"}, due : {FALSE}]
    \cup [kind : {"task"}, direction : {"none"}, due : {TRUE}]
MCSlaInput == {[respond |-> 1, escalate |-> 1], [respond |-> 2, escalate |-> 1]}
MCResponseKeys == {"reply", "click", "opt_out", "bounce"} \X {1} \X (1..3)
MCIntakeKey == {<<"form", "k1">>, <<"form", "k2">>, <<"form", "k3">>} \cup MCResponseKeys

Capture(key, id, details) ==
    [key |-> <<"form", key>>, source |-> "web", partyId |-> id, party |-> details,
     interest |-> "general"]
MCCaptureInput ==
    {Capture(k, 0, Details("a@x", "none")) : k \in {"k1", "k2", "k3"}}
    \cup {Capture("k1", 0, Details("b@x", "none")), Capture("k2", 1, Details("none", "none")),
          Capture("k1", 0, Details("none", "none"))}

AnAppointment == [lead |-> 1, state |-> "scheduled", rescheduleCount |-> 0]

MCQuietHours == [start |-> 4, end |-> 2]

Sending == {"campaign", "night", "tenants"}

\* A rooftop with its customers entered, its lead source defined and, for the campaign,
\* permission given.
MCInit ==
    /\ scene \in {"customers", "consents", "captures", "work", "clock"} \cup Sending
    /\ parties = CASE scene \in Sending ->
                        <<NewParty(<<>>, Details("a@x", "none")), NewParty(<<>>, Details("c@x", "none"))>>
                   [] scene \in {"captures", "work", "clock"} -> <<NewParty(<<>>, Details("a@x", "none"))>>
                   [] OTHER -> <<>>
    /\ channelConsent = [p \in PartyId |-> "none"]
    /\ acquiredFrom = [s \in Stock |-> 0]
    /\ sources = [s \in Source |-> IF scene \in {"customers", "consents"} THEN "none" ELSE "active"]
    /\ queues = {} /\ sla = NoSla /\ leads = <<>> /\ touches = <<>>
    /\ intakes = [k \in IntakeKey |-> NoIntake]
    /\ capture = [c \in Capturer |-> Idle]
    /\ activities = <<>> /\ logging = [g \in Logger |-> Idle]
    /\ appointments = <<>>
    /\ handoffs = [l \in 1..MaxLead |-> <<>>]
    /\ attribution = [m \in AttributionModel |-> <<>>]
    /\ minute = 0 /\ steady = 0
    /\ standing = [active |-> TRUE, ahead |-> 0, failing |-> FALSE]
    /\ consent = [p \in PartyId |-> IF scene \in Sending /\ p < 3 THEN "granted" ELSE "unknown"]
    /\ suppressed = {} /\ campaign = "none" /\ versions = <<>>
    /\ sends = [v \in 1..MaxVersion |-> [p \in PartyId |-> NoSend]]
    /\ dispatch = [d \in Dispatcher |-> Idle]
    /\ outbox = [pending |-> {}, ledger |-> {}]
    /\ responses = {}
    /\ provider = [v \in 1..MaxVersion |-> [p \in PartyId |-> [count |-> 0, contact |-> NoContact]]]
    /\ crashes = 0

Scene ==
    /\ scene' = scene
    /\ scene # "night" => steady' = 0
    /\ scene # "tenants" => UNCHANGED standing
    /\ scene = "customers" =>
        UNCHANGED <<channelConsent, acquiredFrom, leadVars, campaignVars>>
    /\ scene = "consents" =>
        /\ (sources' # sources \/ UNCHANGED leadVars) /\ (suppressed' # suppressed \/ UNCHANGED campaignVars)
        /\ Len(parties') <= 2 /\ \A p \in DOMAIN parties' : ~parties'[p].override
        /\ channelConsent'[1] # "unknown" /\ channelConsent'[2] # "granted"
    /\ scene = "captures" =>
        /\ UNCHANGED <<channelConsent, acquiredFrom, queues, sla, activities, logging>>
        /\ UNCHANGED campaignVars
        /\ attribution' # attribution => Len(touches[1]) = 3
        /\ \A p \in DOMAIN parties : [parties'[p] EXCEPT !.status = "active"]
                                        = [parties[p] EXCEPT !.mergedInto = parties'[p].mergedInto,
                                                             !.status = "active"]
        /\ parties'[1].status = "active"
        /\ Len(parties') > Len(parties) => capture' # capture
        /\ \A l \in DOMAIN leads' :
            leads'[l].state \in {"new", "appointment_set", "closed"} /\ leads'[l].owner = Nobody
        /\ \A n \in DOMAIN appointments' : appointments'[n] = [AnAppointment EXCEPT !.lead = appointments'[n].lead]
    /\ scene \in {"work", "clock"} =>
        /\ UNCHANGED <<partyVars, sources, consent, suppressed, campaign>>
        /\ \A c \in Capturer : capture'[c].phase # "idle" =>
            capture'[c].in = Capture("k3", 0, Details("a@x", "none"))
        /\ capture'["c2"] = Idle /\ Len(leads') <= 1
    /\ scene = "work" => UNCHANGED <<minute, sla, attribution>>
    /\ scene = "clock" =>
        /\ UNCHANGED <<queues, appointments, attribution>>
        /\ \A l \in DOMAIN leads' : leads'[l].owner = Nobody
        /\ \A n \in DOMAIN activities' : activities'[n].kind = "call"
    /\ scene \in {"night", "tenants"} => UNCHANGED <<parties, consent, suppressed, responses, crashes>>
    /\ scene \in Sending =>
        /\ UNCHANGED <<channelConsent, sources, queues, sla, capture, activities, logging,
                       acquiredFrom, appointments, handoffs, attribution>>
        /\ \A p \in DOMAIN parties' :
            parties'[p].phone = "none" /\ ~parties'[p].override
        /\ Len(parties') = 2 /\ parties'[2] = parties[2]
        /\ \A v \in DOMAIN versions' : versions'[v].state = "draft" =>
            UNCHANGED <<parties, consent, suppressed, minute>>
        /\ outbox.pending # {} => outbox' # outbox
        /\ responses' \in {{}, {<<"reply", 1, 1>>}, {<<"opt_out", 1, 1>>}}
        /\ \A v \in DOMAIN versions' : versions'[v].audience \in {{}, {1}}
        /\ responses = responses' => UNCHANGED suppressed
        /\ consent' # consent => parties[1].email = "a@x" /\ responses = {}
        /\ parties' # parties => consent[1] = "granted" /\ Len(leads) = 0
        /\ responses' # responses => consent[1] = "granted"
        /\ consent'[2] = "granted" /\ consent'[1] # "unknown"
        /\ \A l \in DOMAIN leads' : leads'[l].state = "new" /\ leads'[l].owner = Nobody
        /\ versions' # <<>> /\ versions = <<>> => UNCHANGED <<parties, consent, suppressed, minute>>

MCSpec ==
    /\ MCInit
    /\ [][CrmNext /\ Scene]_<<crmVars, standing, scene>>
    /\ CrmFairness

================================================================================
