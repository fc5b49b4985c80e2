------------------------------- MODULE Campaigns -------------------------------
(***************************************************************************)
(* Email campaigns of one rooftop: purpose consent and suppressed          *)
(* addresses, versions that are drafted, given an audience, approved and   *)
(* executed, the dispatcher that hands each message to the provider, and   *)
(* the responses that become leads or silence.                             *)
(*                                                                         *)
(* Source: packages/crm/src/{consent,consent-records,campaigns,sends,      *)
(* providers,worker}.ts.                                                   *)
(*                                                                         *)
(* A dispatch is two steps: the claim with the second permission check,    *)
(* and the provider's answer with its record.  The provider is called      *)
(* inside the transaction, so a dispatcher that dies after the call leaves *)
(* a message that went out and a row that says it did not.  The row of a   *)
(* claimed send is locked.  Times are ticks left.  The minute is read off   *)
(* the wall clock of the campaign's zone, which moves by ClockChange when   *)
(* daylight saving begins or ends, while a deferral counts elapsed time.    *)
(***************************************************************************)
EXTENDS Leads

CONSTANTS
    Dispatcher,    \* concurrent workers
    MaxVersion,    \* bound: campaign versions
    MaxCrash,      \* bound: dispatchers that die after the provider answered
    MAX_ATTEMPTS,  \* 4 in the code
    Backoff,       \* RETRY_BACKOFF_SECONDS, in ticks
    Day,           \* 1440 in the code
    ClockChange,   \* the hour of daylight saving, 60 in the code
    QuietHours,    \* startMinute, endMinute of the campaign
    Purpose,       \* of the campaign: CampaignPurpose
    CampaignSource \* its lead source

VARIABLES
    minute,     \* localMinuteOfDay: the wall clock of the campaign's zone
    steady,     \* ticks before that clock may be changed again
    consent,    \* party_purpose_consents of the campaign's channel and purpose
    suppressed, \* contact_suppressions that are active
    campaign,   \* campaigns.status, "none" before it is created
    versions,   \* campaign_versions with their template and audience
    sends,      \* sends[v]: campaign_sends of version v, by party
    dispatch,   \* the dispatch transactions in flight
    outbox,     \* undelivered marketing events, and the ledger of the delivered
    responses,  \* campaign_responses
    provider,   \* what the provider was handed: count and last address, by send
    crashes     \* dispatchers that died

campaignVars == <<minute, steady, consent, suppressed, campaign, versions, sends, dispatch, outbox,
                  responses, provider, crashes>>
crmVars == <<partyVars, leadVars, campaignVars>>

--------------------------------------------------------------------------------
(* Rows *)

CampaignPurpose == {"sales_marketing", "service_reminder", "research"}
CampaignVersionState == {"draft", "approved", "executing", "completed", "cancelled"}
CampaignVersionView ==
    [state : CampaignVersionState, includesOptOut : BOOLEAN, audience : SUBSET PartyId]
SendState == {"none", "pending", "sent", "failed", "suppressed", "deferred_quiet_hours"}
SendView ==
    [state : SendState, contact : Email \cup {NoContact}, attempts : 0..MAX_ATTEMPTS,
     availableIn : Nat]
ResponseType == {"reply", "click", "opt_out", "bounce"}
AudienceRule == {"all_active_customers", "open_leads", "prior_buyers", "manual_selection"}

ASSUME CampaignAssumption ==
    /\ Purpose \in CampaignPurpose /\ CampaignSource \in Source
    /\ MAX_ATTEMPTS \in Nat \ {0} /\ Backoff \in Nat
    /\ MaxVersion \in Nat /\ MaxCrash \in Nat /\ Day \in Nat \ {0}
    /\ ClockChange \in 1..(Day - 1)
    /\ QuietHours \in [start : 0..(Day - 1), end : 0..(Day - 1)]
    /\ "general" \in Interest
    /\ ResponseType \X (1..MaxVersion) \X PartyId \subseteq IntakeKey

Version == 1..Len(versions)
NoSend == [state |-> "none", contact |-> NoContact, attempts |-> 0, availableIn |-> 0]
Waiting(v, p) == sends[v][p].state \in {"pending", "deferred_quiet_hours"}

--------------------------------------------------------------------------------
(* Permission and quiet hours *)

setPurposeConsent(p, state) ==
    /\ Active(p)
    /\ consent' = [consent EXCEPT ![p] = state]
    /\ UNCHANGED <<partyVars, leadVars, minute, steady, suppressed, campaign, versions, sends,
                   dispatch, outbox, responses, provider, crashes>>

\* Nothing lifts a suppression.
suppressContact(a) ==
    /\ a \notin suppressed
    /\ suppressed' = suppressed \cup {a}
    /\ UNCHANGED <<partyVars, leadVars, minute, steady, consent, campaign, versions, sends,
                   dispatch, outbox, responses, provider, crashes>>

\* The address a message to p may go to, asked of the rows as they are now.
sendEligibility(p) ==
    /\ Active(p)
    /\ parties[p].email # NoContact
    /\ consent[p] = "granted"
    /\ parties[p].email \notin suppressed

insideQuietHours(at) ==
    IF QuietHours.start <= QuietHours.end
    THEN at >= QuietHours.start /\ at < QuietHours.end
    ELSE at >= QuietHours.start \/ at < QuietHours.end

\* Mutant of quietHoursEndAfter: hours that run over midnight end at midnight.
quietHoursEndAfter_Midnight(at) == IF QuietHours.end > at THEN QuietHours.end - at ELSE Day - at

\* Ticks until the quiet hours are over.
quietHoursEndAfter(at) ==
    IF QuietHours.end > at THEN QuietHours.end - at ELSE Day - at + QuietHours.end

--------------------------------------------------------------------------------
(* Campaigns and versions *)

createCampaign ==
    /\ campaign = "none"
    /\ sources[CampaignSource] = "active"
    /\ campaign' = "draft"
    /\ UNCHANGED <<partyVars, leadVars, minute, steady, consent, suppressed, versions, sends,
                   dispatch, outbox, responses, provider, crashes>>

draftCampaignVersion(optOut) ==
    /\ campaign # "none"
    /\ Len(versions) < MaxVersion
    /\ versions' = Append(versions,
            [state |-> "draft", includesOptOut |-> optOut, audience |-> {}])
    /\ UNCHANGED <<partyVars, leadVars, minute, steady, consent, suppressed, campaign, sends,
                   dispatch, outbox, responses, provider, crashes>>

resolveAudienceCandidates(rule, chosen) ==
    CASE rule = "manual_selection" -> {p \in chosen : Active(p)}
      [] rule = "open_leads"       -> {leads[l].party : l \in {k \in Lead : ~Terminal(k)}}
      [] rule = "prior_buyers"     -> {acquiredFrom[s] : s \in Stock} \ {0}
      [] rule = "all_active_customers" -> {p \in Party : Active(p)}

\* The audience is replaced by the candidates who may be written to today.
buildAudience(v, rule, chosen) ==
    /\ versions[v].state = "draft"
    /\ versions' = [versions EXCEPT ![v].audience =
            {p \in resolveAudienceCandidates(rule, chosen) : sendEligibility(p)}]
    /\ UNCHANGED <<partyVars, leadVars, minute, steady, consent, suppressed, campaign, sends,
                   dispatch, outbox, responses, provider, crashes>>

approveCampaignVersion(v) ==
    /\ versions[v].state = "draft"
    /\ Purpose # "service_reminder" => versions[v].includesOptOut
    /\ versions[v].audience # {}
    /\ versions' = [versions EXCEPT ![v].state = "approved"]
    /\ UNCHANGED <<partyVars, leadVars, minute, steady, consent, suppressed, campaign, sends,
                   dispatch, outbox, responses, provider, crashes>>

\* The row prepared for each member: withheld where permission has gone since.
PreparedSends(v) ==
    [p \in PartyId |->
        IF p \notin versions[v].audience THEN NoSend
        ELSE IF sendEligibility(p)
             THEN [NoSend EXCEPT !.state = "pending", !.contact = parties[p].email]
             ELSE [NoSend EXCEPT !.state = "suppressed"]]

executeCampaignVersion(v) ==
    /\ versions[v].state = "approved"
    /\ sends' = [sends EXCEPT ![v] = PreparedSends(v)]
    /\ versions' = [versions EXCEPT ![v].state = "executing"]
    /\ campaign' = IF campaign = "draft" THEN "active" ELSE campaign
    /\ outbox' = [outbox EXCEPT !.pending = @ \cup {v}]
    /\ UNCHANGED <<partyVars, leadVars, minute, steady, consent, suppressed, dispatch, responses,
                   provider, crashes>>

\* The event is entered in the ledger and marked delivered; the sends move by themselves.
drainMarketingOutbox ==
    /\ Visited
    /\ outbox.pending # {}
    /\ outbox' = [pending |-> {}, ledger |-> outbox.ledger \cup outbox.pending]
    /\ UNCHANGED <<partyVars, leadVars, minute, steady, consent, suppressed, campaign, versions,
                   sends, dispatch, responses, provider, crashes>>

--------------------------------------------------------------------------------
(* Dispatch *)

SendClaimed(v, p) == \E d \in Dispatcher : dispatch[d] # Idle /\ dispatch[d].send = <<v, p>>
SendDue(v, p) ==
    /\ versions[v].state = "executing"
    /\ Waiting(v, p) /\ sends[v][p].availableIn = 0
    /\ ~SendClaimed(v, p)

SetSend(v, p, row) == sends' = [sends EXCEPT ![v][p] = row]

\* Permission is asked again, then the hour; both answers are written at once.
ClaimWithheld(v, p) ==
    /\ SendDue(v, p)
    /\ ~sendEligibility(p)
    /\ SetSend(v, p, [sends[v][p] EXCEPT !.state = "suppressed"])
    /\ UNCHANGED dispatch

ClaimDeferred(v, p) ==
    /\ SendDue(v, p)
    /\ sendEligibility(p)
    /\ insideQuietHours(minute)
    /\ SetSend(v, p, [sends[v][p] EXCEPT !.state = "deferred_quiet_hours",
                                         !.availableIn = quietHoursEndAfter(minute)])
    /\ UNCHANGED dispatch

ClaimSending(d, v, p) ==
    /\ SendDue(v, p)
    /\ sendEligibility(p)
    /\ ~insideQuietHours(minute)
    /\ dispatch' = [dispatch EXCEPT ![d] =
            [phase |-> "sending", send |-> <<v, p>>, contact |-> parties[p].email]]
    /\ UNCHANGED sends

dispatchClaim(d) ==
    /\ Visited
    /\ dispatch[d] = Idle
    /\ \E v \in Version, p \in PartyId :
        ClaimWithheld(v, p) \/ ClaimDeferred(v, p) \/ ClaimSending(d, v, p)
    /\ UNCHANGED <<partyVars, leadVars, minute, steady, consent, suppressed, campaign, versions,
                   outbox, responses, provider, crashes>>

\* The provider receives the message.
Handed(v, p, a) ==
    provider' = [provider EXCEPT ![v][p] = [count |-> @.count + 1, contact |-> a]]

\* A failure is retried after a pause, unless it is permanent or was the last attempt.
Retried(row, permanent) ==
    LET attempt == row.attempts + 1
        giveUp  == permanent \/ attempt >= MAX_ATTEMPTS IN
    [row EXCEPT !.attempts = attempt,
                !.state = IF giveUp THEN "failed" ELSE "pending",
                !.availableIn = IF giveUp THEN @ ELSE Backoff]

ProviderOutcome == {"sent", "failed", "permanent"}

\* What the dispatcher records of the answer.
AnsweredSend(row, answer) ==
    IF answer = "sent" THEN [row EXCEPT !.attempts = @ + 1, !.state = "sent"]
    ELSE Retried(row, answer = "permanent")

dispatchAnswered(d, answer) ==
    LET v == dispatch[d].send[1]
        p == dispatch[d].send[2] IN
    /\ dispatch[d] # Idle
    /\ Handed(v, p, dispatch[d].contact)
    /\ SetSend(v, p, AnsweredSend(sends[v][p], answer))
    /\ dispatch' = [dispatch EXCEPT ![d] = Idle]
    /\ UNCHANGED <<partyVars, leadVars, minute, steady, consent, suppressed, campaign, versions,
                   outbox, responses, crashes>>

\* The worker dies after the provider took the message: the transaction is rolled back.
dispatchCrashed(d) ==
    /\ dispatch[d] # Idle
    /\ crashes < MaxCrash
    /\ Handed(dispatch[d].send[1], dispatch[d].send[2], dispatch[d].contact)
    /\ crashes' = crashes + 1
    /\ dispatch' = [dispatch EXCEPT ![d] = Idle]
    /\ UNCHANGED <<partyVars, leadVars, minute, steady, consent, suppressed, campaign, versions,
                   sends, outbox, responses>>

\* Mutant of Finished: a version is finished when every message was sent.
Finished_AllSent(v) ==
    versions[v].state = "executing" /\ \A p \in PartyId : sends[v][p].state \in {"none", "sent"}

Finished(v) == versions[v].state = "executing" /\ \A p \in PartyId : ~Waiting(v, p)

\* The last step of a dispatch pass.
completeFinishedVersions ==
    /\ Visited
    /\ \E v \in Version : Finished(v)
    /\ versions' = [v \in Version |->
            IF Finished(v) THEN [versions[v] EXCEPT !.state = "completed"] ELSE versions[v]]
    /\ UNCHANGED <<partyVars, leadVars, minute, steady, consent, suppressed, campaign, sends,
                   dispatch, outbox, responses, provider, crashes>>

\* The provider is the authority; a send that is still waiting is settled too.
reconcileSend(v, p, providerState) ==
    /\ sends[v][p].state \notin {"none", providerState}
    /\ ~SendClaimed(v, p)
    /\ SetSend(v, p, [sends[v][p] EXCEPT !.state = providerState])
    /\ UNCHANGED <<partyVars, leadVars, minute, steady, consent, suppressed, campaign, versions,
                   dispatch, outbox, responses, provider, crashes>>

--------------------------------------------------------------------------------
(* Responses *)

\* The capture a reply or a click makes, in the response's own transaction.
ResponseCapture(v, p, type) ==
    LET in   == [key |-> <<type, v, p>>, source |-> CampaignSource, partyId |-> p,
                 party |-> [email |-> NoContact, phone |-> NoContact],
                 interest |-> "general"]
        open == OpenLeads(p, "general") IN
    /\ sources[CampaignSource] = "active" /\ Active(p)
    /\ ~InterestLocked(p, "general")
    /\ IF open = {} THEN CreateLead(p, in) ELSE MergeIntoLead(CHOOSE l \in open : TRUE, in)

\* A customer who is no longer there: the refused intake is recorded and the response is
\* not.
ResponseRefused(v, p, type) ==
    /\ sources[CampaignSource] = "active" /\ ~Active(p)
    /\ recordIntake(<<type, v, p>>, "rejected", 0)
    /\ UNCHANGED <<leads, touches, suppressed, responses>>

ResponseRecorded(v, p, type) == responses' = responses \cup {<<type, v, p>>}

\* The address the response is about is the one the send was prepared for.
ResponseSilence(v, p) ==
    /\ sends[v][p].contact # NoContact
    /\ suppressed' = suppressed \cup {sends[v][p].contact}

\* One response of each kind per send, under the send's lock.
recordCampaignResponse(v, p, type) ==
    /\ sends[v][p].state # "none"
    /\ ~SendClaimed(v, p)
    /\ <<type, v, p>> \notin responses
    /\ \/ /\ type \in {"reply", "click"}
          /\ ResponseCapture(v, p, type) /\ ResponseRecorded(v, p, type)
          /\ UNCHANGED suppressed
       \/ type \in {"reply", "click"} /\ ResponseRefused(v, p, type)
       \/ /\ type \in {"opt_out", "bounce"}
          /\ ResponseSilence(v, p) /\ ResponseRecorded(v, p, type)
          /\ UNCHANGED <<leads, touches, intakes>>
    /\ UNCHANGED <<partyVars, sources, queues, sla, capture, activities, logging,
                   appointments, handoffs, attribution, minute, steady, consent, campaign, versions,
                   sends, dispatch, outbox, provider, crashes>>

--------------------------------------------------------------------------------

SendsTick ==
    [v \in 1..MaxVersion |-> [p \in PartyId |->
        [sends[v][p] EXCEPT !.availableIn = Elapsed(@)]]]

\* localMinuteOfDay after one more minute: the zone's clock moves on, an hour too far when
\* daylight saving begins and an hour back when it ends.
WallClock ==
    \/ minute' = (minute + 1) % Day /\ steady' = Elapsed(steady)
    \/ /\ steady = 0
       /\ \E shift \in {ClockChange, Day - ClockChange} : minute' = (minute + 1 + shift) % Day
       /\ steady' = Day

Tick ==
    /\ WallClock
    /\ leads' = LeadsTick
    /\ sends' = SendsTick
    /\ UNCHANGED <<partyVars, sources, queues, sla, touches, intakes, capture, activities,
                   logging, appointments, handoffs, attribution, consent, suppressed,
                   campaign, versions, dispatch, outbox, responses, provider, crashes>>

CampaignsInit ==
    /\ minute = 0 /\ steady = 0
    /\ consent = [p \in PartyId |-> "unknown"]
    /\ suppressed = {} /\ campaign = "none" /\ versions = <<>>
    /\ sends = [v \in 1..MaxVersion |-> [p \in PartyId |-> NoSend]]
    /\ dispatch = [d \in Dispatcher |-> Idle]
    /\ outbox = [pending |-> {}, ledger |-> {}]
    /\ responses = {}
    /\ provider = [v \in 1..MaxVersion |-> [p \in PartyId |->
                        [count |-> 0, contact |-> NoContact]]]
    /\ crashes = 0

CampaignsNext ==
    \/ \E p \in Party, s \in ConsentState : setPurposeConsent(p, s)
    \/ \E a \in Email : suppressContact(a)
    \/ createCampaign
    \/ \E optOut \in BOOLEAN : draftCampaignVersion(optOut)
    \/ \E v \in Version :
        \/ \E r \in AudienceRule, chosen \in SUBSET Party : buildAudience(v, r, chosen)
        \/ approveCampaignVersion(v) \/ executeCampaignVersion(v)
        \/ \E p \in Party :
            \/ \E s \in {"sent", "failed"} : reconcileSend(v, p, s)
            \/ \E t \in ResponseType : recordCampaignResponse(v, p, t)
    \/ drainMarketingOutbox
    \/ \E d \in Dispatcher :
        \/ dispatchClaim(d) \/ dispatchCrashed(d)
        \/ \E answer \in ProviderOutcome : dispatchAnswered(d, answer)
    \/ completeFinishedVersions

CrmInit == PartiesInit /\ LeadsInit /\ CampaignsInit

CrmStep ==
    \/ PartiesNext /\ UNCHANGED <<leadVars, campaignVars>>
    \/ CaptureNext /\ UNCHANGED campaignVars
    \/ WorkNext /\ UNCHANGED <<partyVars, campaignVars>>
    \/ CampaignsNext
    \/ Tick

CrmNext ==
    \/ CrmStep /\ UNCHANGED standing
    \/ TenantsMove /\ UNCHANGED crmVars

CrmSpec == CrmInit /\ TenantsInit /\ [][CrmNext]_<<crmVars, standing>>

\* The worker runs its passes at every interval of the scheduler; the guards say whether a
\* pass gets to this tenant.  The interval is short against the hours between two quiet
\* times, so a pass comes round while messages may go out.
CrmFairness ==
    /\ WF_crmVars(Tick)
    /\ WF_crmVars(runEscalationSweep /\ UNCHANGED <<partyVars, campaignVars>>)
    /\ WF_crmVars(completeFinishedVersions) /\ WF_crmVars(drainMarketingOutbox)
    /\ \A d \in Dispatcher :
        SF_crmVars(dispatchClaim(d) /\ ~insideQuietHours(minute))
        /\ WF_crmVars(\E answer \in ProviderOutcome : dispatchAnswered(d, answer))

--------------------------------------------------------------------------------
(* Properties *)

\* The values every row of the CRM may take.
CrmTypeOK ==
    /\ PartiesTypeOK /\ LeadsTypeOK
    /\ minute \in 0..(Day - 1) /\ steady \in 0..Day /\ standing \in Standing
    /\ suppressed \subseteq Email
    /\ consent \in [PartyId -> ConsentState]
    /\ versions \in Seq(CampaignVersionView)
    /\ sends \in [1..MaxVersion -> [PartyId -> SendView]]

\* A customer is sent a message no more often than the attempts its row admits to, plus
\* one for each dispatcher that died between the provider's answer and the commit; and a
\* message is given up after MAX_ATTEMPTS (dispatchDueSends: the provider is called inside
\* the transaction that counts the attempt).
RetriesAreBounded ==
    \A v \in Version, p \in PartyId :
        /\ provider[v][p].count <= sends[v][p].attempts + crashes
        /\ Waiting(v, p) => sends[v][p].attempts < MAX_ATTEMPTS

\* A message that waits for the morning wakes at the very minute the quiet hours end,
\* however long ago it was deferred; only where the zone's clock was changed while it
\* waited does it wake the hour of the change too early or too late, and that error does
\* not add up over deferrals (insideQuietHours reads the wall clock, quietHoursEndAfter
\* counts elapsed minutes).
DeferredToTheMorning ==
    \A v \in Version, p \in PartyId :
        LET wake == minute + sends[v][p].availableIn IN
        sends[v][p].state = "deferred_quiet_hours" /\ sends[v][p].availableIn > 0 =>
            \/ wake % Day = QuietHours.end
            \/ /\ sends[v][p].availableIn <= steady
               /\ wake % Day \in {(QuietHours.end + ClockChange) % Day,
                                  (QuietHours.end + Day - ClockChange) % Day}

\* Customers and their leads stay countable through captures, redeliveries, merges and
\* closes: shared contacts are declared, one open lead per interest, one touch per intake,
\* and a whole lead's worth of credit (parties.ts, leads.ts, attribution).
CustomersAndLeadsAgree ==
    /\ CrmTypeOK /\ SharedContactsAreDeclared /\ OneOpenLead
    /\ TouchPerIntake /\ CreditIsWhole

\* Nobody is written to more often than the retries allow, nor put off past the morning by
\* more than the hour of a clock change, whatever the dispatcher's crashes and the clock
\* do (dispatchDueSends).
SendsAreMeasured == RetriesAreBounded /\ DeferredToTheMorning

\* An executing version is completed: every message is sent, given up, withheld or
\* settled, across retries, quiet hours, crashes and opt-outs.
CampaignsEnd ==
    \A v \in 1..MaxVersion :
        (v \in Version /\ versions[v].state = "executing") ~>
            (v \in Version /\ versions[v].state = "completed")

WorkGetsDone == CampaignsEnd /\ LateLeadsAreEscalated

\* The worker's two CRM jobs get their work done, under crashes, retries, quiet hours and
\* clock changes, for a tenant its passes get to: campaigns end and late leads are
\* escalated (runCampaignDispatchPass, runSlaSweepPass).
CrmFinishes == <>[]Visited => WorkGetsDone

\* "This visits every active tenant on every pass" (crm/worker.ts:15-16): the work of every
\* active tenant gets done.
\* Refuted: see the README, section 5.
WorkOfActiveTenantsGetsDone == <>[]standing.active => WorkGetsDone

\* A deferral names "the next instant at which the window is open" (consent.ts, above
\* quietHoursEndAfter): a message never wakes inside the quiet hours.
\* Refuted: see the README, section 5.
WakesInTheOpen ==
    \A v \in Version, p \in PartyId :
        sends[v][p].state = "deferred_quiet_hours" /\ sends[v][p].availableIn > 0 =>
            ~insideQuietHours((minute + sends[v][p].availableIn) % Day)

\* An opt-out becomes silence: the address the message went to is suppressed
\* (sends.ts:427-437).
\* Refuted: see the README, section 5.
OptOutSilencesTheAddress ==
    \A v \in Version, p \in PartyId :
        <<"opt_out", v, p>> \in responses /\ provider[v][p].count > 0 =>
            provider[v][p].contact \in suppressed

================================================================================
