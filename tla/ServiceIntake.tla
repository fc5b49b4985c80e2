----------------------------- MODULE ServiceIntake -----------------------------
(***************************************************************************)
(* Scheduling and intake: appointments, the waitlist that books them, the  *)
(* first-service offers a sale earns, and the repair order an appointment  *)
(* turns into.                                                             *)
(*                                                                         *)
(* Source: packages/fixed-ops/src/legacy/service-cockpit-service.ts,       *)
(* sections SSIS2, ROLS2 (createRO) and PSFSRB2.                           *)
(*                                                                         *)
(* Every function runs in one transaction that locks the row it validates  *)
(* and is one action, except createWaitlistEntry: its check for an open    *)
(* entry and its INSERT are two statements with nothing locked between     *)
(* them, so it is the pair WaitlistCheck / WaitlistInsert, and the partial *)
(* unique index is what decides a race.                                    *)
(***************************************************************************)
EXTENDS Naturals, FiniteSets

CONSTANTS
    Vehicle,   \* a vehicle at a location, the key of uq_swe_open_vehicle
    Appt,      \* appointments
    Entry,     \* waitlist entries
    Deal,      \* completed sales
    None       \* SQL NULL

ASSUME NoneAssumption == None \notin Vehicle \cup Appt

VARIABLES
    appt,      \* appt[a]: the service_appointments row, status "absent" before INSERT
    visit,     \* visit[a]: status the repair order of a was created in, or "none"
    followup,  \* followup[a]: the no_show_followup queue item of a
    entry,     \* entry[e]: the service_waitlist_entries row
    checked,   \* checked[e]: vehicle an open createWaitlistEntry found no entry for
    offer      \* offer[d]: the first_service_offers row of deal d

vars == <<appt, visit, followup, entry, checked, offer>>

--------------------------------------------------------------------------------
NoAppt == [status |-> "absent", vehicle |-> None, source |-> "none"]
NoEntry == [status |-> "absent", vehicle |-> None, appt |-> None, hold |-> "none"]
NoOffer == [status |-> "absent", appt |-> None]

Init ==
    /\ appt = [a \in Appt |-> NoAppt]
    /\ visit = [a \in Appt |-> "none"]
    /\ followup = [a \in Appt |-> "none"]
    /\ entry = [e \in Entry |-> NoEntry]
    /\ checked = [e \in Entry |-> None]
    /\ offer = [d \in Deal |-> NoOffer]

--------------------------------------------------------------------------------
(* Appointments *)

\* The statuses from which the customer may still arrive, or fail to.
EXPECTED == {"requested", "scheduled", "confirmed"}

\* The row every booking inserts; `source` records which path booked it.
Booked(a, v, source) ==
    /\ appt[a].status = "absent"
    /\ appt' = [appt EXCEPT ![a] =
                  [status |-> "scheduled", vehicle |-> v, source |-> source]]

\* 'waitlist' is provenance and refused here; a sales handoff is only a label.
createAppointment(a, v, source) ==
    /\ source # "waitlist"
    /\ Booked(a, v, source)
    /\ UNCHANGED <<visit, followup, entry, checked, offer>>

confirmAppointment(a) ==
    /\ appt[a].status \in {"requested", "scheduled"}
    /\ appt' = [appt EXCEPT ![a].status = "confirmed"]
    /\ UNCHANGED <<visit, followup, entry, checked, offer>>

\* checkIn's last statement: the offer that earned the visit is converted.
ConvertOffers(a) ==
    offer' = [d \in Deal |->
        IF offer[d].appt = a /\ offer[d].status \in {"offered", "scheduled"}
        THEN [offer[d] EXCEPT !.status = "converted"] ELSE offer[d]]

\* An appointment with a repair order already is answered with that one (a
\* replay, which writes nothing and is a stuttering step here).
checkIn(a) ==
    /\ visit[a] = "none"
    /\ appt[a].status \in EXPECTED
    /\ visit' = [visit EXCEPT ![a] = "checked_in"]
    /\ appt' = [appt EXCEPT ![a].status = "converted_to_ro"]
    /\ ConvertOffers(a)
    /\ UNCHANGED <<followup, entry, checked>>

markAppointmentNoShow(a) ==
    /\ appt[a].status \in EXPECTED
    /\ appt' = [appt EXCEPT ![a].status = "no_show"]
    /\ followup' = [followup EXCEPT ![a] = "open"]
    /\ UNCHANGED <<visit, entry, checked, offer>>

\* updateServiceQueueItemStatus with a closing status, on the follow-up call.
CloseFollowup(a) ==
    /\ followup[a] = "open"
    /\ followup' = [followup EXCEPT ![a] = "closed"]
    /\ UNCHANGED <<appt, visit, entry, checked, offer>>

\* createRO for an appointment: refuses a second repair order, reads neither the
\* appointment's status nor its offers, and writes neither.
createRO(a) ==
    /\ appt[a].status # "absent"
    /\ visit[a] = "none"
    /\ visit' = [visit EXCEPT ![a] = "draft"]
    /\ UNCHANGED <<appt, followup, entry, checked, offer>>

--------------------------------------------------------------------------------
(* Waitlist *)

WAITLIST_OPEN == {"waiting", "offered"}

OpenFor(v) == {e \in Entry : entry[e].vehicle = v /\ entry[e].status \in WAITLIST_OPEN}

\* createWaitlistEntry up to its SELECT.
WaitlistCheck(e, v) ==
    /\ entry[e].status = "absent"
    /\ checked[e] = None
    /\ OpenFor(v) = {}
    /\ checked' = [checked EXCEPT ![e] = v]
    /\ UNCHANGED <<appt, visit, followup, entry, offer>>

\* Mutant of WaitlistInsert: no unique index behind the check.
WaitlistInsert_NoIndex(e) ==
    /\ checked[e] # None
    /\ entry' = [entry EXCEPT ![e] =
          [NoEntry EXCEPT !.status = "waiting", !.vehicle = checked[e]]]
    /\ checked' = [checked EXCEPT ![e] = None]
    /\ UNCHANGED <<appt, visit, followup, offer>>

\* Its INSERT: a row, or the unique violation reported as the same conflict.
WaitlistInsert(e) ==
    /\ checked[e] # None
    /\ entry' = IF OpenFor(checked[e]) = {}
                THEN [entry EXCEPT ![e] =
                        [NoEntry EXCEPT !.status = "waiting", !.vehicle = checked[e]]]
                ELSE entry
    /\ checked' = [checked EXCEPT ![e] = None]
    /\ UNCHANGED <<appt, visit, followup, offer>>

\* Offering again extends the hold, lapsed or not.
offerWaitlistSlot(e) ==
    /\ entry[e].status \in WAITLIST_OPEN
    /\ entry' = [entry EXCEPT ![e].status = "offered", ![e].hold = "live"]
    /\ UNCHANGED <<appt, visit, followup, checked, offer>>

\* Time passes offer_expires_at.
HoldLapses(e) ==
    /\ entry[e].hold = "live"
    /\ entry' = [entry EXCEPT ![e].hold = "lapsed"]
    /\ UNCHANGED <<appt, visit, followup, checked, offer>>

Lapsed(e) == entry[e].status = "offered" /\ entry[e].hold = "lapsed"

\* Mutant of convertWaitlistEntry: books on a lapsed hold.
convertWaitlistEntry_LapsedToo(e, a) ==
    /\ entry[e].status \in WAITLIST_OPEN
    /\ Booked(a, entry[e].vehicle, "waitlist")
    /\ entry' = [entry EXCEPT ![e].status = "scheduled", ![e].appt = a]
    /\ UNCHANGED <<visit, followup, checked, offer>>

\* A lapsed offer expires the entry, which commits although the request is
\* refused; otherwise the appointment and the entry's pointer commit together.
convertWaitlistEntry(e, a) ==
    /\ entry[e].status \in WAITLIST_OPEN
    /\ IF Lapsed(e)
       THEN /\ entry' = [entry EXCEPT ![e].status = "expired"]
            /\ appt' = appt
       ELSE /\ Booked(a, entry[e].vehicle, "waitlist")
            /\ entry' = [entry EXCEPT ![e].status = "scheduled", ![e].appt = a]
    /\ UNCHANGED <<visit, followup, checked, offer>>

cancelWaitlistEntry(e) ==
    /\ entry[e].status \in WAITLIST_OPEN
    /\ entry' = [entry EXCEPT ![e].status = "canceled", ![e].hold = "none"]
    /\ UNCHANGED <<appt, visit, followup, checked, offer>>

--------------------------------------------------------------------------------
(* First-service retention *)

\* Appointment and offer together; a second offer for the deal hits the unique
\* index and takes its appointment down with it.
createFirstServiceOffer(d, a, v) ==
    /\ offer[d].status = "absent"
    /\ Booked(a, v, "sales_handoff")
    /\ offer' = [offer EXCEPT ![d] = [status |-> "offered", appt |-> a]]
    /\ UNCHANGED <<visit, followup, entry, checked>>

--------------------------------------------------------------------------------
Next ==
    \/ \E a \in Appt : \/ confirmAppointment(a)
                       \/ checkIn(a)
                       \/ markAppointmentNoShow(a)
                       \/ CloseFollowup(a)
                       \/ createRO(a)
    \/ \E a \in Appt, v \in Vehicle, source \in {"phone", "waitlist", "sales_handoff"} :
          createAppointment(a, v, source)
    \/ \E e \in Entry : \/ WaitlistInsert(e)
                        \/ offerWaitlistSlot(e)
                        \/ HoldLapses(e)
                        \/ cancelWaitlistEntry(e)
    \/ \E e \in Entry, v \in Vehicle : WaitlistCheck(e, v)
    \/ \E e \in Entry, a \in Appt : convertWaitlistEntry(e, a)
    \/ \E d \in Deal, a \in Appt, v \in Vehicle : createFirstServiceOffer(d, a, v)

Spec == Init /\ [][Next]_vars

--------------------------------------------------------------------------------
ApptType ==
    [status : {"absent", "scheduled", "confirmed", "no_show", "converted_to_ro"},
     vehicle : Vehicle \cup {None},
     source : {"none", "phone", "sales_handoff", "waitlist"}]

EntryType ==
    [status : {"absent", "waiting", "offered", "scheduled", "canceled", "expired"},
     vehicle : Vehicle \cup {None}, appt : Appt \cup {None},
     hold : {"none", "live", "lapsed"}]

OfferType == [status : {"absent", "offered", "converted"}, appt : Appt \cup {None}]

\* The shape of every table.
IntakeTypeOK ==
    /\ appt \in [Appt -> ApptType]
    /\ visit \in [Appt -> {"none", "draft", "checked_in"}]
    /\ followup \in [Appt -> {"none", "open", "closed"}]
    /\ entry \in [Entry -> EntryType]
    /\ checked \in [Entry -> Vehicle \cup {None}]
    /\ offer \in [Deal -> OfferType]

--------------------------------------------------------------------------------
(* Safety *)

\* A vehicle has at most one open waitlist entry at a location, however the
\* SELECT and the INSERT of two createWaitlistEntry calls interleave.
OneOpenEntryPerVehicle ==
    \A e, f \in Entry :
        (/\ entry[e].status \in WAITLIST_OPEN
         /\ entry[f].status \in WAITLIST_OPEN
         /\ entry[e].vehicle = entry[f].vehicle) => e = f

BookedEntry(e) ==
    /\ entry[e].appt \in Appt
    /\ appt[entry[e].appt].source = "waitlist"
    /\ appt[entry[e].appt].vehicle = entry[e].vehicle

\* Waitlist bookings and scheduled entries correspond one to one: an entry marked
\* scheduled points at a real appointment for its own vehicle, nothing else points
\* anywhere, no two share one, and every appointment that says it came from the
\* waitlist has its entry (convertWaitlistEntry's single transaction).
WaitlistBookingsMatch ==
    /\ \A e \in Entry : IF entry[e].status = "scheduled" THEN BookedEntry(e)
                                                         ELSE entry[e].appt = None
    /\ \A e, f \in Entry : entry[e].appt = entry[f].appt /\ entry[e].appt # None => e = f
    /\ \A a \in Appt : appt[a].source = "waitlist" => \E e \in Entry : entry[e].appt = a

\* The capture rate counts true things: a converted offer's appointment was
\* checked in, and a checked-in appointment leaves no offer of its own behind.
OffersFollowCheckIn ==
    \A d \in Deal : offer[d].status # "absent" =>
        /\ offer[d].appt \in Appt
        /\ offer[d].status = "converted" <=> appt[offer[d].appt].status = "converted_to_ro"

\* A checked-in appointment has its repair order; a follow-up call exists exactly
\* for the customers recorded as not having come.
ArrivalsAndNoShows ==
    \A a \in Appt :
        /\ appt[a].status = "converted_to_ro" => visit[a] = "checked_in"
        /\ appt[a].status = "no_show" <=> followup[a] # "none"

\* The intake tables tell one story: a vehicle waits once, bookings and entries match,
\* offers follow check-in, and arrivals and no-shows have their repair orders and calls,
\* however racing creates, conversions, arrivals and retries interleave.
IntakeAgrees ==
    OneOpenEntryPerVehicle /\ WaitlistBookingsMatch /\ OffersFollowCheckIn /\ ArrivalsAndNoShows

\* A hold that lapsed books nothing until the slot is offered again, and an entry
\* that was closed stays as it is.
LapsedHoldsAndClosedEntries ==
    [][\A e \in Entry :
         /\ Lapsed(e) => entry'[e].status # "scheduled"
         /\ entry[e].status \in {"scheduled", "canceled", "expired"} =>
              entry'[e].status = entry[e].status /\ entry'[e].appt = entry[e].appt]_vars

--------------------------------------------------------------------------------
(* Stated by the source and refuted by TLC; see the README. *)

\* createFirstServiceOffer: checkIn "marks it `converted` when the appointment
\* becomes a repair order": an offer whose appointment has a repair order is converted.
VisitConvertsOffer ==
    \A d \in Deal : offer[d].status # "absent" /\ visit[offer[d].appt] # "none" =>
        offer[d].status = "converted"

================================================================================
