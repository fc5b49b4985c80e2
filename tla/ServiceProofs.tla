----------------------------- MODULE ServiceProofs -----------------------------
(***************************************************************************)
(* Proofs of the safety properties of ServiceIntake, for any number of     *)
(* vehicles, appointments, waitlist entries and deals, and of TechDispatch,*)
(* for any number of lines, technicians, tickets and concurrent clock      *)
(* requests.                                                               *)
(*                                                                         *)
(* IntakeInv adds to the properties that a row not yet inserted is blank   *)
(* and that nothing points at it, which is what makes a new booking unable *)
(* to collide with an old pointer.  DispatchInv adds that an open request  *)
(* names a real ticket.  The clock property is inductive as it stands: an  *)
(* entry that keeps the clock serial was checked against the entry         *)
(* inserted just before it.                                                *)
(***************************************************************************)
EXTENDS ServiceIntake, TechDispatch, TLAPS

--------------------------------------------------------------------------------
(* Intake *)

\* A blank appointment has no source and no offer; a blank offer names none; the
\* entry of an open createWaitlistEntry is still blank.
BlankRows ==
    /\ \A e \in Entry : checked[e] # None => entry[e].status = "absent"
    /\ \A a \in Appt : appt[a].status = "absent" => appt[a].source = "none"
    /\ \A d \in Deal : IF offer[d].status = "absent" THEN offer[d].appt = None
                       ELSE offer[d].appt \in Appt /\ appt[offer[d].appt].status # "absent"

IntakeInv ==
    /\ IntakeTypeOK
    /\ BlankRows
    /\ OneOpenEntryPerVehicle
    /\ WaitlistBookingsMatch
    /\ OffersFollowCheckIn
    /\ ArrivalsAndNoShows

--------------------------------------------------------------------------------
LEMMA InitEstablishes == Init => IntakeInv
  BY NoneAssumption
  DEF Init, IntakeInv, IntakeTypeOK, ApptType, EntryType, OfferType, BlankRows, NoAppt,
      NoEntry, NoOffer, OneOpenEntryPerVehicle, WAITLIST_OPEN, WaitlistBookingsMatch,
      BookedEntry, OffersFollowCheckIn, ArrivalsAndNoShows

\* What every action leaves to the tables, type by type.
LEMMA TypesPreserved == IntakeInv /\ [Next]_vars => IntakeTypeOK'
<1> SUFFICES ASSUME IntakeInv, [Next]_vars PROVE IntakeTypeOK'
  OBVIOUS
<1> USE DEF IntakeInv
<1>1. ASSUME NEW a \in Appt, NEW v \in Vehicle, NEW source \in {"phone", "waitlist", "sales_handoff"},
             Booked(a, v, source)
      PROVE  appt' \in [Appt -> ApptType]
  <2>1. [status |-> "scheduled", vehicle |-> v, source |-> source] \in ApptType
    BY DEF ApptType
  <2> QED  BY <1>1, <2>1 DEF Booked, IntakeTypeOK
<1>2. CASE \E a \in Appt, v \in Vehicle, source \in {"phone", "waitlist", "sales_handoff"} :
                createAppointment(a, v, source)
  BY <1>1, <1>2 DEF createAppointment, IntakeTypeOK
<1>3. CASE \E a \in Appt : confirmAppointment(a)
  BY <1>3 DEF confirmAppointment, IntakeTypeOK, ApptType
<1>4. CASE \E a \in Appt : checkIn(a)
  <2> PICK a \in Appt : checkIn(a)
    BY <1>4
  <2>1. appt' \in [Appt -> ApptType] /\ visit' \in [Appt -> {"none", "draft", "checked_in"}]
    BY DEF checkIn, IntakeTypeOK, ApptType
  <2>2. \A d \in Deal : [offer[d] EXCEPT !.status = "converted"] \in OfferType
    BY DEF IntakeTypeOK, OfferType
  <2>3. offer' \in [Deal -> OfferType]
    BY <2>2 DEF checkIn, ConvertOffers, IntakeTypeOK
  <2> QED  BY <2>1, <2>3 DEF checkIn, IntakeTypeOK
<1>5. CASE \E a \in Appt : markAppointmentNoShow(a)
  BY <1>5 DEF markAppointmentNoShow, IntakeTypeOK, ApptType
<1>6. CASE \E a \in Appt : CloseFollowup(a) \/ createRO(a)
  BY <1>6 DEF CloseFollowup, createRO, IntakeTypeOK
<1>7. CASE \E e \in Entry, v \in Vehicle : WaitlistCheck(e, v)
  BY <1>7 DEF WaitlistCheck, IntakeTypeOK
<1>8. CASE \E e \in Entry : WaitlistInsert(e)
  <2> PICK e \in Entry : WaitlistInsert(e)
    BY <1>8
  <2>1. [NoEntry EXCEPT !.status = "waiting", !.vehicle = checked[e]] \in EntryType
    BY DEF IntakeTypeOK, EntryType, NoEntry
  <2>2. entry' \in [Entry -> EntryType] /\ checked' \in [Entry -> Vehicle \cup {None}]
    BY <2>1 DEF WaitlistInsert, IntakeTypeOK
  <2> QED  BY <2>2 DEF WaitlistInsert, IntakeTypeOK
<1>9. CASE \E e \in Entry : offerWaitlistSlot(e) \/ HoldLapses(e) \/ cancelWaitlistEntry(e)
  BY <1>9 DEF offerWaitlistSlot, HoldLapses, cancelWaitlistEntry, IntakeTypeOK, EntryType
<1>10. CASE \E e \in Entry, a \in Appt : convertWaitlistEntry(e, a)
  <2> PICK e \in Entry, a \in Appt : convertWaitlistEntry(e, a)
    BY <1>10
  <2>1. /\ [entry[e] EXCEPT !.status = "expired"] \in EntryType
        /\ [entry[e] EXCEPT !.status = "scheduled", !.appt = a] \in EntryType
        /\ [status |-> "scheduled", vehicle |-> entry[e].vehicle, source |-> "waitlist"]
              \in ApptType
    <3>1. entry[e] \in EntryType /\ a \in Appt
      BY DEF IntakeTypeOK
    <3> QED
      BY ONLY <3>1 DEF EntryType, ApptType
  <2>2. CASE Lapsed(e)
    BY <2>1, <2>2 DEF convertWaitlistEntry, IntakeTypeOK
  <2>3. CASE ~Lapsed(e)
    BY <2>1, <2>3 DEF convertWaitlistEntry, Booked, IntakeTypeOK
  <2> QED  BY <2>2, <2>3
<1>11. CASE \E d \in Deal, a \in Appt, v \in Vehicle : createFirstServiceOffer(d, a, v)
  BY <1>11, <1>1 DEF createFirstServiceOffer, IntakeTypeOK, OfferType
<1>12. CASE UNCHANGED vars
  BY <1>12 DEF vars, IntakeTypeOK
<1> QED
  BY <1>2, <1>3, <1>4, <1>5, <1>6, <1>7, <1>8, <1>9, <1>10, <1>11, <1>12 DEF Next

--------------------------------------------------------------------------------
(* The waitlist *)

LEMMA OpenEntriesPreserved == IntakeInv /\ [Next]_vars => OneOpenEntryPerVehicle'
<1> SUFFICES ASSUME IntakeInv, [Next]_vars PROVE OneOpenEntryPerVehicle'
  OBVIOUS
<1> USE DEF IntakeInv, OneOpenEntryPerVehicle, WAITLIST_OPEN, IntakeTypeOK
<1>1. CASE entry' = entry
  BY <1>1
<1>2. CASE \E e \in Entry : WaitlistInsert(e)
  <2> PICK e \in Entry : WaitlistInsert(e)
    BY <1>2
  <2>1. CASE OpenFor(checked[e]) = {}
    <3>1. \A f \in Entry : /\ entry'[f].status = IF f = e THEN "waiting" ELSE entry[f].status
                           /\ entry'[f].vehicle = IF f = e THEN checked[e] ELSE entry[f].vehicle
      BY <2>1 DEF WaitlistInsert, NoEntry
    <3> QED  BY <2>1, <3>1 DEF OpenFor
  <2>2. CASE OpenFor(checked[e]) # {}
    BY <2>2 DEF WaitlistInsert
  <2> QED  BY <2>1, <2>2
<1>3. CASE \E e \in Entry : offerWaitlistSlot(e) \/ HoldLapses(e) \/ cancelWaitlistEntry(e)
  BY <1>3 DEF offerWaitlistSlot, HoldLapses, cancelWaitlistEntry, EntryType
<1>4. CASE \E e \in Entry, a \in Appt : convertWaitlistEntry(e, a)
  BY <1>4 DEF convertWaitlistEntry, EntryType
<1> QED
  BY <1>1, <1>2, <1>3, <1>4
  DEF Next, vars, createAppointment, confirmAppointment, checkIn, markAppointmentNoShow,
      CloseFollowup, createRO, WaitlistCheck, createFirstServiceOffer

\* The sources and vehicles of booked appointments are never rewritten, and the
\* only appointments that get a source were blank.
Rebooked(a) ==
    \A b \in Appt : b # a => appt'[b].source = appt[b].source /\ appt'[b].vehicle = appt[b].vehicle

\* The step leaves entry f pointing where it did.
SamePointer(f) ==
    /\ entry'[f].appt = entry[f].appt
    /\ entry'[f].vehicle = entry[f].vehicle
    /\ (entry'[f].status = "scheduled") = (entry[f].status = "scheduled")

LEMMA PointersKept ==
    ASSUME WaitlistBookingsMatch, appt' = appt, \A f \in Entry : SamePointer(f)
    PROVE  WaitlistBookingsMatch'
<1>1. \A f \in Entry : BookedEntry(f)' <=> BookedEntry(f)
  BY DEF BookedEntry, SamePointer
<1>2. \A f \in Entry : IF entry'[f].status = "scheduled" THEN BookedEntry(f)'
                                                         ELSE entry'[f].appt = None
  <2> SUFFICES ASSUME NEW f \in Entry
               PROVE  IF entry'[f].status = "scheduled" THEN BookedEntry(f)'
                                                        ELSE entry'[f].appt = None
    OBVIOUS
  <2>1. CASE entry[f].status = "scheduled"
    BY <1>1, <2>1 DEF WaitlistBookingsMatch, SamePointer
  <2>2. CASE entry[f].status # "scheduled"
    BY <2>2 DEF WaitlistBookingsMatch, SamePointer
  <2> QED  BY <2>1, <2>2
<1>3. \A f, g \in Entry : entry'[f].appt = entry'[g].appt /\ entry'[f].appt # None => f = g
  BY DEF WaitlistBookingsMatch, SamePointer
<1>4. \A a \in Appt : appt'[a].source = "waitlist" => \E f \in Entry : entry'[f].appt = a
  BY DEF WaitlistBookingsMatch, SamePointer
<1> QED  BY <1>2, <1>3, <1>4 DEF WaitlistBookingsMatch

LEMMA BookingsPreserved == IntakeInv /\ [Next]_vars => WaitlistBookingsMatch'
<1> SUFFICES ASSUME IntakeInv, [Next]_vars PROVE WaitlistBookingsMatch'
  OBVIOUS
<1> USE DEF IntakeInv, WaitlistBookingsMatch, BookedEntry, IntakeTypeOK
<1>1. CASE \E a \in Appt, v \in Vehicle, source \in {"phone", "waitlist", "sales_handoff"} :
                createAppointment(a, v, source)
  <2> PICK a \in Appt, v \in Vehicle, source \in {"phone", "waitlist", "sales_handoff"} :
                createAppointment(a, v, source)
    BY <1>1
  <2>1. /\ entry' = entry
        /\ appt[a].source = "none"
        /\ appt'[a].source # "waitlist"
        /\ Rebooked(a)
    BY DEF createAppointment, Booked, BlankRows, Rebooked
  <2> QED  BY <2>1 DEF Rebooked
<1>2. CASE \E d \in Deal, a \in Appt, v \in Vehicle : createFirstServiceOffer(d, a, v)
  <2> PICK d \in Deal, a \in Appt, v \in Vehicle : createFirstServiceOffer(d, a, v)
    BY <1>2
  <2>1. /\ entry' = entry
        /\ appt[a].source = "none"
        /\ appt'[a].source # "waitlist"
        /\ Rebooked(a)
    BY DEF createFirstServiceOffer, Booked, BlankRows, Rebooked
  <2> QED  BY <2>1 DEF Rebooked
<1>3. CASE \E a \in Appt : \/ confirmAppointment(a) \/ checkIn(a)
                           \/ markAppointmentNoShow(a) \/ CloseFollowup(a) \/ createRO(a)
  <2>1. /\ entry' = entry
        /\ \A b \in Appt : appt'[b].source = appt[b].source /\ appt'[b].vehicle = appt[b].vehicle
    BY <1>3 DEF confirmAppointment, checkIn, markAppointmentNoShow, CloseFollowup, createRO, ApptType
  <2> QED  BY <2>1
<1>4. CASE \E e \in Entry : WaitlistInsert(e)
  <2> PICK e \in Entry : WaitlistInsert(e)
    BY <1>4
  <2>1. appt' = appt
    BY DEF WaitlistInsert
  <2>2. CASE entry' = entry
    BY <2>1, <2>2
  <2>3. CASE entry' # entry
    <3>1. entry[e].appt = None /\ entry[e].status # "scheduled"
      BY DEF WaitlistInsert, BlankRows
    <3>2. /\ \A f \in Entry : f # e => entry'[f] = entry[f]
          /\ entry'[e].status = "waiting" /\ entry'[e].appt = None
      BY <2>3 DEF WaitlistInsert, NoEntry
    <3>3. \A f \in Entry : entry'[f].appt = entry[f].appt
      BY <3>1, <3>2
    <3>4. \A f \in Entry : IF entry'[f].status = "scheduled"
                           THEN (/\ entry'[f].appt \in Appt
                                 /\ appt[entry'[f].appt].source = "waitlist"
                                 /\ appt[entry'[f].appt].vehicle = entry'[f].vehicle)
                           ELSE entry'[f].appt = None
      <4> SUFFICES ASSUME NEW f \in Entry
                   PROVE  IF entry'[f].status = "scheduled"
                          THEN (/\ entry'[f].appt \in Appt
                                /\ appt[entry'[f].appt].source = "waitlist"
                                /\ appt[entry'[f].appt].vehicle = entry'[f].vehicle)
                          ELSE entry'[f].appt = None
        OBVIOUS
      <4>1. CASE f = e
        BY <3>2, <4>1
      <4>2. CASE f # e
        BY <3>2, <4>2
      <4> QED  BY <4>1, <4>2
    <3> QED  BY <2>1, <3>3, <3>4
  <2> QED  BY <2>2, <2>3
<1>5. CASE \E e \in Entry : offerWaitlistSlot(e) \/ HoldLapses(e) \/ cancelWaitlistEntry(e)
  <2> PICK e \in Entry : offerWaitlistSlot(e) \/ HoldLapses(e) \/ cancelWaitlistEntry(e)
    BY <1>5
  <2>1. appt' = appt /\ \A f \in Entry : SamePointer(f)
    <3>1. CASE offerWaitlistSlot(e)
      BY <3>1 DEF offerWaitlistSlot, EntryType, WAITLIST_OPEN, SamePointer
    <3>2. CASE HoldLapses(e)
      BY <3>2 DEF HoldLapses, EntryType, SamePointer
    <3>3. CASE cancelWaitlistEntry(e)
      BY <3>3 DEF cancelWaitlistEntry, EntryType, WAITLIST_OPEN, SamePointer
    <3> QED  BY <3>1, <3>2, <3>3
  <2> QED  BY <2>1, PointersKept
<1>6. CASE \E e \in Entry, a \in Appt : convertWaitlistEntry(e, a)
  <2> PICK e \in Entry, a \in Appt : convertWaitlistEntry(e, a)
    BY <1>6
  <2>1. CASE Lapsed(e)
    <3>1. appt' = appt /\ \A f \in Entry : SamePointer(f)
      BY <2>1 DEF convertWaitlistEntry, EntryType, WAITLIST_OPEN, SamePointer
    <3> QED  BY <3>1, PointersKept
  <2>2. CASE ~Lapsed(e)
    <3>1. /\ appt[a].source = "none" /\ Rebooked(a)
          /\ appt'[a].source = "waitlist" /\ appt'[a].vehicle = entry[e].vehicle
      BY <2>2 DEF convertWaitlistEntry, Booked, BlankRows, Rebooked
    <3>2. /\ \A f \in Entry : f # e => entry'[f] = entry[f]
          /\ entry'[e].status = "scheduled" /\ entry'[e].appt = a
          /\ entry'[e].vehicle = entry[e].vehicle
          /\ entry[e].appt = None
      BY <2>2 DEF convertWaitlistEntry, EntryType, WAITLIST_OPEN
    <3>3. \A f \in Entry : entry[f].appt # a
      BY <3>1, NoneAssumption
    <3> QED  BY <3>1, <3>2, <3>3, NoneAssumption DEF Rebooked
  <2> QED  BY <2>1, <2>2
<1>7. CASE (\E e \in Entry, v \in Vehicle : WaitlistCheck(e, v)) \/ UNCHANGED vars
  BY <1>7 DEF WaitlistCheck, vars
<1> QED
  BY <1>1, <1>2, <1>3, <1>4, <1>5, <1>6, <1>7 DEF Next

--------------------------------------------------------------------------------
(* Appointments, offers and blank rows *)

LEMMA RestPreserved ==
    IntakeInv /\ [Next]_vars => BlankRows' /\ OffersFollowCheckIn' /\ ArrivalsAndNoShows'
<1> SUFFICES ASSUME IntakeInv, [Next]_vars
             PROVE  BlankRows' /\ OffersFollowCheckIn' /\ ArrivalsAndNoShows'
  OBVIOUS
<1> USE DEF IntakeInv, BlankRows, OffersFollowCheckIn, ArrivalsAndNoShows, IntakeTypeOK
<1>1. CASE \E a \in Appt, v \in Vehicle, source \in {"phone", "waitlist", "sales_handoff"} :
                createAppointment(a, v, source)
  BY <1>1 DEF createAppointment, Booked
<1>2. CASE \E d \in Deal, a \in Appt, v \in Vehicle : createFirstServiceOffer(d, a, v)
  BY <1>2, NoneAssumption DEF createFirstServiceOffer, Booked
<1>3. CASE \E a \in Appt : confirmAppointment(a) \/ markAppointmentNoShow(a)
  BY <1>3, SMTT(20) DEF confirmAppointment, markAppointmentNoShow, EXPECTED, ApptType
<1>4. CASE \E a \in Appt : CloseFollowup(a) \/ createRO(a)
  BY <1>4 DEF CloseFollowup, createRO
<1>5. CASE \E a \in Appt : checkIn(a)
  <2> PICK a \in Appt : checkIn(a)
    BY <1>5
  <2>1. /\ \A b \in Appt : b # a => appt'[b] = appt[b] /\ visit'[b] = visit[b]
        /\ appt'[a].status = "converted_to_ro" /\ visit'[a] = "checked_in"
        /\ appt[a].status \in {"requested", "scheduled", "confirmed"}
        /\ appt'[a].source = appt[a].source
        /\ entry' = entry /\ checked' = checked /\ followup' = followup
    BY DEF checkIn, EXPECTED, ApptType
  <2>2. \A d \in Deal : /\ offer'[d].appt = offer[d].appt
                        /\ offer'[d].status = IF offer[d].appt = a /\ offer[d].status = "offered"
                                              THEN "converted" ELSE offer[d].status
    BY DEF checkIn, ConvertOffers, OfferType
  <2>3. ArrivalsAndNoShows'
    BY <2>1
  <2>4. BlankRows'
    BY <2>1, <2>2
  <2>5. OffersFollowCheckIn'
    BY <2>1, <2>2 DEF OfferType
  <2> QED  BY <2>3, <2>4, <2>5
<1>6. CASE \E e \in Entry, v \in Vehicle : WaitlistCheck(e, v)
  BY <1>6 DEF WaitlistCheck
<1>7. CASE \E e \in Entry : WaitlistInsert(e)
  BY <1>7 DEF WaitlistInsert
<1>8. CASE \E e \in Entry : offerWaitlistSlot(e) \/ HoldLapses(e) \/ cancelWaitlistEntry(e)
  BY <1>8 DEF offerWaitlistSlot, HoldLapses, cancelWaitlistEntry, EntryType, WAITLIST_OPEN
<1>9. CASE \E e \in Entry, a \in Appt : convertWaitlistEntry(e, a)
  <2> PICK e \in Entry, a \in Appt : convertWaitlistEntry(e, a)
    BY <1>9
  <2>1. CASE Lapsed(e)
    BY <2>1 DEF convertWaitlistEntry, WAITLIST_OPEN
  <2>2. CASE ~Lapsed(e)
    <3>1. /\ appt[a].status = "absent" /\ appt'[a].status = "scheduled"
          /\ \A b \in Appt : b # a => appt'[b] = appt[b]
          /\ \A f \in Entry : f # e => entry'[f] = entry[f]
          /\ entry[e].status # "absent"
          /\ offer' = offer /\ checked' = checked /\ visit' = visit /\ followup' = followup
      BY <2>2 DEF convertWaitlistEntry, Booked, WAITLIST_OPEN
    <3> QED  BY <3>1
  <2> QED  BY <2>1, <2>2
<1>10. CASE UNCHANGED vars
  BY <1>10 DEF vars
<1> QED
  BY <1>1, <1>2, <1>3, <1>4, <1>5, <1>6, <1>7, <1>8, <1>9, <1>10 DEF Next

--------------------------------------------------------------------------------
LEMMA IntakeInvariance == Spec => []IntakeInv
<1>1. IntakeInv /\ [Next]_vars => IntakeInv'
  BY TypesPreserved, OpenEntriesPreserved, BookingsPreserved, RestPreserved DEF IntakeInv
<1> QED  BY InitEstablishes, <1>1, PTL DEF Spec

\* Every table keeps its shape.
THEOREM IntakeTypeCorrect == Spec => []IntakeTypeOK
<1>1. IntakeInv => IntakeTypeOK
  BY DEF IntakeInv
<1> QED  BY IntakeInvariance, <1>1, PTL

\* However many createWaitlistEntry calls race, a vehicle waits once per location.
THEOREM VehicleWaitsOnce == Spec => []OneOpenEntryPerVehicle
<1>1. IntakeInv => OneOpenEntryPerVehicle
  BY DEF IntakeInv
<1> QED  BY IntakeInvariance, <1>1, PTL

\* Scheduled entries and waitlist appointments correspond one to one.
THEOREM WaitlistBookingsAreReal == Spec => []WaitlistBookingsMatch
<1>1. IntakeInv => WaitlistBookingsMatch
  BY DEF IntakeInv
<1> QED  BY IntakeInvariance, <1>1, PTL

\* An offer is converted exactly when its appointment was checked in.
THEOREM OffersConvertAtCheckIn == Spec => []OffersFollowCheckIn
<1>1. IntakeInv => OffersFollowCheckIn
  BY DEF IntakeInv
<1> QED  BY IntakeInvariance, <1>1, PTL

\* Checked-in customers have a repair order; no-shows, and only they, a call to make.
THEOREM ArrivalsAndNoShowsRecorded == Spec => []ArrivalsAndNoShows
<1>1. IntakeInv => ArrivalsAndNoShows
  BY DEF IntakeInv
<1> QED  BY IntakeInvariance, <1>1, PTL

\* A lapsed hold books nothing, and a closed entry stays closed.
THEOREM HoldsAndClosuresRespected == Spec => LapsedHoldsAndClosedEntries
<1>1. IntakeInv /\ [Next]_vars =>
        [\A e \in Entry :
           /\ Lapsed(e) => entry'[e].status # "scheduled"
           /\ entry[e].status \in {"scheduled", "canceled", "expired"} =>
                entry'[e].status = entry[e].status /\ entry'[e].appt = entry[e].appt]_vars
  <2> SUFFICES ASSUME IntakeInv, [Next]_vars, NEW e \in Entry
               PROVE  /\ Lapsed(e) => entry'[e].status # "scheduled"
                      /\ entry[e].status \in {"scheduled", "canceled", "expired"} =>
                           entry'[e].status = entry[e].status /\ entry'[e].appt = entry[e].appt
    OBVIOUS
  <2> USE DEF IntakeInv, IntakeTypeOK, EntryType, WAITLIST_OPEN
  <2>1. CASE entry' = entry
    BY <2>1 DEF Lapsed
  <2>2. CASE \E f \in Entry : WaitlistInsert(f)
    BY <2>2 DEF WaitlistInsert, BlankRows, Lapsed
  <2>3. CASE \E f \in Entry : offerWaitlistSlot(f) \/ HoldLapses(f) \/ cancelWaitlistEntry(f)
    BY <2>3 DEF offerWaitlistSlot, HoldLapses, cancelWaitlistEntry, Lapsed
  <2>4. CASE \E f \in Entry, a \in Appt : convertWaitlistEntry(f, a)
    BY <2>4 DEF convertWaitlistEntry, Lapsed
  <2> QED
    BY <2>1, <2>2, <2>3, <2>4
    DEF Next, vars, createAppointment, confirmAppointment, checkIn, markAppointmentNoShow,
        CloseFollowup, createRO, WaitlistCheck, createFirstServiceOffer
<1> QED  BY IntakeInvariance, <1>1, PTL DEF Spec, LapsedHoldsAndClosedEntries

\* Waitlist, appointments, offers, repair orders and follow-up calls agree, for every set
\* of vehicles, appointments, entries and deals.
THEOREM IntakeAlwaysAgrees == Spec => []IntakeAgrees
  BY VehicleWaitsOnce, WaitlistBookingsAreReal, OffersConvertAtCheckIn,
     ArrivalsAndNoShowsRecorded, PTL DEF IntakeAgrees

--------------------------------------------------------------------------------
(* Dispatch and the time clock *)

RequestsNameTickets == \A c \in Caller : open[c] # NoRequest => open[c].ticket \in Ticket

DispatchInv ==
    /\ DispatchTypeOK
    /\ RequestsNameTickets
    /\ OneLiveTicketPerLine
    /\ AssigneeHoldsTicket
    /\ SerialClockCoherent

--------------------------------------------------------------------------------
LEMMA DispatchBegins == DispatchInit => DispatchInv
<1> SUFFICES ASSUME DispatchInit PROVE DispatchInv
  OBVIOUS
<1>1. DispatchTypeOK
  BY DEF DispatchInit, DispatchTypeOK, TicketType, NoTicket, NoRequest
<1>2. RequestsNameTickets /\ OneLiveTicketPerLine /\ AssigneeHoldsTicket
  BY DEF DispatchInit, RequestsNameTickets, OneLiveTicketPerLine, AssigneeHoldsTicket, LIVE, NoTicket
<1>3. SerialClockCoherent
  BY DEF DispatchInit, SerialClockCoherent, Coherent
<1> QED  BY <1>1, <1>2, <1>3 DEF DispatchInv

LEMMA DispatchTypesKept == DispatchInv /\ [DispatchNext]_dispatchVars => DispatchTypeOK' /\ RequestsNameTickets'
<1> SUFFICES ASSUME DispatchInv, [DispatchNext]_dispatchVars PROVE DispatchTypeOK' /\ RequestsNameTickets'
  OBVIOUS
<1> USE DEF DispatchInv, DispatchTypeOK, RequestsNameTickets
<1>1. CASE \E l \in Line, k \in Ticket, t \in Tech : dispatchTech(l, k, t)
  <2> PICK l \in Line, k \in Ticket, t \in Tech : dispatchTech(l, k, t)
    BY <1>1
  <2>1. [status |-> "assigned", line |-> l, tech |-> t] \in TicketType
    BY DEF TicketType, TICKET_STATUSES
  <2>2. ASSUME NEW j \in Ticket PROVE [ticket[j] EXCEPT !.status = "reassigned"] \in TicketType
    <3>1. ticket[j] \in TicketType
      OBVIOUS
    <3> QED
      BY ONLY <3>1 DEF TicketType, TICKET_STATUSES
  <2>3. ticket' \in [Ticket -> TicketType]
    BY <2>1, <2>2 DEF dispatchTech
  <2> QED  BY <2>3 DEF dispatchTech
<1>2. CASE \E k \in Ticket, s \in TICKET_STATUSES : updateTicketStatus(k, s)
  <2> PICK k \in Ticket, s \in TICKET_STATUSES : updateTicketStatus(k, s)
    BY <1>2
  <2>0. ticket[k] \in TicketType /\ s \in TICKET_STATUSES
    OBVIOUS
  <2>1. [ticket[k] EXCEPT !.status = s] \in TicketType
    BY ONLY <2>0 DEF TicketType
  <2> QED  BY <2>1 DEF updateTicketStatus
<1>3. CASE \E c \in Caller, k \in Ticket : BeginTimeEntry(c, k)
  BY <1>3 DEF BeginTimeEntry
<1>4. CASE \E c \in Caller, event \in TIME_EVENT_TYPES, at \in 1..MaxTime :
                InsertTimeEntry(c, event, at)
  <2> PICK c \in Caller, event \in TIME_EVENT_TYPES, at \in 1..MaxTime :
                InsertTimeEntry(c, event, at)
    BY <1>4
  <2>1. PICK k \in Ticket : k = open[c].ticket
    BY DEF InsertTimeEntry
  <2>2. [event |-> event, at |-> at, created |-> open[c].now] \in TimeEntryType
    BY BoundsAssumption DEF TimeEntryType
  <2>3. clock' \in [Ticket -> Seq(TimeEntryType)]
    BY <2>1, <2>2 DEF InsertTimeEntry
  <2>4. open' \in [Caller -> [ticket : Ticket \cup {Null}, now : Nat]]
    BY DEF InsertTimeEntry, NoRequest
  <2>5. RequestsNameTickets'
    BY DEF InsertTimeEntry
  <2> QED  BY <2>3, <2>4, <2>5 DEF InsertTimeEntry
<1>5. CASE \E c \in Caller : RefuseTimeEntry(c)
  BY <1>5 DEF RefuseTimeEntry, NoRequest
<1>6. CASE UNCHANGED dispatchVars
  BY <1>6 DEF dispatchVars
<1> QED  BY <1>1, <1>2, <1>3, <1>4, <1>5, <1>6 DEF DispatchNext

--------------------------------------------------------------------------------
(* Tickets *)

LEMMA TicketsPreserved ==
    DispatchInv /\ [DispatchNext]_dispatchVars => OneLiveTicketPerLine' /\ AssigneeHoldsTicket'
<1> SUFFICES ASSUME DispatchInv, [DispatchNext]_dispatchVars
             PROVE  OneLiveTicketPerLine' /\ AssigneeHoldsTicket'
  OBVIOUS
<1> USE DEF DispatchInv, DispatchTypeOK, OneLiveTicketPerLine, AssigneeHoldsTicket, LIVE
<1>1. CASE \E l \in Line, k \in Ticket, t \in Tech : dispatchTech(l, k, t)
  <2> PICK l \in Line, k \in Ticket, t \in Tech : dispatchTech(l, k, t)
    BY <1>1
  <2>1. /\ ticket'[k].line = l /\ ticket'[k].tech = t
        /\ assignee'[l] = t
        /\ \A m \in Line : m # l => assignee'[m] = assignee[m]
    BY DEF dispatchTech
  <2>2. \A j \in Ticket : j # k /\ ticket'[j].status \in LIVE =>
            ticket'[j] = ticket[j] /\ ticket[j].line # l
    <3> SUFFICES ASSUME NEW j \in Ticket, j # k, ticket'[j].status \in LIVE
                 PROVE  ticket'[j] = ticket[j] /\ ticket[j].line # l
      OBVIOUS
    <3>1. CASE j \in Superseded(l)
      <4>1. ticket'[j].status = "reassigned"
        BY <3>1 DEF dispatchTech, TicketType
      <4> QED  BY <4>1
    <3>2. CASE j \notin Superseded(l)
      BY <3>2 DEF dispatchTech, Superseded
    <3> QED  BY <3>1, <3>2
  <2>3. ASSUME NEW i \in Ticket, NEW j \in Ticket, ticket'[i].status \in LIVE,
               ticket'[j].status \in LIVE, ticket'[i].line = ticket'[j].line
        PROVE  i = j
    <3>1. CASE i # k /\ j # k
      BY <2>2, <2>3, <3>1
    <3>2. CASE i = k \/ j = k
      BY <2>1, <2>2, <2>3, <3>2
    <3> QED  BY <3>1, <3>2
  <2>4. ASSUME NEW j \in Ticket, ticket'[j].status \in LIVE
        PROVE  ticket'[j].line \in Line /\ assignee'[ticket'[j].line] = ticket'[j].tech
    <3>1. CASE j = k
      BY <2>1, <3>1
    <3>2. CASE j # k
      BY <2>1, <2>2, <2>4, <3>2
    <3> QED  BY <3>1, <3>2
  <2> QED  BY <2>3, <2>4
<1>2. CASE \E k \in Ticket, s \in TICKET_STATUSES : updateTicketStatus(k, s)
  <2> PICK k \in Ticket, s \in TICKET_STATUSES : updateTicketStatus(k, s)
    BY <1>2
  <2>1. /\ ticket[k].status \in LIVE
        /\ assignee' = assignee
        /\ \A j \in Ticket : /\ ticket'[j].line = ticket[j].line
                             /\ ticket'[j].tech = ticket[j].tech
                             /\ ticket'[j].status \in LIVE => ticket[j].status \in LIVE
    BY DEF updateTicketStatus, TicketType, TICKET_STATUSES, CLOSED
  <2>2. OneLiveTicketPerLine'
    BY <2>1
  <2>3. AssigneeHoldsTicket'
    BY <2>1
  <2> QED  BY <2>2, <2>3
<1>3. CASE ticket' = ticket /\ assignee' = assignee
  BY <1>3
<1> QED
  BY <1>1, <1>2, <1>3 DEF DispatchNext, dispatchVars, BeginTimeEntry, InsertTimeEntry, RefuseTimeEntry

--------------------------------------------------------------------------------
(* The clock *)

\* An entry accepted on a clock that stays serial was checked against the entry
\* inserted just before it.
LEMMA LastIsPrevious ==
    ASSUME NEW k \in Ticket, DispatchTypeOK, Serial(k), NEW i, IsLast(k, i)
    PROVE  i = Len(clock[k])
<1>1. clock[k] \in Seq(TimeEntryType) /\ i \in 1..Len(clock[k]) /\ Len(clock[k]) \in Nat
  BY DEF DispatchTypeOK, IsLast
<1>2. clock[k][Len(clock[k])].created <= clock[k][i].created
  BY <1>1 DEF IsLast
<1>3. clock[k][Len(clock[k])] \in TimeEntryType /\ clock[k][i] \in TimeEntryType
  BY <1>1
<1>4. i < Len(clock[k]) => clock[k][i].created < clock[k][Len(clock[k])].created
  BY <1>1 DEF Serial
<1> QED  BY <1>1, <1>2, <1>3, <1>4 DEF TimeEntryType

LEMMA ClockPreserved == DispatchInv /\ [DispatchNext]_dispatchVars => SerialClockCoherent'
<1> SUFFICES ASSUME DispatchInv, [DispatchNext]_dispatchVars PROVE SerialClockCoherent'
  OBVIOUS
<1>1. CASE clock' = clock
  BY <1>1 DEF DispatchInv, SerialClockCoherent, Serial, Coherent
<1>2. CASE \E c \in Caller, event \in TIME_EVENT_TYPES, at \in 1..MaxTime :
                InsertTimeEntry(c, event, at)
  <2> PICK c \in Caller, event \in TIME_EVENT_TYPES, at \in 1..MaxTime :
                InsertTimeEntry(c, event, at)
    BY <1>2
  <2>1. PICK k \in Ticket : k = open[c].ticket
    BY DEF InsertTimeEntry, DispatchInv, RequestsNameTickets
  <2> DEFINE added == [event |-> event, at |-> at, created |-> open[c].now]
             n == Len(clock[k])
  <2>2. clock[k] \in Seq(TimeEntryType) /\ n \in Nat
    BY <2>1 DEF DispatchInv, DispatchTypeOK
  <2>3. /\ clock'[k] = Append(clock[k], added)
        /\ \A j \in Ticket : j # k => clock'[j] = clock[j]
        /\ Follows(k, event, at)
    BY <2>1 DEF InsertTimeEntry, DispatchInv, DispatchTypeOK
  <2>4. /\ Len(clock'[k]) = n + 1
        /\ \A i \in 1..n : clock'[k][i] = clock[k][i]
        /\ clock'[k][n + 1] = added
    BY <2>2, <2>3
  <2>5. ASSUME Serial(k)' PROVE Coherent(k)'
    <3>1. Serial(k)
      <4> SUFFICES ASSUME NEW i \in 1..n, NEW j \in 1..n, i < j
                   PROVE  clock[k][i].created < clock[k][j].created
        BY DEF Serial
      <4>1. i \in 1..Len(clock'[k]) /\ j \in 1..Len(clock'[k])
        BY <2>2, <2>4
      <4>2. clock'[k][i].created < clock'[k][j].created
        BY <2>5, <4>1 DEF Serial
      <4> QED  BY <2>4, <4>2
    <3>2. Coherent(k)
      BY <2>1, <3>1 DEF DispatchInv, SerialClockCoherent
    <3>3. CASE clock[k] = <<>>
      <4>1. n = 0 /\ event = "start"
        BY <2>3, <3>3 DEF Follows
      <4> QED  BY <2>4, <4>1 DEF Coherent
    <3>4. CASE clock[k] # <<>>
      <4>1. PICK i \in DOMAIN clock[k] : /\ IsLast(k, i)
                                         /\ at >= clock[k][i].at
                                         /\ event \in allowedNext(clock[k][i].event)
        BY <2>3, <3>4 DEF Follows
      <4>2. i = n
        BY <2>1, <3>1, <4>1, LastIsPrevious DEF DispatchInv
      <4>3. n >= 1
        BY <2>2, <3>4
      <4>4. clock'[k] # <<>> /\ clock'[k][1].event = "start"
        BY <2>2, <2>4, <3>2, <3>4, <4>3 DEF Coherent
      <4>5. \A j \in 1..n : /\ clock'[k][j + 1].event \in allowedNext(clock'[k][j].event)
                            /\ clock'[k][j + 1].at >= clock'[k][j].at
        <5> SUFFICES ASSUME NEW j \in 1..n
                     PROVE  /\ clock'[k][j + 1].event \in allowedNext(clock'[k][j].event)
                            /\ clock'[k][j + 1].at >= clock'[k][j].at
          OBVIOUS
        <5>1. CASE j = n
          <6>1. clock'[k][j] = clock[k][i] /\ clock'[k][j + 1] = added
            BY <2>2, <2>4, <4>2, <5>1
          <6> QED  BY <4>1, <6>1
        <5>2. CASE j # n
          <6>1. j \in 1..n - 1 /\ clock'[k][j] = clock[k][j] /\ clock'[k][j + 1] = clock[k][j + 1]
            BY <2>2, <2>4, <5>2
          <6> QED  BY <3>2, <6>1 DEF Coherent
        <5> QED  BY <5>1, <5>2
      <4>6. Len(clock'[k]) - 1 = n
        BY <2>2, <2>4
      <4> QED  BY <4>4, <4>5, <4>6 DEF Coherent
    <3> QED  BY <3>3, <3>4
  <2>6. ASSUME NEW j \in Ticket, j # k, Serial(j)' PROVE Coherent(j)'
    BY <2>3, <2>6 DEF DispatchInv, SerialClockCoherent, Serial, Coherent
  <2> QED  BY <2>5, <2>6 DEF SerialClockCoherent
<1> QED
  BY <1>1, <1>2
  DEF DispatchNext, dispatchVars, dispatchTech, updateTicketStatus, BeginTimeEntry, RefuseTimeEntry

--------------------------------------------------------------------------------
LEMMA DispatchInvariance == DispatchSpec => []DispatchInv
<1>1. DispatchInv /\ [DispatchNext]_dispatchVars => DispatchInv'
  BY DispatchTypesKept, TicketsPreserved, ClockPreserved DEF DispatchInv
<1> QED  BY DispatchBegins, <1>1, PTL DEF DispatchSpec

\* Every table and request keeps its shape.
THEOREM DispatchTypeCorrect == DispatchSpec => []DispatchTypeOK
<1>1. DispatchInv => DispatchTypeOK
  BY DEF DispatchInv
<1> QED  BY DispatchInvariance, <1>1, PTL

\* However often a line is re-dispatched, one ticket on it is live.
THEOREM LineIsWorkedOnce == DispatchSpec => []OneLiveTicketPerLine
<1>1. DispatchInv => OneLiveTicketPerLine
  BY DEF DispatchInv
<1> QED  BY DispatchInvariance, <1>1, PTL

\* The technician on the line is the holder of its live ticket.
THEOREM AssigneeIsTicketHolder == DispatchSpec => []AssigneeHoldsTicket
<1>1. DispatchInv => AssigneeHoldsTicket
  BY DEF DispatchInv
<1> QED  BY DispatchInvariance, <1>1, PTL

\* Clock entries whose transactions did not overtake one another are coherent.
THEOREM SerialClocksAreCoherent == DispatchSpec => []SerialClockCoherent
<1>1. DispatchInv => SerialClockCoherent
  BY DEF DispatchInv
<1> QED  BY DispatchInvariance, <1>1, PTL

\* A closed ticket is never touched again.
THEOREM ClosedTicketsStayClosed == DispatchSpec => TicketsCloseForGood
<1>1. DispatchInv /\ [DispatchNext]_dispatchVars =>
        [\A k \in Ticket :
           /\ ticket[k].status \in CLOSED => ticket'[k] = ticket[k]
           /\ ticket[k].status \in LIVE =>
                ticket'[k].line = ticket[k].line /\ ticket'[k].tech = ticket[k].tech]_dispatchVars
  <2> SUFFICES ASSUME DispatchInv, [DispatchNext]_dispatchVars, NEW k \in Ticket
               PROVE  /\ ticket[k].status \in CLOSED => ticket'[k] = ticket[k]
                      /\ ticket[k].status \in LIVE =>
                           ticket'[k].line = ticket[k].line /\ ticket'[k].tech = ticket[k].tech
    OBVIOUS
  <2> USE DEF DispatchInv, DispatchTypeOK, TicketType, LIVE, CLOSED
  <2>1. CASE \E l \in Line, j \in Ticket, t \in Tech : dispatchTech(l, j, t)
    BY <2>1 DEF dispatchTech, Superseded
  <2>2. CASE \E j \in Ticket, s \in TICKET_STATUSES : updateTicketStatus(j, s)
    BY <2>2 DEF updateTicketStatus
  <2>3. CASE ticket' = ticket
    BY <2>3
  <2> QED
    BY <2>1, <2>2, <2>3 DEF DispatchNext, dispatchVars, BeginTimeEntry, InsertTimeEntry, RefuseTimeEntry
<1> QED  BY DispatchInvariance, <1>1, PTL DEF DispatchSpec, TicketsCloseForGood

\* One live ticket per line, held by the technician the line names, and coherent clocks,
\* for every set of lines, technicians, tickets and requests.
THEOREM DispatchStaysCoherent == DispatchSpec => []DispatchIsCoherent
  BY LineIsWorkedOnce, AssigneeIsTicketHolder, SerialClocksAreCoherent, PTL
     DEF DispatchIsCoherent

================================================================================
