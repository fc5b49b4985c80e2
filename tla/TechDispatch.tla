------------------------------ MODULE TechDispatch ------------------------------
(***************************************************************************)
(* Technician dispatch and time: work tickets on the lines of a repair     *)
(* order, and the clock entries recorded on a ticket.                      *)
(*                                                                         *)
(* Source: packages/fixed-ops/src/legacy/service-cockpit-service.ts,       *)
(* section TDTS2, and migrations/049_phase248_service_cockpit.sql.         *)
(*                                                                         *)
(* Dispatching locks the line and a status update the ticket: they are     *)
(* one action each.  recordTimeEntry is two: created_at defaults to NOW(), *)
(* which PostgreSQL fixes when the transaction begins, while the ticket's  *)
(* row lock is taken later, perhaps after waiting for another entry of the *)
(* same ticket.  BeginTimeEntry is withTransaction's BEGIN, and            *)
(* InsertTimeEntry everything done under the lock.                         *)
(***************************************************************************)
EXTENDS Naturals, Sequences

CONSTANTS
    Line,        \* line items
    Tech,        \* technicians with an active profile at the location
    Ticket,      \* work tickets
    Caller,      \* concurrent recordTimeEntry requests
    Null,        \* SQL NULL, or no request in flight
    MaxEntries,  \* bound: clock entries on a ticket
    MaxBegun,    \* bound: recordTimeEntry transactions begun
    MaxTime      \* bound: values of occurred_at

ASSUME NullAssumption == Null \notin Line \cup Tech \cup Ticket
ASSUME BoundsAssumption == MaxEntries \in Nat /\ MaxBegun \in Nat /\ MaxTime \in Nat

VARIABLES
    ticket,    \* ticket[k]: the tech_work_tickets row, status "absent" before INSERT
    assignee,  \* assignee[l]: ro_line_items.assigned_tech_user_id
    clock,     \* clock[k]: the tech_time_entries of k, in the order of their INSERTs
    begun,     \* transactions begun so far: the next value of NOW()
    open       \* open[c]: ticket and NOW() of a recordTimeEntry in flight

dispatchVars == <<ticket, assignee, clock, begun, open>>

--------------------------------------------------------------------------------
NoTicket == [status |-> "absent", line |-> Null, tech |-> Null]
NoRequest == [ticket |-> Null, now |-> 0]

DispatchInit ==
    /\ ticket = [k \in Ticket |-> NoTicket]
    /\ assignee = [l \in Line |-> Null]
    /\ clock = [k \in Ticket |-> <<>>]
    /\ begun = 0
    /\ open = [c \in Caller |-> NoRequest]

--------------------------------------------------------------------------------
(* Tickets *)

TICKET_STATUSES == {"assigned", "started", "paused", "completed", "reassigned", "canceled"}
LIVE == {"assigned", "started", "paused"}
CLOSED == {"completed", "reassigned", "canceled"}

\* Mutant of Superseded: only a ticket nobody has started is taken away.
Superseded_AssignedOnly(l) ==
    {k \in Ticket : ticket[k].line = l /\ ticket[k].status = "assigned"}

\* The tickets a dispatch on line l takes over from.
Superseded(l) == {k \in Ticket : ticket[k].line = l /\ ticket[k].status \in LIVE}

\* The line's lock serialises dispatches: the live tickets of the line become
\* reassigned, the new one is inserted, and the line names its technician.
dispatchTech(l, k, t) ==
    /\ ticket[k].status = "absent"
    /\ ticket' = [j \in Ticket |->
            IF j = k THEN [status |-> "assigned", line |-> l, tech |-> t]
            ELSE IF j \in Superseded(l) THEN [ticket[j] EXCEPT !.status = "reassigned"]
            ELSE ticket[j]]
    /\ assignee' = [assignee EXCEPT ![l] = t]
    /\ UNCHANGED <<clock, begun, open>>

\* Mutant of updateTicketStatus: a ticket handed to someone else can be revived.
updateTicketStatus_Revives(k, s) ==
    /\ ticket[k].status \in TICKET_STATUSES \ {"completed", "canceled"}
    /\ ticket' = [ticket EXCEPT ![k].status = s]
    /\ UNCHANGED <<assignee, clock, begun, open>>

\* By the assignee or a supervisor.  Any status may be asked for, "reassigned" too.
updateTicketStatus(k, s) ==
    /\ ticket[k].status \notin CLOSED \cup {"absent"}
    /\ ticket' = [ticket EXCEPT ![k].status = s]
    /\ UNCHANGED <<assignee, clock, begun, open>>

--------------------------------------------------------------------------------
(* The clock *)

TIME_EVENT_TYPES == {"start", "pause", "resume", "stop"}

allowedNext(previous) ==
    CASE previous \in {"start", "resume"} -> {"pause", "stop"}
      [] previous = "pause" -> {"resume", "stop"}
      [] previous = "stop" -> {"start"}

\* The row the SELECT takes for the previous one: the greatest created_at.
IsLast(k, i) ==
    /\ i \in DOMAIN clock[k]
    /\ \A j \in DOMAIN clock[k] : clock[k][j].created <= clock[k][i].created

\* The entry may follow the last one: a legal next event, not earlier in time.
Follows(k, event, at) ==
    IF clock[k] = <<>> THEN event = "start"
    ELSE \E i \in DOMAIN clock[k] :
            /\ IsLast(k, i)
            /\ at >= clock[k][i].at
            /\ event \in allowedNext(clock[k][i].event)

BeginTimeEntry(c, k) ==
    /\ open[c] = NoRequest
    /\ begun < MaxBegun
    /\ ticket[k].status # "absent"
    /\ begun' = begun + 1
    /\ open' = [open EXCEPT ![c] = [ticket |-> k, now |-> begun + 1]]
    /\ UNCHANGED <<ticket, assignee, clock>>

\* The ticket's status is not read: only its clock decides.
InsertTimeEntry(c, event, at) ==
    LET k == open[c].ticket IN
    /\ open[c] # NoRequest
    /\ Len(clock[k]) < MaxEntries
    /\ Follows(k, event, at)
    /\ clock' = [clock EXCEPT ![k] =
                   Append(@, [event |-> event, at |-> at, created |-> open[c].now])]
    /\ open' = [open EXCEPT ![c] = NoRequest]
    /\ UNCHANGED <<ticket, assignee, begun>>

\* The entry is refused, or the connection is lost: nothing is written.
RefuseTimeEntry(c) ==
    /\ open[c] # NoRequest
    /\ open' = [open EXCEPT ![c] = NoRequest]
    /\ UNCHANGED <<ticket, assignee, clock, begun>>

--------------------------------------------------------------------------------
DispatchNext ==
    \/ \E l \in Line, k \in Ticket, t \in Tech : dispatchTech(l, k, t)
    \/ \E k \in Ticket, s \in TICKET_STATUSES : updateTicketStatus(k, s)
    \/ \E c \in Caller, k \in Ticket : BeginTimeEntry(c, k)
    \/ \E c \in Caller, event \in TIME_EVENT_TYPES, at \in 1..MaxTime :
          InsertTimeEntry(c, event, at)
    \/ \E c \in Caller : RefuseTimeEntry(c)

DispatchSpec == DispatchInit /\ [][DispatchNext]_dispatchVars

--------------------------------------------------------------------------------
TicketType ==
    [status : TICKET_STATUSES \cup {"absent"}, line : Line \cup {Null}, tech : Tech \cup {Null}]

TimeEntryType == [event : TIME_EVENT_TYPES, at : Nat, created : Nat]

\* The shape of every table and request.
DispatchTypeOK ==
    /\ ticket \in [Ticket -> TicketType]
    /\ assignee \in [Line -> Tech \cup {Null}]
    /\ clock \in [Ticket -> Seq(TimeEntryType)]
    /\ begun \in Nat
    /\ open \in [Caller -> [ticket : Ticket \cup {Null}, now : Nat]]

--------------------------------------------------------------------------------
(* Safety *)

\* A line never has two live tickets: re-dispatch supersedes, and a superseded
\* ticket cannot be revived beside its successor.
OneLiveTicketPerLine ==
    \A j, k \in Ticket :
        (/\ ticket[j].status \in LIVE
         /\ ticket[k].status \in LIVE
         /\ ticket[j].line = ticket[k].line) => j = k

\* The technician a line names is the one holding its live ticket.
AssigneeHoldsTicket ==
    \A k \in Ticket : ticket[k].status \in LIVE =>
        ticket[k].line \in Line /\ assignee[ticket[k].line] = ticket[k].tech

\* A completed, canceled or superseded ticket is finished for good, and no ticket
\* ever changes its line or its technician.
TicketsCloseForGood ==
    [][\A k \in Ticket :
         /\ ticket[k].status \in CLOSED => ticket'[k] = ticket[k]
         /\ ticket[k].status \in LIVE =>
              ticket'[k].line = ticket[k].line /\ ticket'[k].tech = ticket[k].tech]_dispatchVars

Serial(k) ==
    \A i, j \in 1..Len(clock[k]) : i < j => clock[k][i].created < clock[k][j].created

Coherent(k) ==
    /\ clock[k] # <<>> => clock[k][1].event = "start"
    /\ \A i \in 1..Len(clock[k]) - 1 :
         /\ clock[k][i + 1].event \in allowedNext(clock[k][i].event)
         /\ clock[k][i + 1].at >= clock[k][i].at

\* As long as transactions take the ticket's lock in the order they began, the
\* clock of a ticket is a coherent sequence that moves forward in time.
SerialClockCoherent == \A k \in Ticket : Serial(k) => Coherent(k)

\* Re-dispatch and time keeping agree: a line is worked once, by the technician it names,
\* and a clock whose requests did not overtake one another can be read off.
DispatchIsCoherent == OneLiveTicketPerLine /\ AssigneeHoldsTicket /\ SerialClockCoherent

--------------------------------------------------------------------------------
(* Stated by the source and refuted by TLC; see the README. *)

\* recordTimeEntry: "two entries racing on the same ticket must not both read the
\* same 'last' event and each believe they are a valid next step".
ClockCoherent == \A k \in Ticket : Coherent(k)

================================================================================
