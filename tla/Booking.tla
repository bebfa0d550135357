------------------------------- MODULE Booking -------------------------------
(***************************************************************************)
(* Bookings of a tenant's slots (schedule_events) by the chat widget       *)
(* (book_slot), the e-mail agent and the call agent (_try_book, _book), by *)
(* the website form and by Calendly's webhooks, with the calendar event    *)
(* the first three put into the connected calendar and the reminders of    *)
(* every booking.  No two of these statements share a transaction: a       *)
(* request walks its Path one statement or provider call at a time, with   *)
(* what it has read in its record, and may die at any point.               *)
(***************************************************************************)
EXTENDS Naturals, FiniteSets, Sequences

CONSTANTS
  Requests,    \* requests and agent runs that book, move or cancel; a row each
  Forms,       \* bookings that arrive with a website form
  Uuids,       \* invitees of Calendly
  Slots,       \* starts of the tenant's slots, in order of time
  NoEvent,
  FaultBound   \* bound of the model: requests that die, and cleanups that fail

Events == Requests \union Forms \union Uuids

ASSUME BookingAssumption ==
  /\ NoEvent \notin Events /\ Slots \subseteq Nat /\ FaultBound \in Nat
  /\ Requests \intersect Forms = {} /\ Requests \intersect Uuids = {} /\ Forms \intersect Uuids = {}

VARIABLES
  row,        \* the rows of schedule_events, all of one person
  reminders,  \* reminder_jobs of each row
  calendar,   \* events that exist in the connected calendar
  provider,   \* the calendar: none (or a Calendly page switched off), connected, or Calendly
  request,
  announced,  \* bookings whose plan was stopped, lead linked and confirmation queued
  over,       \* slots whose time has passed
  invitee,    \* Calendly's side of each invitee
  inOrder,    \* history: invitees whose cancellation was the last webhook processed
  faults,
  died,       \* history: requests that died, or whose cleanup failed, half-way
  strays,     \* history: calendar events the code cannot, or does not, take back
  dropped     \* history: the person, or Calendly, cancelled a booking

vars == <<row, reminders, calendar, provider, request, announced, over, invitee, inOrder, faults, died, strays, dropped>>
history == <<faults, died, strays, dropped>>
others == <<announced, over, invitee, inOrder>>

(* "held" stands for the outcomes completed and no_show.                       *)
RowStatus == {"none", "booked", "cancelled", "held"}
Row == [status : RowStatus, slot : Slots \union {0}, visitor : BOOLEAN, ref : BOOLEAN]
NoRow == [status |-> "none", slot |-> 0, visitor |-> FALSE, ref |-> FALSE]

(* What each caller does, in order; "remove" is the old calendar event.      *)
Path ==
  [widget |-> <<"check", "read", "insert", "remind", "sync", "ref", "announce", "cancel", "skip", "remove">>,
   email  |-> <<"read", "check", "insert", "remind", "sync", "ref", "announce", "cancel", "skip">>,
   call   |-> <<"read", "check", "insert", "remind", "sync", "ref", "announce", "cancel">>,
   drop   |-> <<"read", "cancel", "skip">>]
Kinds == {"widget", "email", "call", "drop"}
Ended == 11
Request == [kind : Kinds, slot : Slots \union {0}, at : Nat,
            previous : Events \union {NoEvent}, ref : BOOLEAN]
Idle(at) == [kind |-> "widget", slot |-> 0, at |-> at, previous |-> NoEvent, ref |-> FALSE]
Unborn == Idle(0)

Doing(r, step) ==
  LET q == request[r] IN q.at \in 1..Len(Path[q.kind]) /\ Path[q.kind][q.at] = step
InFlight(r) == request[r].at \in 1..10

Init ==
  /\ row = [e \in Events |-> NoRow]
  /\ reminders = [e \in Events |-> "none"]
  /\ calendar = {} /\ announced = {} /\ over = {}
  /\ provider \in {"none", "connected", "calendly"}
  /\ request = [r \in Requests |-> Unborn]
  /\ invitee = [u \in Uuids |-> "none"]
  /\ inOrder = {} /\ faults = 0 /\ died = {} /\ strays = {} /\ dropped = FALSE

-----------------------------------------------------------------------------
Booked(e) == row[e].status = "booked"
(* schedule_events_no_double_book: unique starts among the rows still booked.  *)
SlotFreeUnindexed(s, e) == TRUE
SlotFree(s, e) == ~\E f \in Events \ {e} : Booked(f) /\ row[f].slot = s
(* list_booked and compute_slots.                                             *)
Open(s) == s \notin over /\ ~\E f \in Events : Booked(f) /\ row[f].slot = s
(* The connected calendar's busy times; an unreachable calendar adds nothing.  *)
Busy(s) == \E e \in calendar : row[e].slot = s

(* get_upcoming_booking knows the visitor's own rows, get_upcoming_for_contact *)
(* every row of the person; both give the soonest.                            *)
Upcoming(kind) == {e \in Events : Booked(e) /\ row[e].slot \notin over
                                  /\ (kind = "widget" => row[e].visitor)}
Soonest(kind) == IF Upcoming(kind) = {} THEN {NoEvent}
                 ELSE {e \in Upcoming(kind) : \A f \in Upcoming(kind) : row[e].slot <= row[f].slot}

Goes(r) == request' = [request EXCEPT ![r].at = @ + 1]
Ends(r) == request' = [request EXCEPT ![r].at = Ended, ![r].slot = 0, ![r].ref = FALSE]
Refuses(r) == request' = [request EXCEPT ![r] = Idle(Ended)]
(* After a booking without a previous one there is nothing to clean up.       *)
GoesOrEnds(r) == IF request[r].previous = NoEvent \/ request[r].at = Len(Path[request[r].kind])
                 THEN Ends(r) ELSE Goes(r)

Start(r, kind) ==
  /\ request[r] = Unborn
  /\ request' = [request EXCEPT ![r].kind = kind, ![r].at = 1]
  /\ UNCHANGED <<row, reminders, calendar, provider, others, history>>

(* The agents leave a Calendly tenant's bookings to Calendly, and look at the  *)
(* calendar's busy times; the widget looks at the rows only.                  *)
CheckSlot(r, s) ==
  LET agent == request[r].kind # "widget" IN
  /\ Doing(r, "check")
  /\ \/ Open(s) /\ ~(agent /\ provider = "calendly")
        /\ request' = [request EXCEPT ![r].at = @ + 1, ![r].slot = s]
     \/ /\ ~Open(s) \/ (agent /\ (provider = "calendly" \/ Busy(s)))
        /\ Refuses(r)
  /\ UNCHANGED <<row, reminders, calendar, provider, others, history>>

(* The booking to move or to cancel, and its calendar_ref, as they are now; a   *)
(* new booking has none.                                                      *)
ReadPrevious(r) ==
  LET q == request[r] IN
  /\ Doing(r, "read")
  /\ \E e \in Soonest(q.kind) \union IF q.kind = "drop" THEN {} ELSE {NoEvent} :
       request' = [request EXCEPT ![r].at = IF q.kind = "drop" /\ e = NoEvent THEN Ended ELSE @ + 1,
                                  ![r].previous = e,
                                  ![r].ref = e # NoEvent /\ row[e].ref]
  /\ UNCHANGED <<row, reminders, calendar, provider, others, history>>

CreateEvent(r) ==
  LET q == request[r] IN
  /\ Doing(r, "insert")
  /\ IF SlotFree(q.slot, r)
     THEN /\ row' = [row EXCEPT ![r] = [status |-> "booked", slot |-> q.slot,
                                        visitor |-> q.kind = "widget", ref |-> FALSE]]
          /\ Goes(r)
     ELSE Refuses(r) /\ UNCHANGED row
  /\ UNCHANGED <<reminders, calendar, provider, others, history>>

(* create_reminder_jobs: rows that are there already stay as they are.        *)
Reminded(e) == IF reminders[e] = "none" THEN [reminders EXCEPT ![e] = "pending"] ELSE reminders
CreateReminders(r) ==
  /\ Doing(r, "remind")
  /\ reminders' = Reminded(r)
  /\ Goes(r)
  /\ UNCHANGED <<row, calendar, provider, others, history>>

(* cancel_event: of a booking that still stands.                              *)
CancelledUnguarded(e) == [row EXCEPT ![e].status = "cancelled"]
Cancelled(e) == IF Booked(e) THEN [row EXCEPT ![e].status = "cancelled"] ELSE row

(* The calendar takes the event, refuses it, or takes it and its answer is     *)
(* lost; whatever raises deletes the row, and its reminders with it.          *)
SyncFailedAfterMove(r) ==
  /\ row' = [e \in Events |-> IF e = request[r].previous THEN Cancelled(e)[e]
                              ELSE IF e = r THEN [row[r] EXCEPT !.status = "none"] ELSE row[e]]
  /\ reminders' = [reminders EXCEPT ![r] = "none"]
  /\ Ends(r)
SyncFailedKeepingRow(r) == UNCHANGED <<row, reminders>> /\ Ends(r)
SyncFailed(r) ==
  /\ row' = [row EXCEPT ![r].status = "none"]
  /\ reminders' = [reminders EXCEPT ![r] = "none"]
  /\ Ends(r)

SyncToCalendar(r, answer) ==
  /\ Doing(r, "sync")
  /\ \/ /\ provider = "none" /\ answer = "refused"
        /\ UNCHANGED <<row, reminders, calendar, strays>> /\ Goes(r)
     \/ /\ provider = "connected" /\ answer = "accepted"
        /\ calendar' = calendar \union {r}
        /\ UNCHANGED <<row, reminders, strays>> /\ Goes(r)
     \/ /\ provider = "connected" /\ answer = "lost"
        /\ calendar' = calendar \union {r} /\ strays' = strays \union {r}
        /\ SyncFailed(r)
     \/ /\ provider # "none" /\ answer = "refused"
        /\ UNCHANGED <<calendar, strays>>
        /\ SyncFailed(r)
  /\ UNCHANGED <<provider, others, faults, died, dropped>>

(* update_event_calendar_ref, whatever has become of the row.                 *)
SaveRef(r) ==
  /\ Doing(r, "ref")
  /\ row' = IF r \in calendar THEN [row EXCEPT ![r].ref = TRUE] ELSE row
  /\ strays' = IF r \in calendar /\ ~Booked(r) THEN strays \union {r} ELSE strays
  /\ Goes(r)
  /\ UNCHANGED <<reminders, calendar, provider, others, faults, died, dropped>>

(* The booking is final: the outreach plan of the person stops (meeting_booked),*)
(* the lead is linked, and the confirmation and the notice to the calendar's    *)
(* owner are queued, each of them best effort.                                *)
Announce(r) ==
  /\ Doing(r, "announce")
  /\ announced' = announced \union {r}
  /\ GoesOrEnds(r)
  /\ UNCHANGED <<row, reminders, calendar, provider, over, invitee, inOrder, history>>

-----------------------------------------------------------------------------
(* Only the widget takes the calendar event of the booking it moved back, and   *)
(* only by the reference it had read.                                         *)
CancelPrevious(r) ==
  LET q == request[r] IN
  /\ Doing(r, "cancel")
  /\ row' = Cancelled(q.previous)
  /\ strays' = IF q.kind = "widget" /\ q.ref THEN strays ELSE strays \union {q.previous}
  /\ dropped' = (dropped \/ q.kind = "drop")
  /\ GoesOrEnds(r)
  /\ UNCHANGED <<reminders, calendar, provider, others, faults, died>>

SkipReminders(r) ==
  LET e == request[r].previous IN
  /\ Doing(r, "skip")
  /\ reminders' = [reminders EXCEPT ![e] = IF @ = "pending" THEN "skipped" ELSE @]
  /\ GoesOrEnds(r)
  /\ UNCHANGED <<row, calendar, provider, others, history>>

RemoveOld(q) == IF q.ref /\ provider = "connected" THEN calendar \ {q.previous} ELSE calendar
RemoveCalendarEvent(r) ==
  /\ Doing(r, "remove")
  /\ calendar' = RemoveOld(request[r])
  /\ Ends(r)
  /\ UNCHANGED <<row, reminders, provider, others, history>>

(* The process dies, or a statement of the cleanup raises: the rest is left.   *)
(* Before its first write a request that dies leaves no trace.                *)
LoseRequest(r) ==
  /\ InFlight(r) /\ faults < FaultBound
  /\ row[r].status # "none" \/ Doing(r, "skip")
  /\ faults' = faults + 1
  /\ died' = died \union {r, request[r].previous}
  /\ Ends(r)
  /\ UNCHANGED <<row, reminders, calendar, provider, others, strays, dropped>>

-----------------------------------------------------------------------------
(* record_form_booking: one statement, no reminders, no calendar.             *)
RecordFormBooking(f, s) ==
  /\ row[f] = NoRow /\ s \in Slots \ over /\ SlotFree(s, f)
  /\ row' = [row EXCEPT ![f].status = "booked", ![f].slot = s]
  /\ UNCHANGED <<reminders, calendar, provider, request, others, history>>

(* Calendly's side, and its webhooks: each delivered after the fact, at any    *)
(* time, in any order and any number of times.                                *)
Invite(u, s) ==
  /\ provider # "connected" /\ invitee[u] = "none" /\ s \in Slots \ over
  /\ invitee' = [invitee EXCEPT ![u] = "created"]
  /\ row' = [row EXCEPT ![u].slot = s]
  /\ UNCHANGED <<reminders, calendar, provider, request, announced, over, inOrder, history>>
Withdraw(u) ==
  /\ invitee[u] = "created"
  /\ invitee' = [invitee EXCEPT ![u] = "canceled"]
  /\ UNCHANGED <<row, reminders, calendar, provider, request, announced, over, inOrder, history>>

(* ingest_calendly_event: an upsert that books the row whatever its status; a  *)
(* conflict with another booking of the slot raises and stores nothing.       *)
Upsert(u, known) == [row EXCEPT ![u].status = "booked", ![u].visitor = @ \/ known, ![u].ref = TRUE]
HearCreated(u, known) ==
  /\ invitee[u] # "none" /\ SlotFree(row[u].slot, u)
  /\ row' = Upsert(u, known)
  /\ reminders' = Reminded(u)
  /\ inOrder' = inOrder \ {u}
  /\ UNCHANGED <<calendar, provider, request, announced, over, invitee, history>>
(* cancel_calendly_event: also over a meeting that has its outcome already.    *)
CancelledByCalendlyNever(u) == row
CancelledByCalendly(u) == IF row[u].status = "none" THEN row ELSE [row EXCEPT ![u].status = "cancelled"]
HearCanceled(u) ==
  /\ invitee[u] = "canceled"
  /\ row' = CancelledByCalendly(u)
  /\ inOrder' = IF row[u].status = "none" THEN inOrder ELSE inOrder \union {u}
  /\ dropped' = TRUE
  /\ UNCHANGED <<reminders, calendar, provider, request, announced, over, invitee, faults, died, strays>>

(* Time, and set_meeting_outcome by the staff.                                *)
Pass(s) ==
  /\ s \in Slots \ over /\ \A t \in Slots : t < s => t \in over
  /\ over' = over \union {s}
  /\ UNCHANGED <<row, reminders, calendar, provider, request, announced, invitee, inOrder, history>>
SetOutcome(e) ==
  /\ Booked(e) /\ row[e].slot \in over
  /\ row' = [row EXCEPT ![e].status = "held"]
  /\ UNCHANGED <<reminders, calendar, provider, request, others, history>>

Next ==
  \/ \E r \in Requests :
       \/ \E kind \in Kinds : Start(r, kind)
       \/ \E s \in Slots : CheckSlot(r, s)
       \/ ReadPrevious(r) \/ CreateEvent(r) \/ CreateReminders(r)
       \/ \E answer \in {"accepted", "refused", "lost"} : SyncToCalendar(r, answer)
       \/ SaveRef(r) \/ Announce(r) \/ CancelPrevious(r) \/ SkipReminders(r) \/ RemoveCalendarEvent(r)
       \/ LoseRequest(r)
  \/ \E f \in Forms, s \in Slots : RecordFormBooking(f, s)
  \/ \E u \in Uuids :
       \/ \E s \in Slots : Invite(u, s)
       \/ Withdraw(u) \/ HearCanceled(u)
       \/ \E known \in BOOLEAN : HearCreated(u, known)
  \/ \E s \in Slots : Pass(s)
  \/ \E e \in Events : SetOutcome(e)

Spec == Init /\ [][Next]_vars

-----------------------------------------------------------------------------
(* The rows, requests and Calendly's records have their types.                *)
TypeOK ==
  /\ row \in [Events -> Row]
  /\ reminders \in [Events -> {"none", "pending", "skipped"}]
  /\ calendar \subseteq Requests /\ strays \subseteq Events \union {NoEvent}
  /\ died \subseteq Events \union {NoEvent}
  /\ provider \in {"none", "connected", "calendly"}
  /\ request \in [Requests -> Request]
  /\ announced \subseteq Requests /\ over \subseteq Slots
  /\ invitee \in [Uuids -> {"none", "created", "canceled"}]
  /\ inOrder \subseteq Uuids
  /\ faults \in 0..FaultBound /\ dropped \in BOOLEAN

(* The rows as an agenda: whoever books, moves, cancels or is rolled back, and *)
(* whatever Calendly repeats, a slot passes from one booking to another only   *)
(* by being free in between (book_slot, _try_book, _book, record_form_booking, *)
(* ingest_calendly_event against the partial unique index).                   *)
Held == {<<row[e].slot, e>> : e \in {f \in Events : Booked(f)}}
A == INSTANCE Agenda WITH held <- Held
IsAgenda == A!Spec

(* Two people are never booked into one slot (migration 0018's index).         *)
OneBookingPerSlot ==
  \A e, f \in Events : Booked(e) /\ Booked(f) /\ row[e].slot = row[f].slot => e = f

Confirmed(r) == request[r].at = Ended /\ request[r].kind # "drop" /\ r \notin died

(* Rows and calendar agree, both ways (book_slot, _try_book, _book).  A booking *)
(* that was confirmed and still stands is in the connected calendar and has    *)
(* its reminders, and what was announced is never rolled back: whatever failed *)
(* before took the row back, and only a request that died half-way leaves      *)
(* less.  An event without a booking stays in the calendar only while the      *)
(* request that owns or moves it is at work, or where the code cannot take it  *)
(* back: the calendar's answer was lost, an agent or the person cancelled it,  *)
(* or its reference was not yet there to be read.                             *)
CalendarAgrees ==
  /\ \A r \in Requests : Confirmed(r) /\ Booked(r) =>
       /\ reminders[r] = "pending"
       /\ provider = "connected" => r \in calendar
  /\ \A r \in announced : row[r].status # "none"
  /\ \A e \in calendar \ (strays \union died) :
       \/ row[e].status \in {"booked", "held"}
       \/ \E r \in Requests : InFlight(r) /\ e \in {r, request[r].previous}

(* Moving a booking never costs a person both: of moves that overlap, fail, or *)
(* are rolled back, one booking remains; and a move that is through has        *)
(* cancelled the booking it moved.                                            *)
MoveKeepsABooking ==
  \A r \in Requests : LET q == request[r] IN
    q.kind # "drop" /\ q.previous # NoEvent =>
      /\ row[q.previous].status = "cancelled" /\ ~dropped =>
           \E e \in Events : row[e].status \in {"booked", "held"}
      /\ Confirmed(r) /\ Booked(r) /\ q.previous \notin Uuids => ~Booked(q.previous)

(* A meeting that was held, or missed, keeps its outcome: a move or a          *)
(* cancellation that had read it as booked does not undo it (cancel_event).    *)
(* Only Calendly's own rows may still be cancelled or booked anew, and a        *)
(* booking that is over before its request has confirmed it be rolled back.   *)
OutcomeSticks ==
  [][\A e \in Requests \union Forms :
       row[e].status = "held" /\ (e \in Requests => ~InFlight(e)) => row'[e].status = "held"]_vars

(* An invitee's cancellation that is processed after the booking was recorded  *)
(* frees the slot for good, unless created is delivered again afterwards.      *)
CalendlyCancelSticks ==
  \A u \in Uuids : u \in inOrder => ~Booked(u)
=============================================================================
