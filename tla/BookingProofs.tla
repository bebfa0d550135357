---------------------------- MODULE BookingProofs ----------------------------
(***************************************************************************)
(* What Booking promises for any requests, forms, invitees and slots: types, *)
(* no double booking and the agenda (IInv); then, from what each request has  *)
(* read, done and left to do (MoveInv), that rows and calendar agree and that *)
(* moves keep a booking; then outcomes and Calendly's cancellations.          *)
(***************************************************************************)
EXTENDS Booking, TLAPS

(* Where a request checks its slot, reads the previous booking, and inserts.   *)
LEMMA StepPlaces ==
  ASSUME NEW k \in Kinds, NEW i \in 1..Len(Path[k])
  PROVE  /\ i <= 10
         /\ Path[k][i] = "insert" => k # "drop" /\ i = 3
         /\ Path[k][i] = "check" => i = IF k = "widget" THEN 1 ELSE 2
         /\ i = 1 => Path[k][i] = IF k = "widget" THEN "check" ELSE "read"
         /\ i = 2 /\ k # "drop" => Path[k][i] = IF k = "widget" THEN "read" ELSE "check"
<1>1. CASE k = "widget"
  <2>1. Path[k] = <<"check", "read", "insert", "remind", "sync", "ref", "announce", "cancel", "skip", "remove">>
    BY <1>1 DEF Path
  <2> QED BY <2>1, <1>1
<1>2. CASE k = "email"
  <2>1. Path[k] = <<"read", "check", "insert", "remind", "sync", "ref", "announce", "cancel", "skip">>
    BY <1>2 DEF Path
  <2> QED BY <2>1, <1>2
<1>3. CASE k = "call"
  <2>1. Path[k] = <<"read", "check", "insert", "remind", "sync", "ref", "announce", "cancel">>
    BY <1>3 DEF Path
  <2> QED BY <2>1, <1>3
<1>4. CASE k = "drop"
  <2>1. Path[k] = <<"read", "cancel", "skip">>
    BY <1>4 DEF Path
  <2> QED BY <2>1, <1>4
<1> QED BY <1>1, <1>2, <1>3, <1>4 DEF Kinds

-----------------------------------------------------------------------------
(* A request that has reached its insert has an open slot in hand, ...         *)
Chosen(q) == (q.kind # "drop" /\ q.at = 3) \/ (q.kind = "widget" /\ q.at = 2) => q.slot \in Slots
SlotChosen == \A r \in Requests : Chosen(request[r])
(* ... and no row of its own before it.                                       *)
RowAfterInsert == \A r \in Requests : row[r].status # "none" => request[r].at >= 4
(* Rows have slots, and Calendly's rows an invitee.                           *)
RowsHaveSlots ==
  /\ \A e \in Events : row[e].status # "none" => row[e].slot \in Slots
  /\ \A u \in Uuids : /\ invitee[u] # "none" => row[u].slot \in Slots
                      /\ invitee[u] = "none" => row[u].status = "none"

IInv == TypeOK /\ SlotChosen /\ RowAfterInsert /\ RowsHaveSlots /\ OneBookingPerSlot

(* What a step that writes one row may do to the agenda.                       *)
Fits(e, z) ==
  z.status = "booked" => /\ z.slot \in Slots
                         /\ IF Booked(e) THEN z.slot = row[e].slot ELSE SlotFree(z.slot, e)

LEMMA OneRow ==
  ASSUME row \in [Events -> Row], OneBookingPerSlot,
         \A e \in Events : row[e].status # "none" => row[e].slot \in Slots,
         NEW e \in Events, NEW z \in Row,
         row' = [row EXCEPT ![e] = z], Fits(e, z)
  PROVE  row' \in [Events -> Row] /\ OneBookingPerSlot' /\ [A!Next]_Held
<1>1. row' \in [Events -> Row] /\ row'[e] = z /\ \A f \in Events \ {e} : row'[f] = row[f]
  OBVIOUS
<1>2. OneBookingPerSlot'
  <2> SUFFICES ASSUME NEW f \in Events, NEW g \in Events, Booked(f)', Booked(g)',
                      row'[f].slot = row'[g].slot, f # g
               PROVE  FALSE
    BY DEF OneBookingPerSlot
  <2>1. CASE f # e /\ g # e
    BY <2>1, <1>1 DEF OneBookingPerSlot, Booked
  <2>2. CASE f = e
    BY <2>2, <1>1 DEF OneBookingPerSlot, Booked, Fits, SlotFree
  <2>3. CASE g = e
    BY <2>3, <1>1 DEF OneBookingPerSlot, Booked, Fits, SlotFree
  <2> QED BY <2>1, <2>2, <2>3
<1>3. [A!Next]_Held
  <2>1. CASE Booked(e) /\ z.status = "booked"
    <3>1. \A f \in Events : (Booked(f)' <=> Booked(f)) /\ (Booked(f) => row'[f].slot = row[f].slot)
      BY <2>1, <1>1 DEF Booked, Fits
    <3>2. Held' = Held
      BY <3>1 DEF Held
    <3> QED BY <3>2
  <2>2. CASE ~Booked(e) /\ z.status # "booked"
    <3>1. \A f \in Events : (Booked(f)' <=> Booked(f)) /\ (Booked(f) => row'[f].slot = row[f].slot)
      BY <2>2, <1>1 DEF Booked
    <3>2. Held' = Held
      BY <3>1 DEF Held
    <3> QED BY <3>2
  <2>3. CASE Booked(e) /\ z.status # "booked"
    <3>1. <<row[e].slot, e>> \in Held /\ row[e].slot \in Slots
      BY <2>3 DEF Held, Booked
    <3>2. \A f \in Events : Booked(f)' <=> Booked(f) /\ f # e
      BY <2>3, <1>1 DEF Booked
    <3>3. \A f \in Events : Booked(f)' => row'[f].slot = row[f].slot
      BY <3>2, <1>1
    <3>4. Held' = Held \ {<<row[e].slot, e>>}
      BY <3>2, <3>3 DEF Held
    <3> QED BY <3>1, <3>4 DEF A!Next, A!Release
  <2>4. CASE ~Booked(e) /\ z.status = "booked"
    <3>1. \A h \in Held : h[1] # z.slot /\ h[2] # e
      BY <2>4 DEF Held, Fits, SlotFree
    <3>2. \A f \in Events : Booked(f)' <=> Booked(f) \/ f = e
      BY <2>4, <1>1 DEF Booked
    <3>3. Held' = Held \union {<<z.slot, e>>}
      BY <3>2, <1>1, <2>4 DEF Held
    <3> QED BY <3>1, <3>3, <2>4 DEF A!Next, A!Take, Fits
  <2> QED BY <2>1, <2>2, <2>3, <2>4
<1> QED BY <1>1, <1>2, <1>3

LEMMA NoRowWritten ==
  ASSUME row' = row, OneBookingPerSlot
  PROVE  OneBookingPerSlot' /\ [A!Next]_Held
BY DEF OneBookingPerSlot, Held, Booked

-----------------------------------------------------------------------------
(* A request only goes forward, and passes its insert with a slot in hand.     *)
Forward(r) ==
  /\ request' \in [Requests -> Request]
  /\ SlotChosen'
  /\ \A x \in Requests : request'[x].at >= request[x].at

LEMMA Moves ==
  ASSUME request \in [Requests -> Request], SlotChosen, NEW r \in Requests, NEW q2 \in Request,
         request' = [request EXCEPT ![r] = q2], Chosen(q2), q2.at >= request[r].at
  PROVE  Forward(r)
BY DEF Forward, SlotChosen, Chosen, Request

LEMMA Later ==
  ASSUME request \in [Requests -> Request], SlotChosen, NEW r \in Requests, NEW step, Doing(r, step),
         step # "check", Goes(r) \/ Ends(r)
  PROVE  Forward(r)
<1> DEFINE q == request[r]
<1>1. q \in Request /\ q.kind \in Kinds /\ q.at \in 1..Len(Path[q.kind]) /\ Path[q.kind][q.at] = step
  BY DEF Doing, Request
<1>2. q.at \in Nat /\ q.at <= 10 /\ (q.at = 1 => q.kind # "widget") /\ (q.at = 2 => q.kind \in {"widget", "drop"})
  BY <1>1, StepPlaces DEF Request
<1>3. Chosen(q)
  BY DEF SlotChosen
<1>4. CASE Goes(r)
  <2> DEFINE q2 == [q EXCEPT !.at = @ + 1]
  <2>1. request' = [request EXCEPT ![r] = q2]
    BY <1>4 DEF Goes
  <2>2. q2 \in Request /\ q2.at >= q.at /\ Chosen(q2)
    BY <1>1, <1>2, <1>3 DEF Request, Chosen
  <2> HIDE DEF q2
  <2> QED BY <2>1, <2>2, Moves
<1>5. CASE Ends(r)
  <2> DEFINE q2 == [q EXCEPT !.at = Ended, !.slot = 0, !.ref = FALSE]
  <2>1. request' = [request EXCEPT ![r] = q2]
    BY <1>5 DEF Ends
  <2>2. q2 \in Request /\ q2.at = 11
    BY <1>1 DEF Request, Ended
  <2>3. q2.at >= q.at /\ Chosen(q2)
    BY <1>2, <2>2 DEF Chosen
  <2> HIDE DEF q2
  <2> QED BY <2>1, <2>2, <2>3, Moves
<1> QED BY <1>4, <1>5

LEMMA Refused ==
  ASSUME request \in [Requests -> Request], SlotChosen, NEW r \in Requests, NEW step, Doing(r, step),
         Refuses(r)
  PROVE  Forward(r)
<1> DEFINE q2 == Idle(Ended)
<1>1. request' = [request EXCEPT ![r] = q2]
  BY DEF Refuses
<1>2. request[r].kind \in Kinds /\ request[r].at \in 1..Len(Path[request[r].kind])
  BY DEF Doing, Request
<1>3. request[r].at \in Nat /\ request[r].at <= 10
  BY <1>2, StepPlaces
<1>4. q2.at = 11
  BY DEF Ended, Idle
<1>5. q2 \in Request
  BY DEF Request, Kinds, Ended, Idle
<1>6. q2.at >= request[r].at /\ Chosen(q2)
  BY <1>3, <1>4 DEF Chosen
<1> HIDE DEF q2
<1> QED BY <1>1, <1>5, <1>6, Moves

-----------------------------------------------------------------------------
(* The steps that write no row.                                               *)
Kept == IInv' /\ [A!Next]_Held

LEMMA KeptWithoutRow ==
  ASSUME IInv, UNCHANGED <<row, invitee>>, TypeOK', SlotChosen',
         \A r \in Requests : request'[r].at >= request[r].at
  PROVE  Kept
<1>1. OneBookingPerSlot' /\ [A!Next]_Held
  BY NoRowWritten DEF IInv
<1>2. \A r \in Requests : request[r].at \in Nat /\ request'[r].at \in Nat
  BY DEF IInv, TypeOK, Request
<1>3. RowAfterInsert' /\ RowsHaveSlots'
  BY <1>2 DEF IInv, RowAfterInsert, RowsHaveSlots
<1> QED BY <1>1, <1>3 DEF Kept, IInv

LEMMA StartKeeps ==
  ASSUME IInv, NEW r \in Requests, NEW kind \in Kinds, Start(r, kind)
  PROVE  Kept
<1> DEFINE q2 == [request[r] EXCEPT !.kind = kind, !.at = 1]
<1>1. request' = [request EXCEPT ![r] = q2]
  BY DEF Start
<1>2. request[r] \in Request /\ request[r].at = 0
  BY DEF Start, Unborn, Idle, IInv, TypeOK
<1>3. q2 \in Request /\ q2.at = 1
  BY <1>2 DEF Request
<1>4. q2.at >= request[r].at /\ Chosen(q2)
  BY <1>2, <1>3 DEF Chosen
<1> HIDE DEF q2
<1>5. Forward(r)
  BY <1>1, <1>3, <1>4, Moves DEF IInv, TypeOK
<1>6. TypeOK'
  BY <1>5 DEF Start, IInv, TypeOK, Forward, others, history
<1> QED BY <1>5, <1>6, KeptWithoutRow DEF Start, Forward, others, history

LEMMA CheckSlotKeeps ==
  ASSUME IInv, NEW r \in Requests, NEW s \in Slots, CheckSlot(r, s)
  PROVE  Kept
<1>1. Forward(r)
  <2>1. CASE Refuses(r)
    BY <2>1, Refused DEF CheckSlot, IInv, TypeOK
  <2>2. CASE request' = [request EXCEPT ![r].at = @ + 1, ![r].slot = s]
    <3> DEFINE at2 == request[r].at + 1
               q2 == [request[r] EXCEPT !.at = at2, !.slot = s]
    <3>1. request' = [request EXCEPT ![r] = q2]
      BY <2>2
    <3>2. request[r] \in Request
      BY DEF IInv, TypeOK
    <3>5. at2 \in Nat /\ at2 >= request[r].at
      BY <3>2 DEF Request
    <3> HIDE DEF at2
    <3>3. q2 \in Request /\ q2.at >= request[r].at /\ q2.slot = s
      BY <3>2, <3>5 DEF Request
    <3>4. Chosen(q2)
      BY <3>3 DEF Chosen
    <3> HIDE DEF q2
    <3> QED BY <3>1, <3>3, <3>4, Moves DEF IInv, TypeOK
  <2> QED BY <2>1, <2>2 DEF CheckSlot
<1>2. TypeOK'
  BY <1>1 DEF CheckSlot, IInv, TypeOK, Forward, others, history
<1> QED BY <1>1, <1>2, KeptWithoutRow DEF CheckSlot, Forward, others, history

LEMMA ReadPreviousKeeps ==
  ASSUME IInv, NEW r \in Requests, ReadPrevious(r)
  PROVE  Kept
<1> DEFINE q == request[r]
<1>1. PICK e \in Soonest(q.kind) \union IF q.kind = "drop" THEN {} ELSE {NoEvent} :
        request' = [request EXCEPT ![r].at = IF q.kind = "drop" /\ e = NoEvent THEN Ended ELSE @ + 1,
                                   ![r].previous = e,
                                   ![r].ref = e # NoEvent /\ row[e].ref]
  BY DEF ReadPrevious
<1>2. e \in Events \union {NoEvent}
  BY DEF Soonest, Upcoming
<1> DEFINE at2 == IF q.kind = "drop" /\ e = NoEvent THEN Ended ELSE q.at + 1
           ref2 == e # NoEvent /\ row[e].ref
           q2 == [q EXCEPT !.at = at2, !.previous = e, !.ref = ref2]
<1>3. request' = [request EXCEPT ![r] = q2]
  BY <1>1
<1>4. q \in Request /\ q.kind \in Kinds /\ q.at \in 1..Len(Path[q.kind]) /\ Path[q.kind][q.at] = "read"
  BY DEF ReadPrevious, Doing, IInv, TypeOK, Request
<1>5. q.at \in Nat /\ q.at <= 10 /\ (q.at = 1 => q.kind # "widget") /\ (q.at = 2 => q.kind \in {"widget", "drop"})
  BY <1>4, StepPlaces DEF Request
<1>6. ref2 \in BOOLEAN
  BY <1>2 DEF IInv, TypeOK, Row
<1>7. at2 \in Nat /\ at2 >= q.at /\ (at2 = q.at + 1 \/ at2 = 11)
  BY <1>5 DEF Ended
<1> HIDE DEF at2, ref2
<1>8. q2 \in Request /\ q2.at = at2 /\ q2.kind = q.kind /\ q2.slot = q.slot
  BY <1>2, <1>4, <1>6, <1>7 DEF Request
<1>9. Chosen(q)
  BY DEF IInv, SlotChosen
<1>10. Chosen(q2)
  BY <1>5, <1>7, <1>8, <1>9 DEF Chosen
<1> HIDE DEF q2
<1>11. Forward(r)
  BY <1>3, <1>7, <1>8, <1>10, Moves DEF IInv, TypeOK
<1>12. TypeOK'
  BY <1>11 DEF ReadPrevious, IInv, TypeOK, Forward, others, history
<1> QED BY <1>11, <1>12, KeptWithoutRow DEF ReadPrevious, Forward, others, history

LEMMA Cleaned ==
  ASSUME IInv, NEW r \in Requests, NEW step, Doing(r, step), step # "check", GoesOrEnds(r) \/ Goes(r) \/ Ends(r)
  PROVE  Forward(r)
BY Later DEF GoesOrEnds, IInv, TypeOK

LEMMA CreateRemindersKeeps ==
  ASSUME IInv, NEW r \in Requests, CreateReminders(r)
  PROVE  Kept
<1>1. Forward(r)
  BY Cleaned DEF CreateReminders
<1>2. reminders' \in [Events -> {"none", "pending", "skipped"}]
  BY DEF CreateReminders, Reminded, IInv, TypeOK
<1>3. TypeOK'
  BY <1>1, <1>2 DEF CreateReminders, IInv, TypeOK, Forward, others, history
<1> QED BY <1>1, <1>3, KeptWithoutRow DEF CreateReminders, Forward, others, history

LEMMA AnnounceKeeps ==
  ASSUME IInv, NEW r \in Requests, Announce(r)
  PROVE  Kept
<1>1. Forward(r)
  BY Cleaned DEF Announce
<1>2. TypeOK'
  BY <1>1 DEF Announce, IInv, TypeOK, Forward, history
<1> QED BY <1>1, <1>2, KeptWithoutRow DEF Announce, Forward, history

LEMMA SkipRemindersKeeps ==
  ASSUME IInv, NEW r \in Requests, SkipReminders(r)
  PROVE  Kept
<1>1. Forward(r)
  BY Cleaned DEF SkipReminders
<1>2. reminders' \in [Events -> {"none", "pending", "skipped"}]
  BY DEF SkipReminders, IInv, TypeOK
<1>3. TypeOK'
  BY <1>1, <1>2 DEF SkipReminders, IInv, TypeOK, Forward, others, history
<1> QED BY <1>1, <1>3, KeptWithoutRow DEF SkipReminders, Forward, others, history

LEMMA RemoveCalendarEventKeeps ==
  ASSUME IInv, NEW r \in Requests, RemoveCalendarEvent(r)
  PROVE  Kept
<1>1. Forward(r)
  BY Cleaned DEF RemoveCalendarEvent
<1>2. calendar' \subseteq Requests
  BY DEF RemoveCalendarEvent, RemoveOld, IInv, TypeOK
<1>3. TypeOK'
  BY <1>1, <1>2 DEF RemoveCalendarEvent, IInv, TypeOK, Forward, others, history
<1> QED BY <1>1, <1>3, KeptWithoutRow DEF RemoveCalendarEvent, Forward, others, history

LEMMA LoseRequestKeeps ==
  ASSUME IInv, NEW r \in Requests, LoseRequest(r)
  PROVE  Kept
<1> DEFINE q2 == [request[r] EXCEPT !.at = Ended, !.slot = 0, !.ref = FALSE]
<1>1. request' = [request EXCEPT ![r] = q2]
  BY DEF LoseRequest, Ends
<1>2. request[r] \in Request /\ request[r].at \in 1..10 /\ request[r].previous \in Events \union {NoEvent}
  BY DEF LoseRequest, InFlight, IInv, TypeOK, Request
<1>3. q2 \in Request /\ q2.at = 11
  BY <1>2 DEF Request, Ended
<1>4. Chosen(q2) /\ q2.at >= request[r].at
  BY <1>2, <1>3 DEF Chosen
<1> HIDE DEF q2
<1>5. Forward(r)
  BY <1>1, <1>3, <1>4, Moves DEF IInv, TypeOK
<1>6. faults' \in 0..FaultBound
  BY BookingAssumption DEF LoseRequest, IInv, TypeOK
<1>7. TypeOK'
  BY <1>2, <1>5, <1>6 DEF LoseRequest, IInv, TypeOK, Forward, others, Events
<1> QED BY <1>5, <1>7, KeptWithoutRow DEF LoseRequest, Forward, others

LEMMA PassKeeps ==
  ASSUME IInv, NEW s \in Slots, Pass(s)
  PROVE  Kept
<1>1. TypeOK' /\ SlotChosen'
  BY DEF Pass, IInv, TypeOK, SlotChosen, history
<1>2. \A r \in Requests : request'[r].at >= request[r].at
  BY DEF Pass, IInv, TypeOK, Request
<1> QED BY <1>1, <1>2, KeptWithoutRow DEF Pass

-----------------------------------------------------------------------------
(* The steps that write a row.  No row appears out of nothing but in the four  *)
(* lemmas below that say so.                                                  *)
LEMMA KeptWithRow ==
  ASSUME IInv, UNCHANGED invitee, TypeOK', SlotChosen',
         \A r \in Requests : request'[r].at >= request[r].at,
         NEW e \in Events, NEW z \in Row, row' = [row EXCEPT ![e] = z], Fits(e, z),
         z.slot = row[e].slot \/ (e \notin Uuids /\ z.slot \in Slots),
         z.status # "none" => \/ row[e].status # "none"
                              \/ /\ z.slot \in Slots
                                 /\ e \in Requests => request'[e].at >= 4
                                 /\ e \in Uuids => invitee[e] # "none"
  PROVE  Kept
<1>1. row' \in [Events -> Row] /\ OneBookingPerSlot' /\ [A!Next]_Held
  BY OneRow DEF IInv, TypeOK, RowsHaveSlots
<1>2. row'[e] = z /\ \A f \in Events \ {e} : row'[f] = row[f]
  BY DEF IInv, TypeOK
<1>3. \A r \in Requests : request[r].at \in Nat /\ request'[r].at \in Nat
  BY DEF IInv, TypeOK, Request
<1>4. RowAfterInsert'
  BY <1>2, <1>3 DEF IInv, RowAfterInsert, Events
<1>5. RowsHaveSlots'
  BY <1>2 DEF IInv, RowsHaveSlots, Events
<1> QED BY <1>1, <1>4, <1>5 DEF Kept, IInv

LEMMA CreateEventKeeps ==
  ASSUME IInv, NEW r \in Requests, CreateEvent(r)
  PROVE  Kept
<1> DEFINE q == request[r]
<1>1. q \in Request /\ Doing(r, "insert") /\ q.kind \in Kinds /\ q.at \in 1..Len(Path[q.kind]) /\ Path[q.kind][q.at] = "insert"
  BY DEF CreateEvent, Doing, IInv, TypeOK, Request
<1>2. q.at = 3 /\ q.slot \in Slots
  BY <1>1, StepPlaces DEF IInv, SlotChosen, Chosen
<1>3. row[r].status = "none" /\ r \in Events
  BY <1>2 DEF IInv, RowAfterInsert, Events
<1>4. CASE SlotFree(q.slot, r)
  <2> DEFINE z == [status |-> "booked", slot |-> q.slot, visitor |-> q.kind = "widget", ref |-> FALSE]
  <2>1. row' = [row EXCEPT ![r] = z] /\ Goes(r) /\ UNCHANGED <<reminders, calendar, provider, others, history>>
    BY <1>4 DEF CreateEvent
  <2>2. z \in Row /\ z.slot = q.slot /\ z.status = "booked"
    BY <1>2 DEF Row, RowStatus
  <2> HIDE DEF z
  <2>3. Forward(r)
    BY <1>1, <2>1, Cleaned
  <2>4. request'[r].at >= 4
    BY <1>2, <2>1 DEF Goes, IInv, TypeOK, Request
  <2>5. row' \in [Events -> Row]
    BY <1>3, <2>1, <2>2 DEF IInv, TypeOK
  <2>6. TypeOK'
    BY <2>1, <2>3, <2>5 DEF IInv, TypeOK, Forward, others, history
  <2>7. Fits(r, z)
    BY <1>2, <1>3, <1>4, <2>2 DEF Fits, Booked
  <2>8. r \notin Uuids
    BY BookingAssumption
  <2>9. UNCHANGED invitee
    BY <2>1 DEF others
  <2>10. \A x \in Requests : request'[x].at >= request[x].at
    BY <2>3 DEF Forward
  <2>11. SlotChosen'
    BY <2>3 DEF Forward
  <2>12. row' = [row EXCEPT ![r] = z] /\ z.slot \in Slots
    BY <1>2, <2>1, <2>2
  <2> QED BY <1>3, <2>2, <2>4, <2>6, <2>7, <2>8, <2>9, <2>10, <2>11, <2>12, KeptWithRow
<1>5. CASE ~SlotFree(q.slot, r)
  <2>1. Refuses(r) /\ row' = row /\ UNCHANGED <<reminders, calendar, provider, others, history>>
    BY <1>5 DEF CreateEvent
  <2>2. Forward(r)
    BY <1>1, <2>1, Refused DEF IInv, TypeOK
  <2>3. TypeOK'
    BY <2>1, <2>2 DEF IInv, TypeOK, Forward, others, history
  <2> QED BY <2>1, <2>2, <2>3, KeptWithoutRow DEF Forward, others
<1> QED BY <1>4, <1>5

LEMMA SyncToCalendarKeeps ==
  ASSUME IInv, NEW r \in Requests, NEW answer, SyncToCalendar(r, answer)
  PROVE  Kept
<1>1. Doing(r, "sync") /\ r \in Events
  BY DEF SyncToCalendar, Events
<1>2. calendar' \subseteq Requests /\ strays' \subseteq Events \union {NoEvent}
  BY <1>1 DEF SyncToCalendar, IInv, TypeOK
<1>3. UNCHANGED <<provider, others, faults, died, dropped>>
  BY DEF SyncToCalendar
<1>4. CASE SyncFailed(r)
  <2> DEFINE z == [row[r] EXCEPT !.status = "none"]
  <2>1. row' = [row EXCEPT ![r] = z] /\ Ends(r) /\ reminders' = [reminders EXCEPT ![r] = "none"]
    BY <1>4 DEF SyncFailed
  <2>2. z \in Row /\ z.slot = row[r].slot /\ z.status = "none"
    BY <1>1 DEF IInv, TypeOK, Row, RowStatus
  <2> HIDE DEF z
  <2>3. Forward(r)
    BY <1>1, <2>1, Cleaned
  <2>4. row' \in [Events -> Row] /\ reminders' \in [Events -> {"none", "pending", "skipped"}]
    BY <1>1, <2>1, <2>2 DEF IInv, TypeOK
  <2>5. TypeOK'
    BY <1>2, <1>3, <2>3, <2>4 DEF IInv, TypeOK, Forward, others
  <2>6. Fits(r, z)
    BY <2>2 DEF Fits
  <2> QED BY <1>1, <1>3, <2>1, <2>2, <2>3, <2>5, <2>6, KeptWithRow DEF Forward, others
<1>5. CASE UNCHANGED <<row, reminders>> /\ Goes(r)
  <2>1. Forward(r)
    BY <1>1, <1>5, Cleaned
  <2>2. TypeOK'
    BY <1>2, <1>3, <1>5, <2>1 DEF IInv, TypeOK, Forward, others
  <2> QED BY <1>3, <1>5, <2>1, <2>2, KeptWithoutRow DEF Forward, others
<1> QED BY <1>4, <1>5 DEF SyncToCalendar

LEMMA SaveRefKeeps ==
  ASSUME IInv, NEW r \in Requests, SaveRef(r)
  PROVE  Kept
<1> DEFINE z == [row[r] EXCEPT !.ref = r \in calendar \/ @]
<1>1. Doing(r, "ref") /\ Goes(r) /\ r \in Events /\ UNCHANGED <<reminders, calendar, provider, others, faults, died, dropped>>
  BY DEF SaveRef, Events
<1>2. row[r] \in Row
  BY <1>1 DEF IInv, TypeOK
<1>3. row' = [row EXCEPT ![r] = z]
  <2>1. CASE r \in calendar
    <3>1. z = [row[r] EXCEPT !.ref = TRUE]
      BY <2>1
    <3> HIDE DEF z
    <3> QED BY <2>1, <3>1 DEF SaveRef
  <2>2. CASE r \notin calendar
    <3>1. z = row[r]
      BY <1>2, <2>2 DEF Row
    <3> HIDE DEF z
    <3> QED BY <1>1, <2>2, <3>1 DEF SaveRef, IInv, TypeOK
  <2> QED BY <2>1, <2>2
<1>4. z \in Row /\ z.slot = row[r].slot /\ z.status = row[r].status
  BY <1>2 DEF Row
<1> HIDE DEF z
<1>5. Forward(r)
  BY <1>1, Cleaned
<1>6. row' \in [Events -> Row] /\ strays' \subseteq Events \union {NoEvent}
  BY <1>1, <1>3, <1>4 DEF SaveRef, IInv, TypeOK
<1>7. TypeOK'
  BY <1>1, <1>5, <1>6 DEF IInv, TypeOK, Forward, others
<1>8. Fits(r, z)
  BY <1>1, <1>4 DEF Fits, Booked, IInv, RowsHaveSlots
<1> QED BY <1>1, <1>3, <1>4, <1>5, <1>7, <1>8, KeptWithRow DEF Forward, others

(* cancel_event of what a request had read, be it there or not.                *)
LEMMA CancelPreviousKeeps ==
  ASSUME IInv, NEW r \in Requests, CancelPrevious(r)
  PROVE  Kept
<1> DEFINE e == request[r].previous
<1>1. Doing(r, "cancel") /\ GoesOrEnds(r) /\ row' = Cancelled(e) /\ e \in Events \union {NoEvent}
      /\ UNCHANGED <<reminders, calendar, provider, others, faults, died>>
  BY DEF CancelPrevious, IInv, TypeOK, Request
<1>2. Forward(r)
  BY <1>1, Cleaned
<1>3. strays' \subseteq Events \union {NoEvent} /\ dropped' \in BOOLEAN
  BY <1>1 DEF CancelPrevious, IInv, TypeOK
<1> HIDE DEF e
<1>4. CASE e \in Events /\ Booked(e)
  <2> DEFINE z == [row[e] EXCEPT !.status = "cancelled"]
  <2>1. row' = [row EXCEPT ![e] = z]
    BY <1>1, <1>4 DEF Cancelled
  <2>2. z \in Row /\ z.slot = row[e].slot /\ z.status = "cancelled"
    BY <1>4 DEF IInv, TypeOK, Row, RowStatus
  <2> HIDE DEF z
  <2>3. row' \in [Events -> Row]
    BY <1>4, <2>1, <2>2 DEF IInv, TypeOK
  <2>4. TypeOK'
    BY <1>1, <1>2, <1>3, <2>3 DEF IInv, TypeOK, Forward, others
  <2>5. Fits(e, z) /\ row[e].status # "none"
    BY <1>4, <2>2 DEF Fits, Booked
  <2> QED BY <1>1, <1>2, <1>4, <2>1, <2>2, <2>4, <2>5, KeptWithRow DEF Forward, others
<1>5. CASE ~(e \in Events /\ Booked(e))
  <2>1. row' = row
    BY <1>1, <1>5 DEF Cancelled, IInv, TypeOK
  <2>2. TypeOK'
    BY <1>1, <1>2, <1>3, <2>1 DEF IInv, TypeOK, Forward, others
  <2> QED BY <1>1, <1>2, <2>1, <2>2, KeptWithoutRow DEF Forward, others
<1> QED BY <1>4, <1>5

LEMMA Standing ==
  ASSUME IInv, UNCHANGED request
  PROVE  SlotChosen' /\ \A r \in Requests : request'[r].at >= request[r].at
BY DEF IInv, TypeOK, Request, SlotChosen

LEMMA RecordFormBookingKeeps ==
  ASSUME IInv, NEW f \in Forms, NEW s \in Slots, RecordFormBooking(f, s)
  PROVE  Kept
<1> DEFINE z == [row[f] EXCEPT !.status = "booked", !.slot = s]
<1>1. row' = [row EXCEPT ![f] = z] /\ f \in Events /\ f \notin Requests /\ f \notin Uuids
  BY BookingAssumption DEF RecordFormBooking, Events
<1>6. row[f] \in Row /\ row[f].status = "none"
  <2>1. row[f] = NoRow /\ row \in [Events -> Row]
    BY DEF RecordFormBooking, IInv, TypeOK
  <2>2. NoRow.status = "none"
    BY DEF NoRow
  <2> QED BY <1>1, <2>1, <2>2
<1>2. z \in Row /\ z.slot = s /\ z.status = "booked" /\ row[f].status = "none"
  BY <1>6 DEF Row, RowStatus
<1> HIDE DEF z
<1>3. TypeOK'
  <2>1. row' \in [Events -> Row]
    BY <1>1, <1>2 DEF IInv, TypeOK
  <2> QED BY <2>1 DEF RecordFormBooking, IInv, TypeOK, others, history
<1>4. Fits(f, z)
  BY <1>2 DEF Fits, Booked, RecordFormBooking
<1>5. UNCHANGED <<request, invitee>>
  BY DEF RecordFormBooking, others
<1> QED BY <1>1, <1>2, <1>3, <1>4, <1>5, Standing, KeptWithRow

LEMMA HearCreatedKeeps ==
  ASSUME IInv, NEW u \in Uuids, NEW known \in BOOLEAN, HearCreated(u, known)
  PROVE  Kept
<1> DEFINE z == [row[u] EXCEPT !.status = "booked", !.visitor = @ \/ known, !.ref = TRUE]
<1>1. row' = [row EXCEPT ![u] = z] /\ u \in Events /\ u \notin Requests /\ invitee[u] # "none"
  BY BookingAssumption DEF HearCreated, Upsert, Events
<1>2. row[u] \in Row /\ row[u].slot \in Slots
  BY <1>1 DEF IInv, TypeOK, RowsHaveSlots
<1>3. z \in Row /\ z.slot = row[u].slot /\ z.status = "booked"
  BY <1>2 DEF Row, RowStatus
<1> HIDE DEF z
<1>4. TypeOK'
  <2>1. row' \in [Events -> Row]
    BY <1>1, <1>3 DEF IInv, TypeOK
  <2>2. reminders' \in [Events -> {"none", "pending", "skipped"}]
    BY <1>1 DEF HearCreated, Reminded, IInv, TypeOK
  <2> QED BY <2>1, <2>2 DEF HearCreated, IInv, TypeOK, history
<1>5. Fits(u, z)
  BY <1>2, <1>3 DEF Fits, HearCreated
<1>6. UNCHANGED <<request, invitee>>
  BY DEF HearCreated
<1> QED BY <1>1, <1>2, <1>3, <1>4, <1>5, <1>6, Standing, KeptWithRow

LEMMA HearCanceledKeeps ==
  ASSUME IInv, NEW u \in Uuids, HearCanceled(u)
  PROVE  Kept
<1>1. UNCHANGED <<request, invitee>> /\ u \in Events
  BY DEF HearCanceled, Events
<1>2. CASE row[u].status # "none"
  <2> DEFINE z == [row[u] EXCEPT !.status = "cancelled"]
  <2>1. row' = [row EXCEPT ![u] = z]
    BY <1>2 DEF HearCanceled, CancelledByCalendly
  <2>2. z \in Row /\ z.slot = row[u].slot /\ z.status = "cancelled"
    BY <1>1 DEF IInv, TypeOK, Row, RowStatus
  <2> HIDE DEF z
  <2>3. row' \in [Events -> Row]
    BY <1>1, <2>1, <2>2 DEF IInv, TypeOK
  <2>4. TypeOK'
    BY <2>3 DEF HearCanceled, IInv, TypeOK
  <2>5. Fits(u, z)
    BY <2>2 DEF Fits
  <2> QED BY <1>1, <1>2, <2>1, <2>2, <2>4, <2>5, Standing, KeptWithRow
<1>3. CASE row[u].status = "none"
  <2>1. row' = row
    BY <1>3 DEF HearCanceled, CancelledByCalendly
  <2>2. TypeOK'
    BY <2>1 DEF HearCanceled, IInv, TypeOK
  <2> QED BY <1>1, <2>1, <2>2, Standing, KeptWithoutRow
<1> QED BY <1>2, <1>3

LEMMA SetOutcomeKeeps ==
  ASSUME IInv, NEW e \in Events, SetOutcome(e)
  PROVE  Kept
<1> DEFINE z == [row[e] EXCEPT !.status = "held"]
<1>1. row' = [row EXCEPT ![e] = z] /\ row[e].status = "booked"
  BY DEF SetOutcome, Booked
<1>2. z \in Row /\ z.slot = row[e].slot /\ z.status = "held"
  BY DEF IInv, TypeOK, Row, RowStatus
<1> HIDE DEF z
<1>3. TypeOK'
  <2>1. row' \in [Events -> Row]
    BY <1>1, <1>2 DEF IInv, TypeOK
  <2> QED BY <2>1 DEF SetOutcome, IInv, TypeOK, others, history
<1>4. Fits(e, z)
  BY <1>2 DEF Fits
<1>5. UNCHANGED <<request, invitee>>
  BY DEF SetOutcome, others
<1> QED BY <1>1, <1>2, <1>3, <1>4, <1>5, Standing, KeptWithRow

(* Calendly's side: the slot of an invitee is fixed before there is a row.     *)
LEMMA InviteKeeps ==
  ASSUME IInv, NEW u \in Uuids, NEW s \in Slots, Invite(u, s)
  PROVE  Kept
<1> DEFINE z == [row[u] EXCEPT !.slot = s]
<1>1. row' = [row EXCEPT ![u] = z] /\ u \in Events /\ u \notin Requests /\ invitee[u] = "none"
  BY BookingAssumption DEF Invite, Events
<1>2. row[u] \in Row /\ row[u].status = "none"
  BY <1>1 DEF IInv, TypeOK, RowsHaveSlots
<1>3. z \in Row /\ z.slot = s /\ z.status = "none"
  BY <1>2 DEF Row
<1> HIDE DEF z
<1>4. row' \in [Events -> Row] /\ row'[u] = z /\ \A f \in Events \ {u} : row'[f] = row[f]
  BY <1>1, <1>3 DEF IInv, TypeOK
<1>5. invitee' \in [Uuids -> {"none", "created", "canceled"}]
  BY DEF Invite, IInv, TypeOK
<1>6. TypeOK'
  BY <1>4, <1>5 DEF Invite, IInv, TypeOK, history
<1>7. Fits(u, z)
  BY <1>3 DEF Fits
<1>8. OneBookingPerSlot' /\ [A!Next]_Held
  BY <1>1, <1>3, <1>7, OneRow DEF IInv, TypeOK, RowsHaveSlots
<1>9. RowAfterInsert'
  BY <1>1, <1>4 DEF Invite, IInv, RowAfterInsert, Events
<1>10. RowsHaveSlots'
  BY <1>2, <1>3, <1>4 DEF Invite, IInv, TypeOK, RowsHaveSlots, Events
<1>11. SlotChosen'
  BY Standing DEF Invite
<1> QED BY <1>6, <1>8, <1>9, <1>10, <1>11 DEF Kept, IInv

LEMMA WithdrawKeeps ==
  ASSUME IInv, NEW u \in Uuids, Withdraw(u)
  PROVE  Kept
<1>1. TypeOK'
  BY DEF Withdraw, IInv, TypeOK, history
<1>2. OneBookingPerSlot' /\ [A!Next]_Held
  BY NoRowWritten DEF Withdraw, IInv
<1>3. RowAfterInsert' /\ RowsHaveSlots'
  BY DEF Withdraw, IInv, TypeOK, RowAfterInsert, RowsHaveSlots
<1>4. SlotChosen'
  BY Standing DEF Withdraw
<1> QED BY <1>1, <1>2, <1>3, <1>4 DEF Kept, IInv

-----------------------------------------------------------------------------
LEMMA Initially == Init => IInv /\ A!Init
<1> SUFFICES ASSUME Init PROVE IInv /\ A!Init
  OBVIOUS
<1>1. \A e \in Events : row[e] = NoRow /\ ~Booked(e)
  BY DEF Init, NoRow, Booked
<1>2. NoRow \in Row
  BY DEF NoRow, Row, RowStatus
<1>3. Unborn \in Request /\ Chosen(Unborn)
  BY DEF Unborn, Idle, Request, Kinds, Chosen
<1>4. TypeOK
  <2>1. row \in [Events -> Row] /\ request \in [Requests -> Request]
    BY <1>2, <1>3 DEF Init
  <2>2. faults \in 0..FaultBound
    BY BookingAssumption DEF Init
  <2> QED BY <2>1, <2>2 DEF Init, TypeOK
<1>5. SlotChosen /\ RowAfterInsert /\ RowsHaveSlots /\ OneBookingPerSlot
  BY <1>1, <1>3 DEF Init, SlotChosen, RowAfterInsert, RowsHaveSlots, OneBookingPerSlot, NoRow, Events
<1>6. A!Init
  BY <1>1 DEF A!Init, Held
<1> QED BY <1>4, <1>5, <1>6 DEF IInv

LEMMA Stepwise == IInv /\ [Next]_vars => Kept
<1> SUFFICES ASSUME IInv, [Next]_vars PROVE Kept
  OBVIOUS
<1>1. CASE UNCHANGED vars
  <2>1. TypeOK' /\ UNCHANGED <<row, invitee, request>>
    BY <1>1 DEF vars, IInv, TypeOK
  <2> QED BY <2>1, Standing, KeptWithoutRow
<1>2. ASSUME NEW r \in Requests, NEW kind \in Kinds, Start(r, kind) PROVE Kept
  BY <1>2, StartKeeps
<1>3. ASSUME NEW r \in Requests, NEW s \in Slots, CheckSlot(r, s) PROVE Kept
  BY <1>3, CheckSlotKeeps
<1>4. ASSUME NEW r \in Requests, NEW answer \in {"accepted", "refused", "lost"}, SyncToCalendar(r, answer)
      PROVE Kept
  BY <1>4, SyncToCalendarKeeps
<1>5. ASSUME NEW r \in Requests,
             \/ ReadPrevious(r) \/ CreateEvent(r) \/ CreateReminders(r) \/ SaveRef(r) \/ Announce(r)
             \/ CancelPrevious(r) \/ SkipReminders(r) \/ RemoveCalendarEvent(r) \/ LoseRequest(r)
      PROVE Kept
  BY <1>5, ReadPreviousKeeps, CreateEventKeeps, CreateRemindersKeeps, SaveRefKeeps, AnnounceKeeps,
     CancelPreviousKeeps, SkipRemindersKeeps, RemoveCalendarEventKeeps, LoseRequestKeeps
<1>6. ASSUME NEW f \in Forms, NEW s \in Slots, RecordFormBooking(f, s) PROVE Kept
  BY <1>6, RecordFormBookingKeeps
<1>7. ASSUME NEW u \in Uuids, NEW s \in Slots, Invite(u, s) PROVE Kept
  BY <1>7, InviteKeeps
<1>8. ASSUME NEW u \in Uuids, Withdraw(u) \/ HearCanceled(u) PROVE Kept
  BY <1>8, WithdrawKeeps, HearCanceledKeeps
<1>9. ASSUME NEW u \in Uuids, NEW known \in BOOLEAN, HearCreated(u, known) PROVE Kept
  BY <1>9, HearCreatedKeeps
<1>10. ASSUME NEW s \in Slots, Pass(s) PROVE Kept
  BY <1>10, PassKeeps
<1>11. ASSUME NEW e \in Events, SetOutcome(e) PROVE Kept
  BY <1>11, SetOutcomeKeeps
<1> QED BY <1>1, <1>2, <1>3, <1>4, <1>5, <1>6, <1>7, <1>8, <1>9, <1>10, <1>11 DEF Next

(* Rows, requests and Calendly's records keep their types, however requests,   *)
(* webhooks and crashes interleave.                                           *)
THEOREM TypeCorrect == Spec => []TypeOK
<1>1. IInv => TypeOK
  BY DEF IInv
<1> QED BY <1>1, Initially, Stepwise, PTL DEF Spec, Kept

(* No slot is ever booked twice, by the widget, the agents, a form or Calendly. *)
THEOREM NoDoubleBooking == Spec => []OneBookingPerSlot
<1>1. IInv => OneBookingPerSlot
  BY DEF IInv
<1> QED BY <1>1, Initially, Stepwise, PTL DEF Spec, Kept

(* The rows implement the agenda: a slot changes hands only by being free.     *)
THEOREM ImplementsAgenda == Spec => IsAgenda
BY Initially, Stepwise, PTL DEF Spec, Kept, IsAgenda, A!Spec

-----------------------------------------------------------------------------
(* Moves, and the calendar.  What a request has read is there: a request that   *)
(* is past its insert, with a reference only after that was saved, or a form's  *)
(* row.                                                                       *)
PreviousIsThere ==
  \A x \in Requests : LET e == request[x].previous IN
    /\ e \in Requests => request[e].at >= 4 /\ (request[x].ref => request[e].at >= 7)
    /\ e \in Forms => row[e].status # "none"
(* A request that books has its row from its insert on; only a failed sync      *)
(* takes it back, and that ends the request before it announces.               *)
RowStands ==
  \A r \in Requests :
    /\ request[r].kind # "drop" /\ request[r].at \in 4..10 => row[r].status # "none"
    /\ row[r].status # "none" => request[r].kind # "drop"
    /\ r \in announced => request[r].at >= 8 /\ row[r].status # "none"
    /\ row[r].ref => request[r].at >= 7
(* A request past its cancel step has cancelled what it moved or dropped.      *)
HasCancelled(x) ==
  LET q == request[x] IN
  \/ q.kind = "drop" /\ q.at = 3
  \/ q.kind # "drop" /\ q.at \in {9, 10}
  \/ q.at = Ended /\ x \notin died /\ row[x].status # "none"
MovedIsCancelled ==
  \A x \in Requests :
    HasCancelled(x) /\ request[x].previous \in Requests \union Forms => ~Booked(request[x].previous)
(* Reminders and calendar event are there once their steps are behind.         *)
Prepared ==
  \A r \in Requests :
    /\ request[r].at <= 4 => reminders[r] = "none"
    /\ Booked(r) /\ r \notin died =>
         /\ request[r].at >= 5 => reminders[r] = "pending"
         /\ request[r].at >= 6 /\ provider = "connected" => r \in calendar
(* The event of a cancelled booking is gone, or about to be taken back.        *)
TakesBack(x, e) ==
  LET q == request[x] IN q.kind = "widget" /\ q.ref /\ q.at \in {9, 10} /\ q.previous = e
CancelledIsTakenBack ==
  \A e \in Requests :
    /\ row[e].status = "cancelled" =>
         \/ e \in strays \union died
         \/ e \notin calendar /\ request[e].at >= 7
         \/ \E x \in Requests : TakesBack(x, e)
    /\ e \in calendar =>
         /\ provider = "connected" /\ request[e].at >= 6
         /\ e \in strays \union died \/ row[e].status # "none"
(* Requests have moved each other's bookings in some order: among any of them   *)
(* one is not moved by another, ...                                           *)
WithRow == {r \in Requests : row[r].status # "none"}
Newest ==
  \A S \in SUBSET WithRow : S # {} => \E m \in S : \A y \in S : request[y].previous # m
(* ... and what was cancelled without anybody having dropped it was moved.     *)
Replaced ==
  ~dropped => \A e \in Events : row[e].status = "cancelled" =>
                \E y \in WithRow : request[y].previous = e /\ request[y].at >= 9

MoveInv == /\ PreviousIsThere /\ RowStands /\ MovedIsCancelled /\ Prepared
           /\ CancelledIsTakenBack /\ Newest /\ Replaced

LEMMA Places ==
  ASSUME NEW k \in Kinds, NEW i \in 1..Len(Path[k])
  PROVE  /\ Path[k][i] = "read" => i <= 2 /\ (k = "drop" => i = 1)
         /\ Path[k][i] = "remind" => i = 4 /\ k # "drop"
         /\ Path[k][i] = "sync" => i = 5 /\ k # "drop"
         /\ Path[k][i] = "ref" => i = 6 /\ k # "drop"
         /\ Path[k][i] = "announce" => i = 7 /\ k # "drop"
         /\ Path[k][i] = "cancel" => i = IF k = "drop" THEN 2 ELSE 8
         /\ Path[k][i] = "skip" => i = IF k = "drop" THEN 3 ELSE 9
         /\ Path[k][i] = "remove" => i = 10 /\ k = "widget"
         /\ Len(Path[k]) = IF k = "widget" THEN 10 ELSE IF k = "email" THEN 9 ELSE IF k = "call" THEN 8 ELSE 3
<1>1. CASE k = "widget"
  <2>1. Path[k] = <<"check", "read", "insert", "remind", "sync", "ref", "announce", "cancel", "skip", "remove">>
    BY <1>1 DEF Path
  <2> QED BY <2>1, <1>1
<1>2. CASE k = "email"
  <2>1. Path[k] = <<"read", "check", "insert", "remind", "sync", "ref", "announce", "cancel", "skip">>
    BY <1>2 DEF Path
  <2> QED BY <2>1, <1>2
<1>3. CASE k = "call"
  <2>1. Path[k] = <<"read", "check", "insert", "remind", "sync", "ref", "announce", "cancel">>
    BY <1>3 DEF Path
  <2> QED BY <2>1, <1>3
<1>4. CASE k = "drop"
  <2>1. Path[k] = <<"read", "cancel", "skip">>
    BY <1>4 DEF Path
  <2> QED BY <2>1, <1>4
<1> QED BY <1>1, <1>2, <1>3, <1>4 DEF Kinds

(* What a request is at work on tells where it stands.                         *)
Stands(r, step) ==
  LET q == request[r] IN
  /\ q.at \in Nat /\ q.kind \in Kinds /\ r \in Events
  /\ step = "read" => q.at \in {1, 2} /\ (q.kind = "drop" => q.at = 1)
  /\ step = "check" => q.at \in {1, 2} /\ q.kind # "drop"
  /\ step = "insert" => q.at = 3 /\ q.kind # "drop"
  /\ step = "remind" => q.at = 4 /\ q.kind # "drop"
  /\ step = "sync" => q.at = 5 /\ q.kind # "drop"
  /\ step = "ref" => q.at = 6 /\ q.kind # "drop"
  /\ step = "announce" => q.at = 7 /\ q.kind # "drop"
  /\ step = "cancel" => q.at = IF q.kind = "drop" THEN 2 ELSE 8
  /\ step = "skip" => q.at = IF q.kind = "drop" THEN 3 ELSE 9
  /\ step = "remove" => q.at = 10 /\ q.kind = "widget"
  /\ Len(Path[q.kind]) = IF q.kind = "widget" THEN 10 ELSE IF q.kind = "email" THEN 9
                         ELSE IF q.kind = "call" THEN 8 ELSE 3

LEMMA Standpoint ==
  ASSUME TypeOK, NEW r \in Requests, NEW step, Doing(r, step)
  PROVE  Stands(r, step)
<1> DEFINE k == request[r].kind
           i == request[r].at
<1>1. k \in Kinds /\ i \in Nat /\ i \in 1..Len(Path[k]) /\ Path[k][i] = step /\ r \in Events
  BY DEF Doing, TypeOK, Request, Events
<1>2. step = "check" => k # "drop"
  <2>1. SUFFICES ASSUME k = "drop" PROVE Path[k][i] # "check"
    BY <1>1
  <2>2. Path[k] = <<"read", "cancel", "skip">>
    BY <2>1 DEF Path
  <2> QED BY <1>1, <2>2
<1> QED BY <1>1, <1>2, Places, StepPlaces DEF Stands

(* A request's own record after a step of it, and every other one.             *)
Walks(r) ==
  LET q == request[r]  p == request'[r] IN
  /\ \A x \in Requests \ {r} : request'[x] = request[x]
  /\ p.kind = q.kind /\ p.previous = q.previous
  /\ (p.at = q.at + 1 /\ p.ref = q.ref) \/ (p.at = 11 /\ p.ref = FALSE)

LEMMA GoesOn ==
  ASSUME TypeOK, NEW r \in Requests, Goes(r)
  PROVE  Walks(r) /\ request'[r].at = request[r].at + 1 /\ request'[r].ref = request[r].ref
BY DEF Goes, Walks, TypeOK, Request
LEMMA ComesToEnd ==
  ASSUME TypeOK, NEW r \in Requests, Ends(r)
  PROVE  Walks(r) /\ request'[r].at = 11
BY DEF Ends, Walks, TypeOK, Request, Ended
LEMMA GivesUp ==
  ASSUME TypeOK, NEW r \in Requests, Refuses(r)
  PROVE  /\ \A x \in Requests \ {r} : request'[x] = request[x]
         /\ request'[r].kind = "widget" /\ request'[r].at = 11
         /\ request'[r].previous = NoEvent /\ request'[r].ref = FALSE
BY DEF Refuses, Idle, TypeOK, Ended

(* Rows that go away, and requests whose previous booking stays, change no order. *)
LEMMA SameOrder ==
  ASSUME Newest, WithRow' \subseteq WithRow,
         \A y \in WithRow' : request'[y].previous = request[y].previous
  PROVE  Newest'
<1> SUFFICES ASSUME NEW S \in SUBSET WithRow', S # {}
             PROVE  \E m \in S : \A y \in S : request'[y].previous # m
  BY DEF Newest
<1>1. S \in SUBSET WithRow
  OBVIOUS
<1>2. PICK m \in S : \A y \in S : request[y].previous # m
  BY <1>1 DEF Newest
<1> QED BY <1>2

(* Steps of the forms, of Calendly, the staff and the clock: they may hold a    *)
(* booking's meeting, fill a form's row, and do to Calendly's rows as they like. *)
Outside ==
  /\ UNCHANGED <<request, calendar, provider, announced, strays, died>>
  /\ \A e \in Requests \union Forms :
       row'[e].status = row[e].status \/ (row[e].status = "booked" /\ row'[e].status = "held")
                                      \/ (e \in Forms /\ row[e].status = "none" /\ row'[e].status = "booked")
  /\ \A r \in Requests : reminders'[r] = reminders[r] /\ row'[r].ref = row[r].ref
  /\ ~dropped' => ~dropped /\ \A e \in Events : row'[e].status = "cancelled" => row[e].status = "cancelled"

LEMMA OutsideKeeps ==
  ASSUME IInv, MoveInv, Outside
  PROVE  MoveInv'
<1> USE DEF MoveInv, Outside
<1>1. Requests \intersect Forms = {} /\ Requests \subseteq Events
  BY BookingAssumption DEF Events
<1>2. WithRow' = WithRow
  BY <1>1 DEF WithRow
<1>3. PreviousIsThere'
  BY DEF PreviousIsThere
<1>4. RowStands'
  BY <1>1 DEF RowStands
<1>5. MovedIsCancelled'
  <2> SUFFICES ASSUME NEW x \in Requests, HasCancelled(x)', request[x].previous \in Requests \union Forms
               PROVE  ~Booked(request[x].previous)'
    BY DEF MovedIsCancelled
  <2>1. HasCancelled(x)
    BY <1>1 DEF HasCancelled
  <2>2. ~Booked(request[x].previous)
    BY <2>1 DEF MovedIsCancelled
  <2> QED BY <2>2 DEF Booked, PreviousIsThere
<1>6. Prepared'
  BY <1>1 DEF Prepared, Booked
<1>7. CancelledIsTakenBack'
  BY <1>1 DEF CancelledIsTakenBack, TakesBack
<1>8. Newest'
  BY <1>2 DEF Newest
<1>9. Replaced'
  BY <1>2 DEF Replaced
<1> QED BY <1>3, <1>4, <1>5, <1>6, <1>7, <1>8, <1>9

(* A request before its insert: it touches nothing but its own record, and what *)
(* it reads is booked.                                                        *)
Early(r) ==
  LET q == request[r]  p == request'[r] IN
  /\ UNCHANGED <<row, reminders, calendar, provider, announced, strays, died, dropped>>
  /\ \A x \in Requests \ {r} : request'[x] = request[x]
  /\ q.at \in 0..3 /\ p.at \in {1, 2, 3, 11} /\ p.at >= q.at
  /\ p.at = 3 => p.kind # "drop"
  /\ \/ p.previous = q.previous /\ p.ref = q.ref
     \/ p.previous = NoEvent /\ p.ref = FALSE
     \/ p.previous \in Events /\ Booked(p.previous) /\ (p.ref => row[p.previous].ref)

LEMMA EarlyKeeps ==
  ASSUME IInv, MoveInv, NEW r \in Requests, Early(r)
  PROVE  MoveInv'
<1> USE DEF MoveInv, Early
<1> DEFINE q == request[r]
           p == request'[r]
<1>1. row[r].status = "none" /\ ~Booked(r) /\ r \notin announced /\ r \notin calendar /\ q.at \in 0..3
      /\ row[r].ref = FALSE
  <2>1. row[r].ref \in BOOLEAN
    BY DEF IInv, TypeOK, Row, Events
  <2> QED BY <2>1 DEF IInv, RowAfterInsert, Booked, RowStands, CancelledIsTakenBack
<1>2. \A x \in Requests : request'[x].at >= request[x].at
  BY DEF IInv, TypeOK, Request
<1>3. \A x \in Requests : request[x].at \in Nat /\ request'[x].at \in Nat
  BY DEF IInv, TypeOK, Request
<1>4. PreviousIsThere'
  <2> SUFFICES ASSUME NEW x \in Requests
               PROVE  LET e == request'[x].previous IN
                        /\ e \in Requests => request'[e].at >= 4 /\ (request'[x].ref => request'[e].at >= 7)
                        /\ e \in Forms => row'[e].status # "none"
    BY DEF PreviousIsThere
  <2>1. CASE request'[x].previous = request[x].previous /\ request'[x].ref = request[x].ref
    BY <2>1, <1>2, <1>3 DEF PreviousIsThere
  <2>2. CASE x = r /\ p.previous = NoEvent /\ p.ref = FALSE
    BY <2>2, BookingAssumption DEF Events
  <2>3. CASE x = r /\ p.previous \in Events /\ Booked(p.previous) /\ (p.ref => row[p.previous].ref)
    BY <2>3, <1>2, <1>3 DEF IInv, RowAfterInsert, RowStands, Booked
  <2> QED BY <2>1, <2>2, <2>3
<1>5. RowStands'
  BY <1>1, <1>2, <1>3 DEF RowStands
<1>6. MovedIsCancelled'
  BY <1>1 DEF MovedIsCancelled, HasCancelled, Ended, Booked
<1>7. Prepared'
  BY <1>1, <1>2, <1>3 DEF Prepared, Booked
<1>8. CancelledIsTakenBack'
  <2>1. \A x, e \in Requests : TakesBack(x, e) => TakesBack(x, e)'
    BY <1>1 DEF TakesBack
  <2> QED BY <1>1, <1>2, <1>3, <2>1 DEF CancelledIsTakenBack
<1>9. WithRow' = WithRow /\ r \notin WithRow
  BY <1>1 DEF WithRow
<1>12. \A y \in WithRow : request'[y] = request[y]
  BY <1>9 DEF WithRow
<1>10. Newest'
  BY <1>9, <1>12, SameOrder
<1>11. Replaced'
  BY <1>9, <1>12 DEF Replaced
<1> QED BY <1>4, <1>5, <1>6, <1>7, <1>8, <1>10, <1>11

-----------------------------------------------------------------------------
(* A request at work: it moves on by one step, or to its end.                  *)
Works(r) == Walks(r) /\ request[r].at \in 1..10 /\ IInv /\ MoveInv

LEMMA Onwards ==
  ASSUME NEW r \in Requests, Works(r)
  PROVE  /\ \A x \in Requests : /\ request[x].at \in Nat /\ request'[x].at \in Nat
                                /\ request'[x].at >= request[x].at
                                /\ request'[x].kind = request[x].kind
                                /\ request'[x].previous = request[x].previous
                                /\ request'[x].ref => request[x].ref
                                /\ request[x].ref \in BOOLEAN /\ request'[x].ref \in BOOLEAN
         /\ Requests \subseteq Events /\ Requests \intersect Forms = {} /\ Requests \intersect Uuids = {}
<1>1. \A x \in Requests : request[x].at \in Nat /\ request[x].ref \in BOOLEAN
  BY DEF Works, IInv, TypeOK, Request
<1>2. \A x \in Requests \ {r} : request'[x] = request[x]
  BY DEF Works, Walks
<1>3. /\ request'[r].at \in Nat /\ request'[r].at >= request[r].at
      /\ request'[r].kind = request[r].kind /\ request'[r].previous = request[r].previous
      /\ request'[r].ref \in BOOLEAN /\ (request'[r].ref => request[r].ref)
  <2>1. request[r].at \in 1..10 /\ request[r].ref \in BOOLEAN
    BY <1>1 DEF Works
  <2>2. CASE request'[r].at = request[r].at + 1 /\ request'[r].ref = request[r].ref
    BY <2>1, <2>2 DEF Works, Walks
  <2>3. CASE request'[r].at = 11 /\ request'[r].ref = FALSE
    <3>1. request'[r].at \in Nat /\ request'[r].at >= request[r].at
      BY <2>1, <2>3
    <3>2. request'[r].ref \in BOOLEAN /\ ~request'[r].ref
      BY <2>3
    <3> QED BY <3>1, <3>2 DEF Works, Walks
  <2> QED BY <2>2, <2>3 DEF Works, Walks
<1>4. \A x \in Requests : x = r \/ x \in Requests \ {r}
  OBVIOUS
<1> QED BY <1>1, <1>2, <1>3, <1>4, BookingAssumption DEF Events

LEMMA PreviousStays ==
  ASSUME NEW r \in Requests, Works(r), \A f \in Forms : row[f].status # "none" => row'[f].status # "none"
  PROVE  PreviousIsThere'
BY Onwards DEF Works, MoveInv, PreviousIsThere

LEMMA StatusStays ==
  ASSUME NEW r \in Requests, Works(r), \A e \in Events : row'[e].status = row[e].status, dropped' = dropped
  PROVE  PreviousIsThere' /\ Newest' /\ Replaced'
<1>1. PreviousIsThere'
  BY PreviousStays DEF Events
<1>2. WithRow' = WithRow /\ WithRow \subseteq Requests
  BY Onwards DEF WithRow
<1>3. Newest'
  BY <1>2, Onwards, SameOrder DEF Works, MoveInv
<1>4. Replaced'
  BY <1>2, Onwards DEF Works, MoveInv, Replaced
<1> QED BY <1>1, <1>3, <1>4

LEMMA CreateEventMoves ==
  ASSUME IInv, MoveInv, NEW r \in Requests, CreateEvent(r)
  PROVE  MoveInv'
<1> DEFINE q == request[r]
<1>1. Doing(r, "insert") /\ UNCHANGED <<reminders, calendar, provider, others, history>>
  BY DEF CreateEvent
<1>2. q.at = 3 /\ q.kind # "drop" /\ r \in Events
  BY <1>1, Standpoint DEF Stands, IInv
<1>3. CASE SlotFree(q.slot, r)
  <2>1. Goes(r) /\ row' = [row EXCEPT ![r] = [status |-> "booked", slot |-> q.slot, visitor |-> q.kind = "widget", ref |-> FALSE]]
    BY <1>3 DEF CreateEvent
  <2>2. row'[r].status = "booked" /\ row'[r].ref = FALSE /\ \A e \in Events \ {r} : row'[e] = row[e]
    BY <1>2, <2>1 DEF IInv, TypeOK
  <2>3. Walks(r) /\ request'[r].at = 4
    BY <1>2, <2>1, GoesOn DEF IInv
  <2>4. Works(r)
    BY <1>2, <2>3 DEF Works
  <2>5. row[r].status = "none" /\ r \notin announced /\ r \notin calendar
    BY <1>2 DEF IInv, RowAfterInsert, MoveInv, RowStands, CancelledIsTakenBack
  <2>6. PreviousIsThere'
    BY <2>2, <2>4, PreviousStays, Onwards DEF Events
  <2>7. \A y \in Requests : request'[y].previous # r
    BY <1>2, <2>4, Onwards DEF MoveInv, PreviousIsThere
  <2>8. RowStands'
    BY <1>1, <1>2, <2>2, <2>3, <2>4, <2>5, Onwards DEF MoveInv, RowStands, Walks, others, history
  <2>9. MovedIsCancelled'
    <3>1. \A x \in Requests : HasCancelled(x)' => HasCancelled(x)
      BY <1>1, <2>2, <2>3, <2>4, Onwards DEF HasCancelled, Walks, history, Ended
    <3> QED BY <2>2, <2>4, <2>7, <3>1, Onwards DEF MoveInv, MovedIsCancelled, Booked, Events
  <2>10. Prepared'
    BY <1>1, <1>2, <2>2, <2>3, <2>4, Onwards DEF MoveInv, Prepared, Booked, Walks, history
  <2>11. CancelledIsTakenBack'
    <3>1. \A x, e \in Requests : TakesBack(x, e) => TakesBack(x, e)'
      BY <1>2, <2>3 DEF TakesBack, Walks
    <3> QED BY <1>1, <2>2, <2>4, <2>5, <3>1, Onwards DEF MoveInv, CancelledIsTakenBack, history
  <2>12. WithRow' = WithRow \union {r} /\ r \notin WithRow /\ WithRow \subseteq Requests
    BY <2>2, <2>4, <2>5, Onwards DEF WithRow
  <2>13. Newest'
    <3> SUFFICES ASSUME NEW S \in SUBSET WithRow', S # {}
                 PROVE  \E m \in S : \A y \in S : request'[y].previous # m
      BY DEF Newest
    <3>1. CASE r \in S
      BY <2>7, <2>12, <3>1
    <3>2. CASE r \notin S
      <4>1. S \in SUBSET WithRow
        BY <2>12, <3>2
      <4>2. PICK m \in S : \A y \in S : request[y].previous # m
        BY <4>1 DEF MoveInv, Newest
      <4> QED BY <2>4, <2>12, <4>1, <4>2, Onwards
    <3> QED BY <3>1, <3>2
  <2>14. Replaced'
    BY <1>1, <2>2, <2>4, <2>12, Onwards DEF MoveInv, Replaced, history
  <2> QED BY <2>6, <2>8, <2>9, <2>10, <2>11, <2>13, <2>14 DEF MoveInv
<1>4. CASE ~SlotFree(q.slot, r)
  <2>1. Refuses(r) /\ UNCHANGED row
    BY <1>4 DEF CreateEvent
  <2>2. /\ \A x \in Requests \ {r} : request'[x] = request[x]
        /\ request'[r].at = 11 /\ request'[r].previous = NoEvent /\ request'[r].ref = FALSE
    BY <2>1, GivesUp DEF IInv
  <2>3. Early(r)
    BY <1>1, <1>2, <2>1, <2>2 DEF Early, others, history
  <2> QED BY <2>3, EarlyKeeps
<1> QED BY <1>3, <1>4

LEMMA CreateRemindersMoves ==
  ASSUME IInv, MoveInv, NEW r \in Requests, CreateReminders(r)
  PROVE  MoveInv'
<1>1. Doing(r, "remind") /\ Goes(r) /\ reminders' = Reminded(r)
      /\ UNCHANGED <<row, calendar, provider, others, history>>
  BY DEF CreateReminders
<1>2. request[r].at = 4 /\ request[r].kind # "drop" /\ r \in Events
  BY <1>1, Standpoint DEF Stands, IInv
<1>3. Walks(r) /\ request'[r].at = 5
  BY <1>1, <1>2, GoesOn DEF IInv
<1>4. Works(r)
  BY <1>2, <1>3 DEF Works
<1>5. reminders[r] = "none"
  BY <1>2 DEF MoveInv, Prepared
<1>6. reminders'[r] = "pending" /\ \A e \in Events \ {r} : reminders'[e] = reminders[e]
  BY <1>1, <1>2, <1>5 DEF Reminded, IInv, TypeOK
<1>7. PreviousIsThere' /\ Newest' /\ Replaced'
  BY <1>1, <1>4, StatusStays DEF history
<1>8. RowStands'
  BY <1>1, <1>2, <1>3, <1>4, Onwards DEF MoveInv, RowStands, Walks, others
<1>9. MovedIsCancelled'
  BY <1>1, <1>2, <1>3, <1>4, Onwards DEF MoveInv, MovedIsCancelled, HasCancelled, Walks, Booked, history, Ended
<1>10. Prepared'
  BY <1>1, <1>2, <1>3, <1>4, <1>6, Onwards DEF MoveInv, Prepared, Booked, Walks, history
<1>11. CancelledIsTakenBack'
  <2>1. \A x, e \in Requests : TakesBack(x, e) => TakesBack(x, e)'
    BY <1>2, <1>3 DEF TakesBack, Walks
  <2> QED BY <1>1, <1>4, <2>1, Onwards DEF MoveInv, CancelledIsTakenBack, history
<1> QED BY <1>7, <1>8, <1>9, <1>10, <1>11 DEF MoveInv

LEMMA SyncToCalendarMoves ==
  ASSUME IInv, MoveInv, NEW r \in Requests, NEW answer, SyncToCalendar(r, answer)
  PROVE  MoveInv'
<1>1. Doing(r, "sync") /\ UNCHANGED <<provider, others, faults, died, dropped>>
      /\ strays \subseteq strays' /\ calendar \subseteq calendar'
  BY DEF SyncToCalendar
<1>2. request[r].at = 5 /\ request[r].kind # "drop" /\ r \in Events
  BY <1>1, Standpoint DEF Stands, IInv
<1>3. r \notin announced /\ r \notin calendar /\ row[r].status # "none"
  <2>1. r \notin announced /\ row[r].status # "none"
    BY <1>2 DEF MoveInv, RowStands
  <2>2. r \in calendar => request[r].at >= 6
    BY DEF MoveInv, CancelledIsTakenBack
  <2> QED BY <1>2, <2>1, <2>2
<1>4. CASE /\ row' = row /\ reminders' = reminders /\ strays' = strays /\ Goes(r)
           /\ \/ provider = "none" /\ calendar' = calendar
              \/ provider = "connected" /\ calendar' = calendar \union {r}
  <2>1. Walks(r) /\ request'[r].at = 6
    BY <1>2, <1>4, GoesOn DEF IInv
  <2>2. Works(r)
    BY <1>2, <2>1 DEF Works
  <2>3. PreviousIsThere' /\ Newest' /\ Replaced'
    BY <1>1, <1>4, <2>2, StatusStays
  <2>4. RowStands'
    BY <1>1, <1>2, <1>4, <2>1, <2>2, Onwards DEF MoveInv, RowStands, Walks, others
  <2>5. MovedIsCancelled'
    BY <1>1, <1>2, <1>4, <2>1, <2>2, Onwards DEF MoveInv, MovedIsCancelled, HasCancelled, Walks, Booked, Ended
  <2>6. Prepared'
    BY <1>1, <1>2, <1>4, <2>1, <2>2, Onwards DEF MoveInv, Prepared, Booked, Walks
  <2>7. CancelledIsTakenBack'
    <3>1. \A x, e \in Requests : TakesBack(x, e) => TakesBack(x, e)'
      BY <1>2, <2>1 DEF TakesBack, Walks
    <3>2. \A e \in Requests : e \in calendar' => e \in calendar \/ (e = r /\ provider = "connected")
      BY <1>4
    <3>3. \A e \in Requests : request[e].at >= 7 => (e \in calendar' <=> e \in calendar)
      BY <1>2, <1>4
    <3> QED BY <1>1, <1>3, <1>4, <2>1, <2>2, <3>1, <3>2, <3>3, Onwards DEF MoveInv, CancelledIsTakenBack
  <2> QED BY <2>3, <2>4, <2>5, <2>6, <2>7 DEF MoveInv
<1>5. CASE SyncFailed(r) /\ (calendar' = calendar \/ (provider = "connected" /\ calendar' = calendar \union {r} /\ r \in strays'))
  <2>1. Walks(r) /\ request'[r].at = 11
    BY <1>2, <1>5, ComesToEnd DEF SyncFailed, IInv
  <2>2. Works(r)
    BY <1>2, <2>1 DEF Works
  <2>3. row'[r].status = "none" /\ row'[r].ref = row[r].ref /\ \A e \in Events \ {r} : row'[e] = row[e]
    <3>1. row[r] \in Row
      BY <1>2 DEF IInv, TypeOK
    <3> QED BY <1>2, <1>5, <3>1 DEF SyncFailed, IInv, TypeOK, Row
  <2>4. reminders'[r] = "none" /\ \A e \in Events \ {r} : reminders'[e] = reminders[e]
    BY <1>2, <1>5 DEF SyncFailed, IInv, TypeOK
  <2>5. PreviousIsThere'
    BY <2>2, <2>3, PreviousStays, Onwards DEF Events
  <2>6. WithRow' = WithRow \ {r} /\ WithRow \subseteq Requests
    BY <2>2, <2>3, Onwards DEF WithRow
  <2>7. Newest'
    BY <2>2, <2>6, Onwards, SameOrder DEF MoveInv
  <2>8. Replaced'
    <3> SUFFICES ASSUME ~dropped', NEW e \in Events, row'[e].status = "cancelled"
                 PROVE  \E y \in WithRow' : request'[y].previous = e /\ request'[y].at >= 9
      BY DEF Replaced
    <3>1. e # r /\ row[e].status = "cancelled" /\ ~dropped
      BY <1>1, <2>3
    <3>2. PICK y \in WithRow : request[y].previous = e /\ request[y].at >= 9
      BY <3>1 DEF MoveInv, Replaced
    <3>3. y \in WithRow' /\ request'[y].previous = e /\ request'[y].at >= 9
      BY <1>2, <2>2, <2>6, <3>2, Onwards
    <3> QED BY <3>3
  <2>9. RowStands'
    BY <1>1, <1>2, <1>3, <2>1, <2>2, <2>3, Onwards DEF MoveInv, RowStands, Walks, others
  <2>10. MovedIsCancelled'
    <3>1. \A x \in Requests : HasCancelled(x)' => HasCancelled(x)
      BY <1>1, <1>2, <2>1, <2>2, <2>3, Onwards DEF HasCancelled, Walks, Ended
    <3>2. \A e \in Events : Booked(e)' => Booked(e)
      BY <2>3 DEF Booked
    <3> QED BY <2>2, <3>1, <3>2, Onwards DEF MoveInv, MovedIsCancelled, Events
  <2>11. Prepared'
    BY <1>1, <1>2, <2>1, <2>2, <2>3, <2>4, Onwards DEF MoveInv, Prepared, Booked, Walks
  <2>12. CancelledIsTakenBack'
    <3>1. \A x, e \in Requests : TakesBack(x, e) => TakesBack(x, e)'
      BY <1>2, <2>1 DEF TakesBack, Walks
    <3>2. \A e \in Requests \ {r} : e \in calendar' <=> e \in calendar
      BY <1>5
    <3>3. r \in calendar' => r \in strays' /\ provider = "connected"
      BY <1>3, <1>5
    <3> QED BY <1>1, <2>1, <2>2, <2>3, <3>1, <3>2, <3>3, Onwards DEF MoveInv, CancelledIsTakenBack
  <2> QED BY <2>5, <2>7, <2>8, <2>9, <2>10, <2>11, <2>12 DEF MoveInv
<1>6. \/ /\ row' = row /\ reminders' = reminders /\ strays' = strays /\ Goes(r)
         /\ \/ provider = "none" /\ calendar' = calendar
            \/ provider = "connected" /\ calendar' = calendar \union {r}
      \/ /\ provider = "connected" /\ calendar' = calendar \union {r} /\ strays' = strays \union {r}
         /\ SyncFailed(r)
      \/ calendar' = calendar /\ SyncFailed(r)
  BY DEF SyncToCalendar
<1>7. strays' = strays \union {r} => r \in strays'
  OBVIOUS
<1> QED BY <1>4, <1>5, <1>6, <1>7

LEMMA SaveRefMoves ==
  ASSUME IInv, MoveInv, NEW r \in Requests, SaveRef(r)
  PROVE  MoveInv'
<1>1. Doing(r, "ref") /\ Goes(r) /\ UNCHANGED <<reminders, calendar, provider, others, faults, died, dropped>>
      /\ strays \subseteq strays'
  BY DEF SaveRef
<1>2. request[r].at = 6 /\ request[r].kind # "drop" /\ r \in Events
  BY <1>1, Standpoint DEF Stands, IInv
<1>3. Walks(r) /\ request'[r].at = 7
  BY <1>1, <1>2, GoesOn DEF IInv
<1>4. Works(r)
  BY <1>2, <1>3 DEF Works
<1>5. \A e \in Events : row'[e].status = row[e].status /\ (e # r => row'[e] = row[e])
  BY <1>2 DEF SaveRef, IInv, TypeOK, Row
<1>6. PreviousIsThere' /\ Newest' /\ Replaced'
  BY <1>1, <1>4, <1>5, StatusStays
<1>7. RowStands'
  BY <1>1, <1>2, <1>3, <1>4, <1>5, Onwards DEF MoveInv, RowStands, Walks, others
<1>8. MovedIsCancelled'
  <2>1. \A x \in Requests : HasCancelled(x)' => HasCancelled(x)
    BY <1>1, <1>2, <1>3, <1>4, <1>5, Onwards DEF HasCancelled, Walks, Ended
  <2> QED BY <1>4, <1>5, <2>1, Onwards DEF MoveInv, MovedIsCancelled, Booked, Events
<1>9. Prepared'
  BY <1>1, <1>2, <1>3, <1>4, <1>5, Onwards DEF MoveInv, Prepared, Booked, Walks
<1>10. CancelledIsTakenBack'
  <2>1. \A x, e \in Requests : TakesBack(x, e) => TakesBack(x, e)'
    BY <1>2, <1>3 DEF TakesBack, Walks
  <2> QED BY <1>1, <1>4, <1>5, <2>1, Onwards DEF MoveInv, CancelledIsTakenBack
<1> QED BY <1>6, <1>7, <1>8, <1>9, <1>10 DEF MoveInv

LEMMA AnnounceMoves ==
  ASSUME IInv, MoveInv, NEW r \in Requests, Announce(r)
  PROVE  MoveInv'
<1>1. Doing(r, "announce") /\ GoesOrEnds(r) /\ announced' = announced \union {r}
      /\ UNCHANGED <<row, reminders, calendar, provider, history>>
  BY DEF Announce
<1>2. request[r].at = 7 /\ request[r].kind # "drop" /\ r \in Events
      /\ Len(Path[request[r].kind]) # 7
  <2>1. Stands(r, "announce")
    BY <1>1, Standpoint DEF IInv
  <2> QED BY <2>1 DEF Stands, Kinds
<1>3. Walks(r) /\ (request'[r].at = 8 \/ (request'[r].at = 11 /\ request[r].previous = NoEvent))
  BY <1>1, <1>2, GoesOn, ComesToEnd DEF GoesOrEnds, IInv
<1>4. Works(r)
  BY <1>2, <1>3 DEF Works
<1>5. PreviousIsThere' /\ Newest' /\ Replaced'
  BY <1>1, <1>4, StatusStays DEF history
<1>6. RowStands'
  BY <1>1, <1>2, <1>3, <1>4, Onwards DEF MoveInv, RowStands, Walks
<1>7. MovedIsCancelled'
  <2>1. NoEvent \notin Requests \union Forms
    BY BookingAssumption DEF Events
  <2>2. \A x \in Requests : HasCancelled(x)' => HasCancelled(x) \/ request[x].previous = NoEvent
    BY <1>1, <1>2, <1>3, <1>4, Onwards DEF HasCancelled, Walks, history, Ended
  <2> QED BY <1>1, <1>4, <2>1, <2>2, Onwards DEF MoveInv, MovedIsCancelled, Booked
<1>8. Prepared'
  BY <1>1, <1>2, <1>3, <1>4, Onwards DEF MoveInv, Prepared, Booked, Walks, history
<1>9. CancelledIsTakenBack'
  <2>1. \A x, e \in Requests : TakesBack(x, e) => TakesBack(x, e)'
    BY <1>2, <1>3 DEF TakesBack, Walks
  <2> QED BY <1>1, <1>4, <2>1, Onwards DEF MoveInv, CancelledIsTakenBack, history
<1> QED BY <1>5, <1>6, <1>7, <1>8, <1>9 DEF MoveInv

LEMMA CancelPreviousMoves ==
  ASSUME IInv, MoveInv, NEW r \in Requests, CancelPrevious(r)
  PROVE  MoveInv'
<1> DEFINE q == request[r]
           e == q.previous
<1>1. Doing(r, "cancel") /\ GoesOrEnds(r) /\ row' = Cancelled(e) /\ dropped' = (dropped \/ q.kind = "drop")
      /\ UNCHANGED <<reminders, calendar, provider, others, faults, died>>
      /\ strays' = IF q.kind = "widget" /\ q.ref THEN strays ELSE strays \union {e}
  BY DEF CancelPrevious
<1>2. q.at = (IF q.kind = "drop" THEN 2 ELSE 8) /\ r \in Events
      /\ (q.kind = "widget" => Len(Path[q.kind]) # q.at)
  <2>1. Stands(r, "cancel")
    BY <1>1, Standpoint DEF IInv
  <2> QED BY <2>1 DEF Stands
<1>3. Walks(r) /\ (request'[r].at = q.at + 1 \/ request'[r].at = 11)
      /\ (q.kind = "widget" /\ e # NoEvent => request'[r].at = q.at + 1 /\ request'[r].ref = q.ref)
  BY <1>1, <1>2, GoesOn, ComesToEnd DEF GoesOrEnds, IInv
<1>4. Works(r)
  BY <1>2, <1>3 DEF Works
<1>5. r \in WithRow \/ (q.kind = "drop" /\ row[r].status = "none")
  BY <1>2 DEF MoveInv, RowStands, WithRow
<1>6. /\ \A f \in Events : f # e \/ ~Booked(f) => row'[f] = row[f]
      /\ \A f \in Events : f = e /\ Booked(f) => row'[f].status = "cancelled" /\ row'[f].ref = row[f].ref
  BY DEF CancelPrevious, Cancelled, IInv, TypeOK, Row
<1> HIDE DEF e
<1>7. \A f \in Events : /\ (row'[f].status = "none") <=> (row[f].status = "none")
                        /\ Booked(f)' <=> Booked(f) /\ f # e
                        /\ row'[f].ref = row[f].ref
  BY <1>6 DEF Booked
<1>8. PreviousIsThere'
  BY <1>4, <1>7, PreviousStays DEF Events
<1>9. WithRow' = WithRow /\ WithRow \subseteq Requests
  BY <1>4, <1>7, Onwards DEF WithRow
<1>10. Newest'
  BY <1>4, <1>9, Onwards, SameOrder DEF MoveInv
<1>11. Replaced'
  <2> SUFFICES ASSUME ~dropped', NEW f \in Events, row'[f].status = "cancelled"
               PROVE  \E y \in WithRow' : request'[y].previous = f /\ request'[y].at >= 9
    BY DEF Replaced
  <2>1. ~dropped /\ q.kind # "drop"
    BY <1>1
  <2>2. CASE f = e
    <3>1. r \in WithRow' /\ request'[r].previous = f /\ request'[r].at >= 9
      BY <1>2, <1>3, <1>5, <1>9, <2>1, <2>2 DEF Walks, e
    <3> QED BY <3>1
  <2>3. CASE f # e
    <3>1. PICK y \in WithRow : request[y].previous = f /\ request[y].at >= 9
      BY <1>6, <2>1, <2>3 DEF MoveInv, Replaced
    <3>2. y \in WithRow' /\ request'[y].previous = f /\ request'[y].at >= 9
      BY <1>4, <1>9, <3>1, Onwards
    <3> QED BY <3>2
  <2> QED BY <2>2, <2>3
<1>12. RowStands'
  <2>1. announced' = announced
    BY <1>1 DEF others
  <2>2. \A x \in Requests : request[x].kind # "drop" /\ request'[x].at \in 4..10 => row[x].status # "none"
    <3>1. \A x \in Requests \ {r} : request'[x] = request[x]
      BY <1>3 DEF Walks
    <3>2. request[r].kind # "drop" => row[r].status # "none"
      BY <1>5 DEF WithRow
    <3> QED BY <3>1, <3>2 DEF MoveInv, RowStands
  <2> QED BY <1>4, <1>7, <2>1, <2>2, Onwards DEF MoveInv, RowStands
<1>13. MovedIsCancelled'
  <2> SUFFICES ASSUME NEW x \in Requests, HasCancelled(x)', request[x].previous \in Requests \union Forms
               PROVE  ~Booked(request[x].previous)'
    <3>1. \A x \in Requests : request'[x].previous = request[x].previous
      BY <1>4, Onwards
    <3> QED BY <3>1 DEF MovedIsCancelled, Booked
  <2>0. request'[x].previous = request[x].previous /\ request[x].previous \in Events /\ x \in Events
    BY <1>4, Onwards DEF Events
  <2> DEFINE f == request[x].previous
  <2>3. SUFFICES row'[f].status # "booked"
    BY <2>0 DEF Booked
  <2>1. CASE x = r
    BY <1>7, <2>0, <2>1 DEF e, Booked
  <2>2. CASE x # r
    <3>1. request'[x] = request[x]
      BY <1>3, <2>2 DEF Walks
    <3>2. HasCancelled(x)
      BY <1>1, <1>7, <2>0, <3>1 DEF HasCancelled
    <3>3. ~Booked(f)
      BY <3>2 DEF MoveInv, MovedIsCancelled
    <3> HIDE DEF f
    <3> QED BY <1>7, <2>0, <3>3 DEF Booked, f
  <2> QED BY <2>1, <2>2
<1>14. Prepared'
  <2>1. reminders' = reminders /\ calendar' = calendar /\ provider' = provider /\ died' = died
    BY <1>1
  <2>2. \A x \in Requests : /\ request'[x].at <= 4 => request[x].at <= 4
                            /\ Booked(x)' /\ request'[x].at >= 5 => Booked(x) /\ request[x].at >= 5
                            /\ Booked(x)' /\ request'[x].at >= 6 => Booked(x) /\ request[x].at >= 6
    <3>1. \A x \in Requests \ {r} : request'[x] = request[x]
      BY <1>3 DEF Walks
    <3>2. request'[r].at >= request[r].at /\ request'[r].at \in Nat /\ request[r].at \in Nat
      BY <1>4, Onwards
    <3>3. Booked(r) => request[r].at = 8
      BY <1>2 DEF WithRow, Booked, MoveInv, RowStands
    <3> QED BY <1>4, <1>7, <3>1, <3>2, <3>3, Onwards
  <2> QED BY <1>4, <1>7, <2>1, <2>2, Onwards DEF MoveInv, Prepared
<1>15. CancelledIsTakenBack'
  <2>1. \A x, f \in Requests : TakesBack(x, f) => TakesBack(x, f)'
    BY <1>2, <1>3 DEF TakesBack, Walks
  <2>2. ASSUME NEW f \in Requests, f = e, f \notin strays'
        PROVE  TakesBack(r, f)'
    <3>1. q.kind = "widget" /\ q.ref
      BY <1>1, <2>2 DEF e
    <3>2. e # NoEvent
      BY <2>2, BookingAssumption DEF Events
    <3>3. request'[r].kind = "widget" /\ request'[r].previous = f
      BY <1>3, <2>2, <3>1 DEF Walks, e
    <3>4. request'[r].at = q.at + 1 /\ request'[r].ref = q.ref
      BY <1>3, <3>1, <3>2 DEF e
    <3>5. q.at = 8
      BY <1>2, <3>1
    <3>6. request'[r].at = 9 /\ request'[r].ref
      BY <3>1, <3>4, <3>5
    <3> QED BY <3>3, <3>6 DEF TakesBack
  <2>3. strays \subseteq strays' /\ calendar' = calendar /\ provider' = provider /\ died' = died
    BY <1>1
  <2>4. \A f \in Requests : row'[f].status = "cancelled" => row[f].status = "cancelled" \/ f = e
    BY <1>4, <1>6, Onwards
  <2> SUFFICES ASSUME NEW f \in Requests
               PROVE  /\ row'[f].status = "cancelled" =>
                           \/ f \in strays' \union died'
                           \/ f \notin calendar' /\ request'[f].at >= 7
                           \/ \E x \in Requests : TakesBack(x, f)'
                      /\ f \in calendar' =>
                           /\ provider' = "connected" /\ request'[f].at >= 6
                           /\ f \in strays' \union died' \/ row'[f].status # "none"
    BY DEF CancelledIsTakenBack
  <2>5. /\ row[f].status = "cancelled" =>
             \/ f \in strays \union died
             \/ f \notin calendar /\ request[f].at >= 7
             \/ \E x \in Requests : TakesBack(x, f)
        /\ f \in calendar =>
             /\ provider = "connected" /\ request[f].at >= 6
             /\ f \in strays \union died \/ row[f].status # "none"
    BY DEF MoveInv, CancelledIsTakenBack
  <2>6. f \in Events /\ request'[f].at >= request[f].at /\ request[f].at \in Nat /\ request'[f].at \in Nat
    BY <1>4, Onwards
  <2>7. CASE row[f].status = "cancelled" \/ row'[f].status # "cancelled"
    BY <1>7, <2>1, <2>3, <2>5, <2>6, <2>7
  <2>8. CASE f = e
    <3>1. f \in strays' \/ TakesBack(r, f)'
      BY <2>2, <2>8
    <3>2. f \in calendar' =>
            /\ provider' = "connected" /\ request'[f].at >= 6
            /\ f \in strays' \union died' \/ row'[f].status # "none"
      BY <1>7, <2>3, <2>5, <2>6
    <3> QED BY <3>1, <3>2
  <2> QED BY <2>4, <2>7, <2>8
<1> QED BY <1>8, <1>10, <1>11, <1>12, <1>13, <1>14, <1>15 DEF MoveInv

LEMMA SkipRemindersMoves ==
  ASSUME IInv, MoveInv, NEW r \in Requests, SkipReminders(r)
  PROVE  MoveInv'
<1> DEFINE q == request[r]
           e == q.previous
<1>1. Doing(r, "skip") /\ GoesOrEnds(r) /\ UNCHANGED <<row, calendar, provider, others, history>>
      /\ reminders' = [reminders EXCEPT ![e] = IF @ = "pending" THEN "skipped" ELSE @]
  BY DEF SkipReminders
<1>2. q.at = (IF q.kind = "drop" THEN 3 ELSE 9) /\ r \in Events
  BY <1>1, Standpoint DEF Stands, IInv
<1>3. Walks(r) /\ (request'[r].at = q.at + 1 \/ request'[r].at = 11)
      /\ (request'[r].at # 11 => q.kind # "drop")
  <2>1. Stands(r, "skip")
    BY <1>1, Standpoint DEF IInv
  <2> QED BY <1>1, <1>2, <2>1, GoesOn, ComesToEnd DEF GoesOrEnds, Stands, IInv
<1>4. Works(r)
  BY <1>2, <1>3 DEF Works
<1>5. HasCancelled(r)
  BY <1>2 DEF HasCancelled
<1>6. PreviousIsThere' /\ Newest' /\ Replaced'
  BY <1>1, <1>4, StatusStays DEF history
<1>7. q.kind # "drop" => row[r].status # "none"
  BY <1>2 DEF MoveInv, RowStands
<1>8. RowStands'
  BY <1>1, <1>2, <1>3, <1>4, <1>7, Onwards DEF MoveInv, RowStands, Walks, others
<1>9. MovedIsCancelled'
  <2>1. \A x \in Requests : HasCancelled(x)' => HasCancelled(x)
    BY <1>1, <1>3, <1>5 DEF HasCancelled, Walks, history
  <2> QED BY <1>1, <1>4, <2>1, Onwards DEF MoveInv, MovedIsCancelled, Booked
<1>10. Prepared'
  <2>1. e \in Requests => ~Booked(e)
    BY <1>5 DEF MoveInv, MovedIsCancelled
  <2>2. \A x \in Requests : (reminders[x] = "none" => reminders'[x] = "none") /\ (x # e => reminders'[x] = reminders[x])
    BY <1>1, <1>4, Onwards DEF IInv, TypeOK
  <2>3. Booked(r) => q.at >= 6
    BY <1>2 DEF MoveInv, RowStands, Booked
  <2>4. \A x \in Requests \ {r} : request'[x] = request[x]
    BY <1>3 DEF Walks
  <2> HIDE DEF e
  <2> QED BY <1>1, <1>3, <1>4, <2>1, <2>2, <2>3, <2>4, Onwards DEF MoveInv, Prepared, Booked, history
<1>11. CancelledIsTakenBack'
  <2>1. \A x, f \in Requests : TakesBack(x, f) => TakesBack(x, f)'
    <3>1. q.kind = "widget" /\ e \in Requests => request'[r].at = 10 /\ request'[r].ref = q.ref
      <4>1. Stands(r, "skip") /\ NoEvent \notin Requests
        BY <1>1, Standpoint, BookingAssumption DEF IInv, Events
      <4>2. q.kind = "widget" /\ e \in Requests => Goes(r)
        BY <1>1, <1>2, <4>1 DEF GoesOrEnds, Stands
      <4> QED BY <1>2, <4>2, GoesOn DEF IInv
    <3> QED BY <1>3, <3>1 DEF TakesBack, Walks
  <2> QED BY <1>1, <1>4, <2>1, Onwards DEF MoveInv, CancelledIsTakenBack, history
<1> QED BY <1>6, <1>8, <1>9, <1>10, <1>11 DEF MoveInv

LEMMA RemoveCalendarEventMoves ==
  ASSUME IInv, MoveInv, NEW r \in Requests, RemoveCalendarEvent(r)
  PROVE  MoveInv'
<1> DEFINE q == request[r]
<1>1. Doing(r, "remove") /\ Ends(r) /\ calendar' = RemoveOld(q)
      /\ UNCHANGED <<row, reminders, provider, others, history>>
  BY DEF RemoveCalendarEvent
<1>2. q.at = 10 /\ q.kind = "widget" /\ r \in Events
  BY <1>1, Standpoint DEF Stands, IInv
<1>3. Walks(r) /\ request'[r].at = 11
  BY <1>1, ComesToEnd DEF IInv
<1>4. Works(r)
  BY <1>2, <1>3 DEF Works
<1>5. HasCancelled(r) /\ row[r].status # "none"
  BY <1>2 DEF HasCancelled, MoveInv, RowStands
<1>6. calendar' \subseteq calendar /\ \A e \in calendar \ calendar' : e = q.previous
  BY <1>1 DEF RemoveOld
<1>7. PreviousIsThere' /\ Newest' /\ Replaced'
  BY <1>1, <1>4, StatusStays DEF history
<1>8. RowStands'
  BY <1>1, <1>2, <1>3, <1>4, <1>5, Onwards DEF MoveInv, RowStands, Walks, others
<1>9. MovedIsCancelled'
  <2>1. \A x \in Requests : HasCancelled(x)' => HasCancelled(x)
    BY <1>1, <1>3, <1>5 DEF HasCancelled, Walks, history
  <2> QED BY <1>1, <1>4, <2>1, Onwards DEF MoveInv, MovedIsCancelled, Booked
<1>10. Prepared'
  <2>1. \A x \in Requests : Booked(x) /\ x \in calendar => x \in calendar'
    BY <1>5, <1>6 DEF MoveInv, MovedIsCancelled
  <2>2. \A x \in Requests \ {r} : request'[x] = request[x]
    BY <1>3 DEF Walks
  <2> QED BY <1>1, <1>2, <1>3, <1>4, <2>1, <2>2, Onwards DEF MoveInv, Prepared, Booked, history
<1>11. CancelledIsTakenBack'
  <2> SUFFICES ASSUME NEW f \in Requests
               PROVE  /\ row[f].status = "cancelled" =>
                           \/ f \in strays \union died
                           \/ f \notin calendar' /\ request'[f].at >= 7
                           \/ \E x \in Requests : TakesBack(x, f)'
                      /\ f \in calendar' =>
                           /\ provider = "connected" /\ request'[f].at >= 6
                           /\ f \in strays \union died \/ row[f].status # "none"
    BY <1>1 DEF CancelledIsTakenBack, history
  <2>1. /\ row[f].status = "cancelled" =>
             \/ f \in strays \union died
             \/ f \notin calendar /\ request[f].at >= 7
             \/ \E x \in Requests : TakesBack(x, f)
        /\ f \in calendar =>
             /\ provider = "connected" /\ request[f].at >= 6
             /\ f \in strays \union died \/ row[f].status # "none"
    BY DEF MoveInv, CancelledIsTakenBack
  <2>2. request'[f].at >= request[f].at /\ request[f].at \in Nat /\ request'[f].at \in Nat
    BY <1>4, Onwards
  <2>3. \A x \in Requests : TakesBack(x, f) => x = r \/ TakesBack(x, f)'
    BY <1>3 DEF TakesBack, Walks
  <2>4. TakesBack(r, f) => f \notin calendar' /\ request'[f].at >= 7
    <3> SUFFICES ASSUME q.ref, q.previous = f PROVE f \notin calendar' /\ request'[f].at >= 7
      BY DEF TakesBack
    <3>1. request[f].at >= 7
      BY DEF MoveInv, PreviousIsThere
    <3>2. f \notin calendar'
      BY <1>1, <2>1 DEF RemoveOld
    <3> QED BY <2>2, <3>1, <3>2
  <2> QED BY <1>6, <2>1, <2>2, <2>3, <2>4
<1> QED BY <1>7, <1>8, <1>9, <1>10, <1>11 DEF MoveInv

LEMMA LoseRequestMoves ==
  ASSUME IInv, MoveInv, NEW r \in Requests, LoseRequest(r)
  PROVE  MoveInv'
<1> DEFINE q == request[r]
<1>1. Ends(r) /\ died' = died \union {r, q.previous} /\ q.at \in 1..10
      /\ UNCHANGED <<row, reminders, calendar, provider, others, strays, dropped>>
  BY DEF LoseRequest, InFlight
<1>2. Walks(r) /\ request'[r].at = 11
  BY <1>1, ComesToEnd DEF IInv
<1>3. Works(r)
  BY <1>1, <1>2 DEF Works
<1>4. PreviousIsThere' /\ Newest' /\ Replaced'
  BY <1>1, <1>3, StatusStays
<1>5. RowStands'
  BY <1>1, <1>2, <1>3, Onwards DEF MoveInv, RowStands, Walks, others
<1>6. MovedIsCancelled'
  <2>1. \A x \in Requests : HasCancelled(x)' => HasCancelled(x)
    BY <1>1, <1>2 DEF HasCancelled, Walks
  <2> QED BY <1>1, <1>3, <2>1, Onwards DEF MoveInv, MovedIsCancelled, Booked
<1>7. Prepared'
  <2>1. \A x \in Requests \ {r} : request'[x] = request[x]
    BY <1>2 DEF Walks
  <2> QED BY <1>1, <1>2, <2>1 DEF MoveInv, Prepared, Booked
<1>8. CancelledIsTakenBack'
  <2>1. \A x, e \in Requests : TakesBack(x, e) => TakesBack(x, e)' \/ e \in died'
    BY <1>1, <1>2 DEF TakesBack, Walks
  <2> QED BY <1>1, <1>3, <2>1, Onwards DEF MoveInv, CancelledIsTakenBack
<1> QED BY <1>4, <1>5, <1>6, <1>7, <1>8 DEF MoveInv

-----------------------------------------------------------------------------
LEMMA StartMoves ==
  ASSUME IInv, MoveInv, NEW r \in Requests, NEW kind \in Kinds, Start(r, kind)
  PROVE  MoveInv'
<1>1. request[r].at = 0
  BY DEF Start, Unborn, Idle
<1>2. UNCHANGED <<row, reminders, calendar, provider, others, history>>
  BY DEF Start
<1>3. /\ \A x \in Requests \ {r} : request'[x] = request[x]
      /\ request'[r].at = 1 /\ request'[r].previous = request[r].previous /\ request'[r].ref = request[r].ref
  BY DEF Start, IInv, TypeOK, Request
<1>4. Early(r)
  BY <1>1, <1>2, <1>3 DEF Early, others, history
<1> QED BY <1>4, EarlyKeeps

LEMMA CheckSlotMoves ==
  ASSUME IInv, MoveInv, NEW r \in Requests, NEW s \in Slots, CheckSlot(r, s)
  PROVE  MoveInv'
<1>1. Doing(r, "check") /\ UNCHANGED <<row, reminders, calendar, provider, others, history>>
  BY DEF CheckSlot
<1>2. request[r].at \in {1, 2} /\ request[r].kind # "drop"
  BY <1>1, Standpoint DEF Stands, IInv
<1>3. CASE Refuses(r)
  <2>1. /\ \A x \in Requests \ {r} : request'[x] = request[x]
        /\ request'[r].at = 11 /\ request'[r].previous = NoEvent /\ request'[r].ref = FALSE
    BY <1>3, GivesUp DEF IInv
  <2>2. Early(r)
    BY <1>1, <1>2, <2>1 DEF Early, others, history
  <2> QED BY <2>2, EarlyKeeps
<1>4. CASE request' = [request EXCEPT ![r].at = @ + 1, ![r].slot = s]
  <2>1. /\ \A x \in Requests \ {r} : request'[x] = request[x]
        /\ request'[r].at = request[r].at + 1 /\ request'[r].kind = request[r].kind
        /\ request'[r].previous = request[r].previous /\ request'[r].ref = request[r].ref
    BY <1>4 DEF IInv, TypeOK, Request
  <2>2. Early(r)
    BY <1>1, <1>2, <2>1 DEF Early, others, history
  <2> QED BY <2>2, EarlyKeeps
<1> QED BY <1>3, <1>4 DEF CheckSlot

LEMMA ReadPreviousMoves ==
  ASSUME IInv, MoveInv, NEW r \in Requests, ReadPrevious(r)
  PROVE  MoveInv'
<1> DEFINE q == request[r]
<1>1. Doing(r, "read") /\ UNCHANGED <<row, reminders, calendar, provider, others, history>>
  BY DEF ReadPrevious
<1>2. q.at \in {1, 2} /\ (q.kind = "drop" => q.at = 1)
  BY <1>1, Standpoint DEF Stands, IInv
<1>3. PICK e \in Soonest(q.kind) \union IF q.kind = "drop" THEN {} ELSE {NoEvent} :
        request' = [request EXCEPT ![r].at = IF q.kind = "drop" /\ e = NoEvent THEN Ended ELSE @ + 1,
                                   ![r].previous = e,
                                   ![r].ref = e # NoEvent /\ row[e].ref]
  BY DEF ReadPrevious
<1>4. e = NoEvent \/ (e \in Events /\ Booked(e))
  BY DEF Soonest, Upcoming
<1> DEFINE at2 == IF q.kind = "drop" /\ e = NoEvent THEN Ended ELSE q.at + 1
           ref2 == e # NoEvent /\ row[e].ref
<1>5. request' = [request EXCEPT ![r].at = at2, ![r].previous = e, ![r].ref = ref2]
  BY <1>3
<1>6. at2 \in {2, 3, 11} /\ at2 >= q.at /\ (at2 = 3 => q.kind # "drop")
  BY <1>2 DEF Ended
<1>7. (e = NoEvent => ref2 = FALSE) /\ (ref2 => row[e].ref)
  OBVIOUS
<1> HIDE DEF at2, ref2
<1>8. /\ \A x \in Requests \ {r} : request'[x] = request[x]
      /\ request'[r].at = at2 /\ request'[r].kind = q.kind
      /\ request'[r].previous = e /\ request'[r].ref = ref2
  BY <1>5 DEF IInv, TypeOK, Request
<1>9. Early(r)
  BY <1>1, <1>2, <1>4, <1>6, <1>7, <1>8 DEF Early, others, history
<1> QED BY <1>9, EarlyKeeps

LEMMA OutsideSteps ==
  ASSUME IInv,
         \/ UNCHANGED vars
         \/ \E f \in Forms, s \in Slots : RecordFormBooking(f, s)
         \/ \E u \in Uuids : \/ \E s \in Slots : Invite(u, s)
                             \/ Withdraw(u) \/ HearCanceled(u)
                             \/ \E known \in BOOLEAN : HearCreated(u, known)
         \/ \E s \in Slots : Pass(s)
         \/ \E e \in Events : SetOutcome(e)
  PROVE  Outside
<1>1. /\ Requests \intersect Forms = {} /\ Requests \intersect Uuids = {} /\ Forms \intersect Uuids = {}
      /\ Events = Requests \union Forms \union Uuids
      /\ row \in [Events -> Row] /\ \A e \in Events : row[e] \in Row
  BY BookingAssumption DEF Events, IInv, TypeOK
<1>2. CASE UNCHANGED vars
  BY <1>2 DEF vars, Outside
<1>3. ASSUME NEW f \in Forms, NEW s \in Slots, RecordFormBooking(f, s) PROVE Outside
  <2>1. row[f].status = "none" /\ \A e \in Events \ {f} : row'[e] = row[e]
    BY <1>1, <1>3 DEF RecordFormBooking, NoRow
  <2>2. row'[f].status = "booked"
    BY <1>1, <1>3 DEF RecordFormBooking, Row
  <2> QED BY <1>1, <1>3, <2>1, <2>2 DEF RecordFormBooking, Outside, others, history
<1>4. ASSUME NEW u \in Uuids, NEW s \in Slots, Invite(u, s) PROVE Outside
  <2>1. \A e \in Events \ {u} : row'[e] = row[e]
    BY <1>1, <1>4 DEF Invite
  <2>2. row'[u].status = row[u].status
    BY <1>1, <1>4 DEF Invite, Row
  <2> QED BY <1>1, <1>4, <2>1, <2>2 DEF Invite, Outside, history
<1>5. ASSUME NEW u \in Uuids, Withdraw(u) PROVE Outside
  BY <1>5 DEF Withdraw, Outside, history
<1>6. ASSUME NEW u \in Uuids, HearCanceled(u) PROVE Outside
  <2>1. \A e \in Events \ {u} : row'[e] = row[e]
    BY <1>1, <1>6 DEF HearCanceled, CancelledByCalendly
  <2> QED BY <1>1, <1>6, <2>1 DEF HearCanceled, Outside
<1>7. ASSUME NEW u \in Uuids, NEW known \in BOOLEAN, HearCreated(u, known) PROVE Outside
  <2>1. \A e \in Events \ {u} : row'[e] = row[e] /\ reminders'[e] = reminders[e]
    BY <1>1, <1>7 DEF HearCreated, Upsert, Reminded, IInv, TypeOK
  <2>2. row'[u].status = "booked"
    BY <1>1, <1>7 DEF HearCreated, Upsert, Row
  <2> QED BY <1>1, <1>7, <2>1, <2>2 DEF HearCreated, Outside, history
<1>8. ASSUME NEW s \in Slots, Pass(s) PROVE Outside
  BY <1>8 DEF Pass, Outside, history
<1>9. ASSUME NEW e \in Events, SetOutcome(e) PROVE Outside
  <2>1. row[e].status = "booked" /\ \A f \in Events \ {e} : row'[f] = row[f]
    BY <1>1, <1>9 DEF SetOutcome, Booked
  <2>2. row'[e].status = "held" /\ row'[e].ref = row[e].ref
    BY <1>1, <1>9 DEF SetOutcome, Row
  <2> QED BY <1>1, <1>9, <2>1, <2>2 DEF SetOutcome, Outside, others, history
<1> QED BY <1>2, <1>3, <1>4, <1>5, <1>6, <1>7, <1>8, <1>9

LEMMA MovesInitially == Init => MoveInv
<1> SUFFICES ASSUME Init PROVE MoveInv
  OBVIOUS
<1>1. \A e \in Events : row[e].status = "none" /\ row[e].ref = FALSE /\ ~Booked(e) /\ reminders[e] = "none"
  BY DEF Init, NoRow, Booked
<1>2. \A r \in Requests : /\ request[r].at = 0 /\ request[r].previous = NoEvent
                          /\ request[r].kind = "widget" /\ request[r].ref = FALSE /\ r \in Events
  BY DEF Init, Unborn, Idle, Events
<1>3. NoEvent \notin Requests /\ NoEvent \notin Forms /\ Requests \subseteq Events
  BY BookingAssumption DEF Events
<1>4. calendar = {} /\ announced = {} /\ WithRow = {}
  BY <1>1, <1>3 DEF Init, WithRow
<1>5. PreviousIsThere /\ RowStands /\ MovedIsCancelled /\ Prepared
  BY <1>1, <1>2, <1>3, <1>4 DEF PreviousIsThere, RowStands, MovedIsCancelled, Prepared
<1>6. CancelledIsTakenBack /\ Newest /\ Replaced
  BY <1>1, <1>2, <1>3, <1>4 DEF CancelledIsTakenBack, Newest, Replaced
<1> QED BY <1>5, <1>6 DEF MoveInv

LEMMA MovesStepwise == IInv /\ MoveInv /\ [Next]_vars => MoveInv'
<1> SUFFICES ASSUME IInv, MoveInv, [Next]_vars PROVE MoveInv'
  OBVIOUS
<1>1. ASSUME NEW r \in Requests, NEW kind \in Kinds, Start(r, kind) PROVE MoveInv'
  BY <1>1, StartMoves
<1>2. ASSUME NEW r \in Requests, NEW s \in Slots, CheckSlot(r, s) PROVE MoveInv'
  BY <1>2, CheckSlotMoves
<1>3. ASSUME NEW r \in Requests, NEW answer \in {"accepted", "refused", "lost"}, SyncToCalendar(r, answer)
      PROVE MoveInv'
  BY <1>3, SyncToCalendarMoves
<1>4. ASSUME NEW r \in Requests,
             \/ ReadPrevious(r) \/ CreateEvent(r) \/ CreateReminders(r) \/ SaveRef(r) \/ Announce(r)
             \/ CancelPrevious(r) \/ SkipReminders(r) \/ RemoveCalendarEvent(r) \/ LoseRequest(r)
      PROVE MoveInv'
  BY <1>4, ReadPreviousMoves, CreateEventMoves, CreateRemindersMoves, SaveRefMoves, AnnounceMoves,
     CancelPreviousMoves, SkipRemindersMoves, RemoveCalendarEventMoves, LoseRequestMoves
<1>5. CASE Outside
  BY <1>5, OutsideKeeps
<1> QED BY <1>1, <1>2, <1>3, <1>4, <1>5, OutsideSteps DEF Next

-----------------------------------------------------------------------------
LEMMA MoveInvImplies == IInv /\ MoveInv => CalendarAgrees /\ MoveKeepsABooking
<1> SUFFICES ASSUME IInv, MoveInv PROVE CalendarAgrees /\ MoveKeepsABooking
  OBVIOUS
<1>1. \A e \in Events : row[e].status \in {"none", "booked", "cancelled", "held"}
  BY DEF IInv, TypeOK, Row, RowStatus
<1>2. Requests \subseteq Events /\ calendar \subseteq Requests
  BY DEF IInv, TypeOK, Events
<1>3. CalendarAgrees
  <2>1. ASSUME NEW r \in Requests, Confirmed(r), Booked(r)
        PROVE  reminders[r] = "pending" /\ (provider = "connected" => r \in calendar)
    BY <2>1 DEF MoveInv, Prepared, Confirmed, Ended
  <2>2. \A r \in announced : row[r].status # "none"
    BY DEF MoveInv, RowStands, IInv, TypeOK
  <2>3. ASSUME NEW e \in calendar, e \notin strays \union died, row[e].status \notin {"booked", "held"}
        PROVE  \E r \in Requests : InFlight(r) /\ e \in {r, request[r].previous}
    <3>1. e \in Requests /\ row[e].status = "cancelled"
      BY <1>1, <1>2, <2>3 DEF MoveInv, CancelledIsTakenBack
    <3>2. PICK x \in Requests : TakesBack(x, e)
      BY <2>3, <3>1 DEF MoveInv, CancelledIsTakenBack
    <3>3. InFlight(x) /\ e = request[x].previous
      BY <3>2 DEF TakesBack, InFlight
    <3> QED BY <3>3
  <2> QED BY <2>1, <2>2, <2>3 DEF CalendarAgrees
<1>4. MoveKeepsABooking
  <2> SUFFICES ASSUME NEW r \in Requests, request[r].kind # "drop", request[r].previous # NoEvent
               PROVE  /\ row[request[r].previous].status = "cancelled" /\ ~dropped =>
                           \E e \in Events : row[e].status \in {"booked", "held"}
                      /\ Confirmed(r) /\ Booked(r) /\ request[r].previous \notin Uuids =>
                           ~Booked(request[r].previous)
    BY DEF MoveKeepsABooking
  <2>1. request[r].previous \in Events
    BY DEF IInv, TypeOK, Request
  <2>2. ASSUME row[request[r].previous].status = "cancelled", ~dropped
        PROVE  \E e \in Events : row[e].status \in {"booked", "held"}
    <3>1. WithRow # {} /\ WithRow \subseteq Events
      BY <1>2, <2>1, <2>2 DEF MoveInv, Replaced, WithRow
    <3>2. PICK m \in WithRow : \A y \in WithRow : request[y].previous # m
      BY <3>1 DEF MoveInv, Newest
    <3>3. row[m].status # "cancelled"
      BY <2>2, <3>1, <3>2 DEF MoveInv, Replaced
    <3>4. m \in Events /\ row[m].status \in {"booked", "held"}
      BY <1>1, <3>1, <3>3 DEF WithRow
    <3> QED BY <3>4
  <2>3. ASSUME Confirmed(r), Booked(r), request[r].previous \notin Uuids
        PROVE  ~Booked(request[r].previous)
    <3>1. HasCancelled(r)
      BY <2>3 DEF Confirmed, HasCancelled, Booked
    <3>2. request[r].previous \in Requests \union Forms
      BY <2>1, <2>3 DEF Events
    <3> QED BY <3>1, <3>2 DEF MoveInv, MovedIsCancelled
  <2> QED BY <2>2, <2>3
<1> QED BY <1>3, <1>4

(* Rows and calendar agree, and what was announced stands, whichever request    *)
(* dies, moves or cancels at which statement.                                 *)
THEOREM CalendarAgreesAlways == Spec => []CalendarAgrees
<1>1. Init => IInv /\ MoveInv
  BY Initially, MovesInitially
<1>2. IInv /\ MoveInv /\ [Next]_vars => (IInv /\ MoveInv)'
  BY Stepwise, MovesStepwise DEF Kept
<1> QED BY <1>1, <1>2, MoveInvImplies, PTL DEF Spec

(* Of moves that overlap, fail or are rolled back one booking always remains.  *)
THEOREM MovesKeepABooking == Spec => []MoveKeepsABooking
<1>1. Init => IInv /\ MoveInv
  BY Initially, MovesInitially
<1>2. IInv /\ MoveInv /\ [Next]_vars => (IInv /\ MoveInv)'
  BY Stepwise, MovesStepwise DEF Kept
<1> QED BY <1>1, <1>2, MoveInvImplies, PTL DEF Spec

-----------------------------------------------------------------------------
(* Outcomes, and Calendly's cancellations.  What a step may do to the status of *)
(* a row that is held, and to Calendly's rows.                                *)
HeldStays ==
  \A e \in Requests \union Forms :
    row[e].status = "held" /\ (e \in Requests => ~InFlight(e)) => row'[e].status = "held"
CalendlyStays == inOrder' = inOrder /\ \A u \in Uuids : Booked(u)' => Booked(u)

LEMMA RequestSteps ==
  ASSUME IInv, NEW r \in Requests,
         \/ \E kind \in Kinds : Start(r, kind)
         \/ \E s \in Slots : CheckSlot(r, s)
         \/ ReadPrevious(r) \/ CreateEvent(r) \/ CreateReminders(r)
         \/ \E answer \in {"accepted", "refused", "lost"} : SyncToCalendar(r, answer)
         \/ SaveRef(r) \/ Announce(r) \/ CancelPrevious(r) \/ SkipReminders(r) \/ RemoveCalendarEvent(r)
         \/ LoseRequest(r)
  PROVE  HeldStays /\ CalendlyStays
<1>1. /\ Requests \intersect Uuids = {} /\ Forms \intersect Uuids = {} /\ Requests \intersect Forms = {}
      /\ Events = Requests \union Forms \union Uuids
      /\ row \in [Events -> Row] /\ r \in Events /\ row[r] \in Row
  BY BookingAssumption DEF Events, IInv, TypeOK
<1>2. ASSUME row' = row, inOrder' = inOrder
      PROVE  HeldStays /\ CalendlyStays
  BY <1>2 DEF HeldStays, CalendlyStays, Booked
<1>3. ASSUME \E kind \in Kinds : Start(r, kind)
      PROVE  HeldStays /\ CalendlyStays
  BY <1>2, <1>3 DEF Start, others
<1>4. ASSUME \E s \in Slots : CheckSlot(r, s)
      PROVE  HeldStays /\ CalendlyStays
  BY <1>2, <1>4 DEF CheckSlot, others
<1>5. ASSUME ReadPrevious(r) \/ CreateReminders(r) \/ SkipReminders(r) \/ RemoveCalendarEvent(r)
      PROVE  HeldStays /\ CalendlyStays
  BY <1>2, <1>5 DEF ReadPrevious, CreateReminders, SkipReminders, RemoveCalendarEvent, others
<1>6. ASSUME Announce(r) \/ LoseRequest(r)
      PROVE  HeldStays /\ CalendlyStays
  BY <1>2, <1>6 DEF Announce, LoseRequest, others
<1>7. CASE CreateEvent(r)
  <2>1. inOrder' = inOrder /\ \A e \in Events \ {r} : row'[e] = row[e]
    BY <1>1, <1>7 DEF CreateEvent, others
  <2>2. Doing(r, "insert")
    BY <1>7 DEF CreateEvent
  <2>3. row[r].status = "none"
    BY <2>2, Standpoint DEF Stands, IInv, RowAfterInsert
  <2> QED BY <1>1, <2>1, <2>3 DEF HeldStays, CalendlyStays, Booked
<1>8. CASE \E answer \in {"accepted", "refused", "lost"} : SyncToCalendar(r, answer)
  <2>1. Doing(r, "sync") /\ inOrder' = inOrder /\ (row' = row \/ row' = [row EXCEPT ![r].status = "none"])
    BY <1>8 DEF SyncToCalendar, SyncFailed, others
  <2>2. InFlight(r)
    BY <2>1, Standpoint DEF Stands, IInv, InFlight
  <2>3. \A e \in Events \ {r} : row'[e] = row[e]
    BY <1>1, <2>1
  <2> QED BY <1>1, <2>1, <2>2, <2>3 DEF HeldStays, CalendlyStays, Booked
<1>9. CASE SaveRef(r)
  <2>1. inOrder' = inOrder /\ \A e \in Events : row'[e].status = row[e].status
    BY <1>1, <1>9 DEF SaveRef, others, Row
  <2> QED BY <1>1, <2>1 DEF HeldStays, CalendlyStays, Booked
<1>10. CASE CancelPrevious(r)
  <2> DEFINE e == request[r].previous
  <2>1. inOrder' = inOrder /\ row' = Cancelled(e)
    BY <1>10 DEF CancelPrevious, others
  <2> HIDE DEF e
  <2>2. \A f \in Events : row'[f].status = row[f].status \/ (row[f].status = "booked" /\ row'[f].status = "cancelled")
    BY <1>1, <2>1 DEF Cancelled, Booked, Row
  <2> QED BY <1>1, <2>1, <2>2 DEF HeldStays, CalendlyStays, Booked
<1> QED BY <1>3, <1>4, <1>5, <1>6, <1>7, <1>8, <1>9, <1>10

(* A meeting that was held, or missed, keeps its outcome, whatever a request    *)
(* that read it as booked does later.                                         *)
THEOREM OutcomesStick == Spec => OutcomeSticks
<1>1. IInv /\ [Next]_vars => [HeldStays]_vars
  <2> SUFFICES ASSUME IInv, [Next]_vars, vars' # vars PROVE HeldStays
    BY DEF vars
  <2>1. CASE Outside
    BY <2>1, BookingAssumption DEF Outside, HeldStays
  <2> QED BY <2>1, OutsideSteps, RequestSteps DEF Next
<1>2. [HeldStays]_vars => [\A e \in Requests \union Forms :
        row[e].status = "held" /\ (e \in Requests => ~InFlight(e)) => row'[e].status = "held"]_vars
  BY DEF HeldStays
<1> QED BY <1>1, <1>2, Initially, Stepwise, PTL DEF Spec, Kept, OutcomeSticks

(* A cancellation by Calendly frees its slot until Calendly books it again.    *)
THEOREM CalendlyCancelsStick == Spec => []CalendlyCancelSticks
<1>1. Init => CalendlyCancelSticks
  BY DEF Init, CalendlyCancelSticks
<1>2. IInv /\ CalendlyCancelSticks /\ [Next]_vars => CalendlyCancelSticks'
  <2> SUFFICES ASSUME IInv, CalendlyCancelSticks, [Next]_vars PROVE CalendlyCancelSticks'
    OBVIOUS
  <2>1. Events = Requests \union Forms \union Uuids /\ Forms \intersect Uuids = {} /\ row \in [Events -> Row]
    BY BookingAssumption DEF Events, IInv, TypeOK
  <2>2. CASE CalendlyStays
    BY <2>2 DEF CalendlyStays, CalendlyCancelSticks
  <2>3. ASSUME NEW f \in Forms, NEW s \in Slots, RecordFormBooking(f, s) PROVE CalendlyStays
    BY <2>1, <2>3 DEF RecordFormBooking, CalendlyStays, Booked, others
  <2>4. ASSUME NEW u \in Uuids, NEW s \in Slots, Invite(u, s) PROVE CalendlyStays
    BY <2>1, <2>4 DEF Invite, CalendlyStays, Booked, Row
  <2>5. ASSUME NEW u \in Uuids, Withdraw(u) PROVE CalendlyStays
    BY <2>5 DEF Withdraw, CalendlyStays, Booked
  <2>6. ASSUME NEW s \in Slots, Pass(s) PROVE CalendlyStays
    BY <2>6 DEF Pass, CalendlyStays, Booked
  <2>7. ASSUME NEW e \in Events, SetOutcome(e) PROVE CalendlyStays
    BY <2>1, <2>7 DEF SetOutcome, CalendlyStays, Booked, others, Row
  <2>8. ASSUME NEW u \in Uuids, HearCanceled(u) PROVE CalendlyCancelSticks'
    <3>1. \A v \in Uuids \ {u} : row'[v] = row[v] /\ (v \in inOrder' => v \in inOrder)
      BY <2>1, <2>8 DEF HearCanceled, CancelledByCalendly
    <3>2. row'[u].status # "booked"
      BY <2>1, <2>8 DEF HearCanceled, CancelledByCalendly, Row
    <3> QED BY <3>1, <3>2 DEF CalendlyCancelSticks, Booked
  <2>9. ASSUME NEW u \in Uuids, NEW known \in BOOLEAN, HearCreated(u, known) PROVE CalendlyCancelSticks'
    <3>1. \A v \in Uuids \ {u} : row'[v] = row[v]
      BY <2>1, <2>9 DEF HearCreated, Upsert
    <3>2. inOrder' = inOrder \ {u}
      BY <2>9 DEF HearCreated
    <3> QED BY <3>1, <3>2 DEF CalendlyCancelSticks, Booked
  <2>10. CASE UNCHANGED vars
    <3>1. row' = row /\ inOrder' = inOrder
      BY <2>10 DEF vars
    <3>2. CalendlyStays
      BY <3>1 DEF CalendlyStays, Booked
    <3> QED BY <2>2, <3>2
  <2> QED BY <2>2, <2>3, <2>4, <2>5, <2>6, <2>7, <2>8, <2>9, <2>10, RequestSteps DEF Next
<1> QED BY <1>1, <1>2, Initially, Stepwise, PTL DEF Spec, Kept
=============================================================================
