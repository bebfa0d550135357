----------------------------- MODULE Reminders -----------------------------
(***************************************************************************)
(* The reminders of one booking (scheduling/reminder_repository.py,        *)
(* scheduling/tasks.py) over the notification outbox: a beat job claims    *)
(* the due rows and publishes one message each, a process that takes one   *)
(* reads the row and the booking again and dispatches to the sink that     *)
(* settings.reminder_sink names: LogReminderSink, the default, which only  *)
(* logs; NotificationReminderSink, which enqueues the e-mail under the     *)
(* reminder's own dedupe key; any other name raises.                       *)
(***************************************************************************)
EXTENDS Notifications, FiniteSets

CONSTANTS
  Offsets,  \* the reminders among the keys; the others are confirmations
  Sinks     \* what settings.reminder_sink says; processes started before and
            \* after a change of it may disagree

ASSUME ReminderAssumption ==
  Offsets \subseteq Keys /\ Sinks \subseteq {"log", "notification", "unknown"}

VARIABLES
  event,      \* schedule_events.status
  reminder,   \* reminder_jobs.status
  due,        \* send_reminder messages in the broker
  batch,      \* rows a dispatcher has claimed and not yet published
  forgotten,  \* history: reminders whose message a fault or an unknown sink took
  logged      \* history: reminders that LogReminderSink took

schedule == <<event, reminder, due, batch, forgotten, logged>>
reminderVars == <<outbox, process, faults, schedule>>

ReminderStatus == {"pending", "queued", "sent", "failed", "skipped"}
Reminding == {"reread", "event", "verdict"}

(* An offset that is past at booking time starts as skipped.                  *)
ReminderInit ==
  /\ OutboxInit
  /\ event = "booked"
  /\ reminder \in [Offsets -> {"pending", "skipped"}]
  /\ due = [r \in Offsets |-> 0]
  /\ batch = [p \in Workers |-> {}]
  /\ forgotten = {} /\ logged = {}

-----------------------------------------------------------------------------
(* dispatch_due_reminders: one statement claims, then one publication a row.  *)
ClaimDueReminders(p, rows) ==
  /\ process[p] = AtRest /\ event = "booked"
  /\ rows # {} /\ \A r \in rows : reminder[r] = "pending"
  /\ reminder' = [r \in Offsets |-> IF r \in rows THEN "queued" ELSE reminder[r]]
  /\ batch' = [batch EXCEPT ![p] = rows]
  /\ Goes(p, "dispatch")
  /\ UNCHANGED <<outbox, faults, event, due, forgotten, logged>>

Remail(r) == [due EXCEPT ![r] = IF @ < 2 THEN @ + 1 ELSE @]

DelayReminder(p, r) ==
  /\ r \in batch[p]
  /\ due' = Remail(r)
  /\ batch' = [batch EXCEPT ![p] = @ \ {r}]
  /\ IF batch[p] = {r} THEN Rests(p) ELSE UNCHANGED process
  /\ UNCHANGED <<outbox, faults, event, reminder, forgotten, logged>>

(* The dispatcher dies or the broker fails it: what it claimed is queued and  *)
(* nobody claims a queued row.                                                *)
LoseDispatcher(p) ==
  /\ At(p, {"dispatch"}) /\ Fault
  /\ forgotten' = forgotten \union batch[p]
  /\ batch' = [batch EXCEPT ![p] = {}]
  /\ Rests(p)
  /\ UNCHANGED <<outbox, event, reminder, due, logged>>

-----------------------------------------------------------------------------
TakeReminder(p, r) ==
  /\ process[p] = AtRest /\ due[r] > 0
  /\ due' = [due EXCEPT ![r] = @ - 1]
  /\ process' = [process EXCEPT ![p] = [AtRest EXCEPT !.at = "reread", !.key = r]]
  /\ UNCHANGED <<outbox, faults, event, reminder, batch, forgotten, logged>>

IsDuePending(r) == reminder[r] = "pending"
IsDue(r) == reminder[r] = "queued"

ReadReminder(p) ==
  /\ At(p, {"reread"})
  /\ IF IsDue(Key(p)) THEN Goes(p, "event") ELSE Rests(p)
  /\ UNCHANGED <<outbox, faults, schedule>>

(* The booking first, then the sink.                                          *)
SkipsReminder(p) ==
  /\ At(p, {"event"}) /\ event # "booked"
  /\ Decides(p, "verdict", "skipped")
  /\ UNCHANGED <<outbox, faults, schedule>>

LogsReminder(p) ==
  /\ At(p, {"event"}) /\ event = "booked"
  /\ logged' = logged \union {Key(p)}
  /\ Decides(p, "verdict", "sent")
  /\ UNCHANGED <<outbox, faults, event, reminder, due, batch, forgotten>>

(* NoRecipientError, and any other ValidationError.                           *)
UndeliveredAsSent(answer) == IF answer = "nobody" THEN "sent" ELSE "failed"
Undelivered(answer) == IF answer = "nobody" THEN "skipped" ELSE "failed"

MailsReminder(p, answer) ==
  /\ At(p, {"event"}) /\ event = "booked"
  /\ IF answer = "ready" THEN Goes(p, "insert")
     ELSE Decides(p, "verdict", Undelivered(answer))
  /\ UNCHANGED <<outbox, faults, schedule>>

(* reminder_sink_for raises outside the try: the task fails, the row stays.   *)
FindsNoSink(p) ==
  /\ At(p, {"event"}) /\ event = "booked"
  /\ forgotten' = forgotten \union {Key(p)}
  /\ Rests(p)
  /\ UNCHANGED <<outbox, faults, event, reminder, due, batch, logged>>

DispatchReminder(p) ==
  \/ SkipsReminder(p)
  \/ "log" \in Sinks /\ LogsReminder(p)
  \/ "notification" \in Sinks /\ \E a \in {"ready", "nobody", "invalid"} : MailsReminder(p, a)
  \/ "unknown" \in Sinks /\ FindsNoSink(p)

MarkReminder(p) ==
  LET r == Key(p) IN
  /\ At(p, {"verdict", "enqueued"}) /\ r \in Offsets
  /\ reminder' = [reminder EXCEPT ![r] = IF At(p, {"enqueued"}) THEN "sent" ELSE process[p].verdict]
  /\ Rests(p)
  /\ UNCHANGED <<outbox, faults, event, due, batch, forgotten, logged>>

(* What the task raises is not retried: no autoretry_for, no self.retry.      *)
BreakReminder(p) ==
  /\ At(p, Reminding \union Calling) /\ Key(p) \in Offsets /\ Fault
  /\ forgotten' = forgotten \union {Key(p)}
  /\ Unpublished(p) /\ Rests(p)
  /\ UNCHANGED <<job, mail, copies, slips, event, reminder, due, batch, logged>>

LoseReminder(p) ==
  /\ At(p, Reminding \union Calling) /\ Key(p) \in Offsets /\ Fault
  /\ due' = Remail(Key(p))
  /\ Unpublished(p) /\ Rests(p)
  /\ UNCHANGED <<job, mail, copies, slips, event, reminder, batch, forgotten, logged>>

-----------------------------------------------------------------------------
(* A reschedule cancels the event, then skips the reminders still pending.    *)
CancelEvent ==
  /\ event = "booked" /\ event' = "cancelled"
  /\ UNCHANGED <<outbox, process, faults, reminder, due, batch, forgotten, logged>>

SkipPendingReminders ==
  /\ event = "cancelled" /\ \E r \in Offsets : reminder[r] = "pending"
  /\ reminder' = [r \in Offsets |-> IF reminder[r] = "pending" THEN "skipped" ELSE reminder[r]]
  /\ UNCHANGED <<outbox, process, faults, event, due, batch, forgotten, logged>>

Remind(p) ==
  \/ \E r \in Offsets : DelayReminder(p, r)
  \/ ReadReminder(p) \/ DispatchReminder(p) \/ MarkReminder(p)
Serve(p) ==
  \/ (Work(p) /\ UNCHANGED schedule)
  \/ Remind(p)
  \/ (Return(p) /\ Key(p) \notin Offsets /\ UNCHANGED schedule)
Receive(p) ==
  \/ (Deliver(p) /\ UNCHANGED schedule)
  \/ \E r \in Offsets : TakeReminder(p, r)
Fail(p) ==
  \/ (LoseSender(p) /\ UNCHANGED schedule)
  \/ (Break(p) /\ UNCHANGED schedule)
  \/ (LoseCall(p) /\ Key(p) \notin Offsets /\ UNCHANGED schedule)
  \/ LoseDispatcher(p) \/ BreakReminder(p) \/ LoseReminder(p)

ReminderNext ==
  \/ \E p \in Workers : Serve(p) \/ Receive(p) \/ Fail(p)
  \/ \E p \in Workers, k \in Keys \ Offsets : (Call(p, k) /\ UNCHANGED schedule)
  \/ \E p \in Workers, rows \in SUBSET Offsets : ClaimDueReminders(p, rows)
  \/ CancelEvent \/ SkipPendingReminders

(* Processes get on with their work and the broker delivers what it holds.    *)
ReminderFairness == /\ \A p \in Workers : WF_reminderVars(Serve(p))
            /\ WF_reminderVars(\E p \in Workers : Receive(p))

ReminderSpec == ReminderInit /\ [][ReminderNext]_reminderVars
FairReminderSpec == ReminderSpec /\ ReminderFairness

-----------------------------------------------------------------------------
ReminderTypes ==
  /\ OutboxTypes
  /\ process \in [Workers -> [at : Sending \union Calling \union Reminding \union {"idle", "dispatch"},
                              key : Keys \union {NoKey}, tries : 0..MaxRetries,
                              verdict : {"none", "pending", "sent", "failed", "skipped"}]]
  /\ event \in {"booked", "cancelled"}
  /\ reminder \in [Offsets -> ReminderStatus]
  /\ due \in [Offsets -> 0..2]
  /\ batch \in [Workers -> SUBSET Offsets]
  /\ forgotten \subseteq Offsets /\ logged \subseteq Offsets

(* A reminder that says sent was taken by LogReminderSink, or has its e-mail  *)
(* in the outbox, whichever process wrote which of the two rows and died in   *)
(* between; and an e-mail that is still pending has a message, or a process   *)
(* at work on it, unless a fault took its message (the process that inserted  *)
(* it died before it published: the redelivered reminder meets its own dedupe *)
(* key, publishes nothing and says sent).                                     *)
UnderWay(k) ==
  \/ \E n \in 0..MaxRetries : mail[k][n] > 0
  \/ \E p \in Workers : Key(p) = k /\ At(p, {"delay", "check", "send", "mark", "raise"})
SentReminderIsDispatched ==
  \A r \in Offsets : reminder[r] = "sent" =>
    /\ r \in logged \/ job[r] # "none"
    /\ job[r] = "pending" => UnderWay(r) \/ r \in stranded

(* A claimed reminder is settled, unless a fault took its message or the task *)
(* failed, which is not retried: a statement, or a sink nobody knows.         *)
ReminderSettles ==
  \A r \in Offsets : reminder[r] = "queued" ~> reminder[r] # "queued" \/ r \in forgotten
=============================================================================
