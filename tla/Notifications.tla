--------------------------- MODULE Notifications ---------------------------
(***************************************************************************)
(* The notification outbox (notifications/): callers insert a job under a  *)
(* dedupe key and, when the row is new, publish a message for it; a Celery *)
(* process takes a message, reads the job again, talks to the provider and *)
(* writes the verdict; a transient failure publishes the message afresh    *)
(* with its retry count.  Messages are acknowledged late: the message of a *)
(* process that dies is delivered again.                                   *)
(***************************************************************************)
EXTENDS Naturals

CONSTANTS
  Keys,        \* dedupe keys: one job each
  Workers,     \* Celery processes and API requests
  NoKey,
  MaxRetries,  \* SEND_MAX_RETRIES
  FaultBound   \* bound of the model: processes that die, statements that fail

ASSUME NotificationAssumption ==
  NoKey \notin Keys /\ MaxRetries \in Nat /\ FaultBound \in Nat

VARIABLES
  job,       \* notification_jobs.status of each key
  mail,      \* messages in the broker, by key and retries made
  process,
  faults,
  copies,    \* history: copies the provider took
  slips,     \* history: times the fate of a copy was lost to its sender
  stranded   \* history: jobs whose message was lost by a fault

outbox == <<job, mail, copies, slips, stranded>>

JobStatus == {"none", "pending", "sent", "failed"}
Final == {"sent", "failed"}
AtRest == [at |-> "idle", key |-> NoKey, tries |-> 0, verdict |-> "none"]
Sending == {"check", "send", "mark", "raise", "ack"}
Calling == {"insert", "delay", "enqueued"}

OutboxInit ==
  /\ job = [k \in Keys |-> "none"]
  /\ mail = [k \in Keys |-> [n \in 0..MaxRetries |-> 0]]
  /\ copies = [k \in Keys |-> 0] /\ slips = [k \in Keys |-> 0]
  /\ process = [p \in Workers |-> AtRest]
  /\ faults = 0 /\ stranded = {}

-----------------------------------------------------------------------------
Key(p) == process[p].key
At(p, steps) == process[p].at \in steps
Goes(p, step) == process' = [process EXCEPT ![p].at = step]
Decides(p, step, verdict) ==
  process' = [process EXCEPT ![p].at = step, ![p].verdict = verdict]
Rests(p) == process' = [process EXCEPT ![p] = AtRest]
Published(k, n) == [mail EXCEPT ![k][n] = IF @ < 2 THEN @ + 1 ELSE @]
Fault == faults < FaultBound /\ faults' = faults + 1
Slip(k, slipped) == slips' = IF slipped THEN [slips EXCEPT ![k] = @ + 1] ELSE slips

(* A caller (a booking, a reminder, a password reset): the row, and its       *)
(* message if the row is new.                                                 *)
Call(p, k) ==
  /\ process[p] = AtRest /\ job[k] = "none"
  /\ process' = [process EXCEPT ![p] = [AtRest EXCEPT !.at = "insert", !.key = k]]
  /\ UNCHANGED <<outbox, faults>>

Insert(p) ==
  LET k == Key(p) IN
  /\ At(p, {"insert"})
  /\ IF job[k] = "none"
     THEN job' = [job EXCEPT ![k] = "pending"] /\ Goes(p, "delay")
     ELSE Goes(p, "enqueued") /\ UNCHANGED job
  /\ UNCHANGED <<mail, copies, slips, stranded, faults>>

Delay(p) ==
  /\ At(p, {"delay"})
  /\ mail' = Published(Key(p), 0)
  /\ Goes(p, "enqueued")
  /\ UNCHANGED <<job, copies, slips, stranded, faults>>

Return(p) ==
  /\ At(p, {"enqueued"}) /\ Rests(p)
  /\ UNCHANGED <<outbox, faults>>

(* A message that was never published.                                        *)
Unpublished(p) ==
  stranded' = IF At(p, {"delay"}) THEN stranded \union {Key(p)} ELSE stranded

(* The caller dies, or swallows what the database or the broker raised.       *)
LoseCall(p) ==
  /\ At(p, Calling) /\ Fault
  /\ Unpublished(p) /\ Rests(p)
  /\ UNCHANGED <<job, mail, copies, slips>>

-----------------------------------------------------------------------------
Take(p, k, n) ==
  /\ process[p] = AtRest /\ mail[k][n] > 0
  /\ mail' = [mail EXCEPT ![k][n] = @ - 1]
  /\ process' = [process EXCEPT ![p] = [AtRest EXCEPT !.at = "check", !.key = k, !.tries = n]]
  /\ UNCHANGED <<job, copies, slips, stranded, faults>>

ToSendAgain(k) == job[k] # "none"
ToSend(k) == job[k] \notin Final \union {"none"}

(* The job is read again, then the tenant's configuration.                    *)
Check(p, configured) ==
  /\ At(p, {"check"})
  /\ IF ~ToSend(Key(p)) THEN Goes(p, "ack")
     ELSE IF configured THEN Goes(p, "send") ELSE Decides(p, "mark", "failed")
  /\ UNCHANGED <<outbox, faults>>

TransientVerdictAlwaysRetried(n) == "pending"
TransientVerdict(n) == IF n < MaxRetries THEN "pending" ELSE "failed"

Send(p, answer) ==
  LET k == Key(p) IN
  /\ At(p, {"send"})
  /\ copies' = IF answer \in {"accepted", "lost"} THEN [copies EXCEPT ![k] = @ + 1] ELSE copies
  /\ Slip(k, answer = "lost")
  /\ Decides(p, "mark", CASE answer = "accepted" -> "sent"
                          [] answer = "refused" -> "failed"
                          [] OTHER -> TransientVerdict(process[p].tries))
  /\ UNCHANGED <<job, mail, stranded, faults>>

(* Only the flip to sent looks at the status it replaces.                     *)
Mark(p) ==
  LET k == Key(p)
      v == process[p].verdict IN
  /\ At(p, {"mark"})
  /\ job' = IF v = "sent" /\ job[k] # "pending" THEN job ELSE [job EXCEPT ![k] = v]
  /\ Goes(p, IF v = "pending" THEN "raise" ELSE "ack")
  /\ UNCHANGED <<mail, copies, slips, stranded, faults>>

(* self.retry: a new message, or none when the retries are used up.           *)
Raise(p) ==
  LET n == process[p].tries IN
  /\ At(p, {"raise"})
  /\ mail' = IF n < MaxRetries THEN Published(Key(p), n + 1) ELSE mail
  /\ Decides(p, "ack", "pending")
  /\ UNCHANGED <<job, copies, slips, stranded, faults>>

Ack(p) == At(p, {"ack"}) /\ Rests(p) /\ UNCHANGED <<outbox, faults>>

(* A statement of the task fails: retried like a transient error, but on the  *)
(* last attempt nothing marks the job.                                        *)
Break(p) ==
  /\ At(p, {"check", "mark"}) /\ Fault
  /\ Slip(Key(p), process[p].verdict = "sent")
  /\ stranded' = IF process[p].tries = MaxRetries THEN stranded \union {Key(p)} ELSE stranded
  /\ Goes(p, "raise")
  /\ UNCHANGED <<job, mail, copies>>

(* The process dies and its message comes back: also after it has published   *)
(* the retry, and there are two of them.                                      *)
LoseSender(p) ==
  LET s == process[p] IN
  /\ At(p, Sending) /\ Fault
  /\ mail' = Published(s.key, s.tries)
  /\ Slip(s.key, \/ s.at \in {"mark", "raise"} /\ s.verdict = "sent"
                 \/ s.at = "ack" /\ (s.verdict = "pending" \/ slips[s.key] > 0))
  /\ Rests(p)
  /\ UNCHANGED <<job, copies, stranded>>

-----------------------------------------------------------------------------
Work(p) ==
  \/ Insert(p) \/ Delay(p)
  \/ \E configured \in BOOLEAN : Check(p, configured)
  \/ \E answer \in {"accepted", "refused", "unreached", "lost"} : Send(p, answer)
  \/ Mark(p) \/ Raise(p) \/ Ack(p)

Deliver(p) == \E k \in Keys, n \in 0..MaxRetries : Take(p, k, n)

OutboxTypes ==
  /\ job \in [Keys -> JobStatus]
  /\ mail \in [Keys -> [0..MaxRetries -> 0..2]]
  /\ copies \in [Keys -> Nat] /\ slips \in [Keys -> Nat]
  /\ stranded \subseteq Keys /\ faults \in 0..FaultBound

(* A notification reaches the provider once, unless the fate of a copy was    *)
(* lost: an answer that never came, or a sender that died or failed between   *)
(* the provider's answer and the row, or between its retry and its            *)
(* acknowledgement.  After one such slip a job may have two senders, and a    *)
(* late "pending" opens it again: from then on any death before the           *)
(* acknowledgement may cost one copy more.                                    *)
CopiesAccounted == \A k \in Keys : copies[k] <= 1 + slips[k]

(* A job does not stay pending, unless a fault took its message: the process  *)
(* that inserted the row died before it published, or a statement failed on   *)
(* the last attempt.                                                          *)
NotificationSettles ==
  \A k \in Keys : job[k] = "pending" ~> job[k] # "pending" \/ k \in stranded
=============================================================================
