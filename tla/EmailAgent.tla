----------------------------- MODULE EmailAgent -----------------------------
(***************************************************************************)
(* The e-mail channel (email_agent/service.py): the executor that prepares *)
(* a task's one message and sends it or parks it as a draft, the staff     *)
(* requests that approve and discard drafts, the expiry of old drafts and  *)
(* the retry of a failed step.  One action per statement or provider call; *)
(* the status of the message and the status of its task are two rows that  *)
(* no transaction joins.  Wording, threads and the gate's decision table   *)
(* are abstract: composing and the gate answer what they may answer.       *)
(***************************************************************************)
EXTENDS Naturals

CONSTANTS
  Tasks,        \* e-mail tasks, each with at most one message
  Workers,      \* Celery processes that run agents.dispatch_due_tasks
  Requests,     \* API requests, and the beat job that expires drafts
  NoTask,       \* what an idle process works on
  MaxAttempts,  \* outreach_tasks.max_attempts
  FaultBound    \* bound of the model: processes lost and bookkeeping that fails

ASSUME EmailAssumption ==
  /\ NoTask \notin Tasks
  /\ Workers \intersect Requests = {}
  /\ MaxAttempts \in Nat \ {0}
  /\ FaultBound \in Nat

VARIABLES
  task,      \* outreach_tasks.status
  attempts,  \* outreach_tasks.attempts, counted up to MaxAttempts
  message,   \* email_messages.status of the task's message, "none" before it
  process,   \* what each worker and each request is about to do
  stopped,   \* tasks whose plan was stopped
  faults,    \* faults so far
  accepted,  \* history: copies the provider took, counted up to two
  retried,   \* history: tasks reaped, or whose provider's answer was lost
  stranded   \* history: tasks whose request ended between its statements, or
             \*          whose lease ended under a worker still running them

vars == <<task, attempts, message, process, stopped, faults, accepted, retried, stranded>>
history == <<stopped, faults, accepted, retried, stranded>>

Processes == Workers \union Requests
TaskStatus == {"scheduled", "in_progress", "pending", "completed", "failed", "cancelled",
               "escalated"}
MessageStatus == {"none", "draft", "approved", "sending", "sent", "failed", "discarded"}
Settleable == {"in_progress", "pending"}
Sendable == {"approved", "sending"}

Step == {"idle", "gate", "prepare", "compose", "send", "sender", "deliver", "mark_sent",
         "record", "verdict", "recheck", "accept", "close", "reopen"}
ProcessState == [at : Step, task : Tasks \union {NoTask},
                 verdict : TaskStatus \union {"none"}, tries : 0..MaxAttempts]
Idle == [at |-> "idle", task |-> NoTask, verdict |-> "none", tries |-> 0]
At(p, step, t) == process[p].at = step /\ process[p].task = t
Counted(n) == IF n < MaxAttempts THEN n + 1 ELSE n

Init ==
  /\ task = [t \in Tasks |-> "scheduled"]
  /\ attempts = [t \in Tasks |-> 0]
  /\ message = [t \in Tasks |-> "none"]
  /\ process = [p \in Processes |-> Idle]
  /\ stopped = {} /\ faults = 0 /\ retried = {} /\ stranded = {}
  /\ accepted = [t \in Tasks |-> 0]

-----------------------------------------------------------------------------
Starts(p, t, step) == process' = [process EXCEPT ![p].at = step, ![p].task = t]
Goes(p, step) == process' = [process EXCEPT ![p].at = step]
Ends(p) == process' = [process EXCEPT ![p] = Idle]
Concludes(p, v) ==
  process' = [process EXCEPT ![p].at = "verdict", ![p].verdict = v, ![p].tries = 0]

(* set_status: compare and set; what the callers do with FALSE is their       *)
(* business, and all but approve do nothing.                                  *)
Set(t, from, to) == IF message[t] \in from THEN [message EXCEPT ![t] = to] ELSE message

(* _retry_or_fail for the dispatcher, EMAIL_SEND_RETRY for an approval.       *)
RetryVerdict(p) ==
  IF p \in Workers /\ process[p].tries >= MaxAttempts THEN "failed" ELSE "scheduled"

Claim(w, t) ==
  /\ process[w] = Idle /\ task[t] = "scheduled"
  /\ task' = [task EXCEPT ![t] = "in_progress"]
  /\ Starts(w, t, "gate")
  /\ UNCHANGED <<attempts, message, history>>

CheckGate(w, t, answer) ==
  /\ At(w, "gate", t)
  /\ \/ answer = "refused" /\ Concludes(w, "cancelled") /\ UNCHANGED attempts
     \/ answer = "deferred" /\ Concludes(w, "scheduled") /\ UNCHANGED attempts
     \/ /\ answer = "passed"
        /\ attempts' = [attempts EXCEPT ![t] = Counted(@)]
        /\ process' = [process EXCEPT ![w].at = "prepare", ![w].tries = attempts'[t]]
  /\ UNCHANGED <<task, message, history>>

(* The message of an earlier attempt, if there is one.                        *)
Prepared == [draft |-> "pending", sent |-> "completed",
             failed |-> "cancelled", discarded |-> "cancelled"]
Prepare(w, t) ==
  /\ At(w, "prepare", t)
  /\ CASE message[t] = "none" -> Goes(w, "compose")
       [] message[t] \in Sendable -> Goes(w, "send")
       [] OTHER -> Concludes(w, Prepared[message[t]])
  /\ UNCHANGED <<task, attempts, message, history>>

(* Composed and inserted; a second message for the task breaks the unique     *)
(* index, which is one more error to retry.                                   *)
Compose(w, t, outcome) ==
  /\ At(w, "compose", t)
  /\ \/ outcome = "refused" /\ Concludes(w, "failed") /\ UNCHANGED message
     \/ outcome = "escalated" /\ Concludes(w, "escalated") /\ UNCHANGED message
     \/ /\ outcome = "error" \/ (outcome \in {"draft", "approved"} /\ message[t] # "none")
        /\ Concludes(w, RetryVerdict(w)) /\ UNCHANGED message
     \/ /\ outcome \in {"draft", "approved"} /\ message[t] = "none"
        /\ message' = [message EXCEPT ![t] = outcome]
        /\ IF outcome = "draft" THEN Concludes(w, "pending") ELSE Goes(w, "send")
  /\ UNCHANGED <<task, attempts, history>>

-----------------------------------------------------------------------------
(* send_message, by a worker or by an approval.                               *)
ReadMessage(p, t) ==
  /\ At(p, "send", t)
  /\ CASE message[t] \in Sendable -> Goes(p, "sender")
       [] OTHER -> IF p \in Workers THEN Concludes(p, "failed") ELSE Ends(p)
  /\ UNCHANGED <<task, attempts, message, history>>

CheckSender(p, t, ready) ==
  /\ At(p, "sender", t)
  /\ message' = Set(t, Sendable, IF ready THEN "sending" ELSE "failed")
  /\ IF ready THEN Goes(p, "deliver") ELSE Concludes(p, "failed")
  /\ UNCHANGED <<task, attempts, history>>

Taken(t, n) == [accepted EXCEPT ![t] = IF @ + n > 2 THEN 2 ELSE @ + n]

Deliver(p, t, answer) ==
  /\ At(p, "deliver", t)
  /\ \/ /\ answer = "accepted"
        /\ accepted' = Taken(t, 1) /\ Goes(p, "mark_sent") /\ UNCHANGED <<message, retried>>
     \/ /\ answer = "rejected"
        /\ message' = Set(t, {"sending"}, "failed") /\ Concludes(p, "failed")
        /\ UNCHANGED <<accepted, retried>>
     \/ /\ answer = "lost"   \* a timeout or a 5xx, after the copy was taken or before
        /\ \E n \in 0..1 : accepted' = Taken(t, n)
        /\ retried' = retried \union {t}
        /\ Concludes(p, RetryVerdict(p)) /\ UNCHANGED message
  /\ UNCHANGED <<task, attempts, stopped, faults, stranded>>

MarkSent(p, t) ==
  /\ At(p, "mark_sent", t)
  /\ message' = [message EXCEPT ![t] = "sent"]
  /\ Goes(p, "record")
  /\ UNCHANGED <<task, attempts, history>>

(* The cost row and the activity on the lead: a refusal fails the task of the *)
(* sent message, another error is retried by a worker, not caught by approve. *)
Record(p, t, outcome) ==
  /\ At(p, "record", t)
  /\ \/ outcome = "recorded" /\ Concludes(p, "completed") /\ UNCHANGED <<faults, stranded>>
     \/ /\ outcome = "error" /\ faults < FaultBound
        /\ faults' = faults + 1
        /\ \/ Concludes(p, "failed") /\ UNCHANGED stranded
           \/ p \in Workers /\ Concludes(p, RetryVerdict(p)) /\ UNCHANGED stranded
           \/ p \in Requests /\ Ends(p) /\ stranded' = stranded \union {t}
  /\ UNCHANGED <<task, attempts, message, stopped, accepted, retried>>

(* finish_task, reschedule_task: nothing happens to a row that moved on.      *)
Conclude(p, t) ==
  /\ At(p, "verdict", t)
  /\ task' = IF task[t] \in Settleable THEN [task EXCEPT ![t] = process[p].verdict] ELSE task
  /\ Ends(p)
  /\ UNCHANGED <<attempts, message, history>>

-----------------------------------------------------------------------------
Approve(r, t) ==
  /\ process[r] = Idle /\ message[t] = "draft"
  /\ Starts(r, t, "recheck")
  /\ UNCHANGED <<task, attempts, message, history>>

Recheck(r, t, answer) ==
  /\ At(r, "recheck", t)
  /\ CASE answer = "passed" -> Goes(r, "accept")
       [] answer = "refused" -> Goes(r, "close")
       [] answer = "deferred" -> Ends(r)
  /\ UNCHANGED <<task, attempts, message, history>>

AcceptWhateverHappened(r, t) ==
  /\ At(r, "accept", t)
  /\ message' = [message EXCEPT ![t] = "approved"]
  /\ Goes(r, "send")
  /\ UNCHANGED <<task, attempts, history>>
Accept(r, t) ==
  /\ At(r, "accept", t)
  /\ message' = Set(t, {"draft"}, "approved")
  /\ IF message[t] = "draft" THEN Goes(r, "send") ELSE Ends(r)
  /\ UNCHANGED <<task, attempts, history>>

Discard(r, t) ==
  /\ process[r] = Idle /\ message[t] = "draft"
  /\ Starts(r, t, "close")
  /\ UNCHANGED <<task, attempts, message, history>>

Close(r, t) ==
  /\ At(r, "close", t)
  /\ message' = Set(t, {"draft"}, "discarded")
  /\ Concludes(r, "cancelled")
  /\ UNCHANGED <<task, attempts, history>>

ExpireWithoutTask(r, t) ==
  /\ process[r] = Idle /\ message[t] = "draft"
  /\ message' = [message EXCEPT ![t] = "discarded"]
  /\ UNCHANGED <<task, attempts, process, history>>
ExpireDraft(r, t) ==
  /\ process[r] = Idle /\ message[t] = "draft"
  /\ message' = [message EXCEPT ![t] = "discarded"]
  /\ process' = [process EXCEPT ![r] = [Idle EXCEPT !.at = "verdict", !.task = t,
                                                    !.verdict = "cancelled"]]
  /\ UNCHANGED <<task, attempts, history>>

(* retry_task: the step first, then the message that failed to send.          *)
RetryTask(r, t) ==
  /\ process[r] = Idle /\ task[t] \in {"failed", "escalated"} /\ t \notin stopped
  /\ task' = [task EXCEPT ![t] = "scheduled"]
  /\ attempts' = [attempts EXCEPT ![t] = 0]
  /\ Starts(r, t, "reopen")
  /\ UNCHANGED <<message, history>>

Reopen(r, t) ==
  /\ At(r, "reopen", t)
  /\ message' = Set(t, {"failed"}, "approved")
  /\ Ends(r)
  /\ UNCHANGED <<task, attempts, history>>

-----------------------------------------------------------------------------
(* What the rest of the system does to the task (module Outreach).            *)
ReapTask(t) ==
  /\ task[t] = "in_progress"
  /\ task' = [task EXCEPT ![t] = "scheduled"]
  /\ retried' = retried \union {t}
  /\ stranded' = IF \E w \in Workers : process[w].task = t THEN stranded \union {t} ELSE stranded
  /\ UNCHANGED <<attempts, message, process, stopped, faults, accepted>>

StopTask(t) ==
  /\ t \notin stopped
  /\ stopped' = stopped \union {t}
  /\ task' = IF task[t] \in Settleable \union {"scheduled"}
             THEN [task EXCEPT ![t] = "cancelled"] ELSE task
  /\ UNCHANGED <<attempts, message, process, faults, accepted, retried, stranded>>

DismissTask(t) ==
  /\ task[t] \in {"failed", "escalated"}
  /\ task' = [task EXCEPT ![t] = "cancelled"]
  /\ UNCHANGED <<attempts, message, process, history>>

LoseProcess(p) ==
  /\ process[p] # Idle /\ faults < FaultBound
  /\ faults' = faults + 1
  /\ stranded' = IF p \in Requests THEN stranded \union {process[p].task} ELSE stranded
  /\ Ends(p)
  /\ UNCHANGED <<task, attempts, message, stopped, accepted, retried>>

-----------------------------------------------------------------------------
Answers == {"passed", "deferred", "refused"}
Outcomes == {"refused", "escalated", "error", "draft", "approved"}

Run(w, t) ==
  \/ Prepare(w, t)
  \/ \E a \in Answers : CheckGate(w, t, a)
  \/ \E o \in Outcomes : Compose(w, t, o)
Send(p, t) ==
  \/ ReadMessage(p, t) \/ MarkSent(p, t) \/ Conclude(p, t)
  \/ \E b \in BOOLEAN : CheckSender(p, t, b)
  \/ \E a \in {"accepted", "rejected", "lost"} : Deliver(p, t, a)
  \/ \E o \in {"recorded", "error"} : Record(p, t, o)
Asked(r, t) ==
  Approve(r, t) \/ Discard(r, t) \/ ExpireDraft(r, t) \/ RetryTask(r, t)
Proceed(r, t) ==
  \/ \E a \in Answers : Recheck(r, t, a)
  \/ Accept(r, t) \/ Close(r, t) \/ Reopen(r, t)

Next ==
  \/ \E t \in Tasks : ReapTask(t) \/ StopTask(t) \/ DismissTask(t)
  \/ \E p \in Processes : LoseProcess(p)
  \/ \E t \in Tasks, w \in Workers : Claim(w, t) \/ Run(w, t)
  \/ \E t \in Tasks, p \in Processes : Send(p, t)
  \/ \E t \in Tasks, r \in Requests : Asked(r, t) \/ Proceed(r, t)

(* A process that lives gets on; beat expires old drafts every five minutes   *)
(* however many requests staff make.                                          *)
Fairness ==
  /\ \A t \in Tasks, w \in Workers : WF_vars(Run(w, t))
  /\ \A t \in Tasks, p \in Processes : WF_vars(Send(p, t))
  /\ \A t \in Tasks, r \in Requests : WF_vars(Proceed(r, t))
  /\ \A t \in Tasks : SF_vars(\E r \in Requests : ExpireDraft(r, t))

Spec == Init /\ [][Next]_vars
FairSpec == Spec /\ Fairness

-----------------------------------------------------------------------------
TypeOK ==
  /\ task \in [Tasks -> TaskStatus]
  /\ attempts \in [Tasks -> 0..MaxAttempts]
  /\ message \in [Tasks -> MessageStatus]
  /\ process \in [Processes -> ProcessState]
  /\ stopped \subseteq Tasks /\ retried \subseteq Tasks /\ stranded \subseteq Tasks
  /\ faults \in 0..FaultBound
  /\ accepted \in [Tasks -> 0..2]

(* A contact gets a second copy of an e-mail only after the provider's answer *)
(* to the first was lost, or the step's lease ran out and another worker had  *)
(* it too: neither two approvals, nor an approval and an expiry, nor a retry  *)
(* of a failed step sends twice.                                              *)
OneCopyUnlessRetried == \A t \in Tasks : t \notin retried => accepted[t] <= 1

(* What staff discarded, or let expire, is not sent any more, whoever was     *)
(* about to approve it.                                                       *)
DiscardedStaysUnsent ==
  [][\A t \in Tasks : message[t] = "discarded" =>
       message'[t] = "discarded" /\ accepted'[t] = accepted[t]]_vars

(* A step parked for a human is settled: its draft is sent, discarded or      *)
(* expires, unless the request that was doing so died half-way, or two        *)
(* workers had the step because its lease was too short.                      *)
ParkedStepIsSettled ==
  \A t \in Tasks :
    task[t] = "pending" /\ message[t] = "draft" ~> task[t] # "pending" \/ t \in stranded
=============================================================================
