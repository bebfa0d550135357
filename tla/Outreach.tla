------------------------------ MODULE Outreach ------------------------------
(***************************************************************************)
(* The outreach plans of one tenant: the tables outreach_plans and         *)
(* outreach_tasks, the Celery workers that claim and run due tasks         *)
(* (agents/dispatch.py), the reaper, and everything that stops, erases or  *)
(* revives a plan or settles a task beside them.                           *)
(*                                                                         *)
(* Every action is one autocommitted SQL statement, or one gate or         *)
(* executor call, so two statements of one function interleave with        *)
(* everybody else's.  A transaction that stops plans is open from its      *)
(* UPDATE of the task rows (BeginStop) to its COMMIT (CommitStop): other   *)
(* connections run at READ COMMITTED, see the plan still active in         *)
(* between, and wait for the task rows it locked.                          *)
(*                                                                         *)
(* Time is abstract: a scheduled task may fall due, and a lease may run    *)
(* out, at any moment; the kill switches only make the dispatcher claim    *)
(* nothing and the gate defer, which it may do anyway.  The executors of   *)
(* the channels are not opened here: they return one of the statuses they  *)
(* may return.                                                             *)
(***************************************************************************)
EXTENDS Naturals, FiniteSets

CONSTANTS
  Contacts,      \* the people the tenant writes to and calls
  Plans,         \* plan ids, each drawn at most once (uuid4)
  Tasks,         \* task ids
  Workers,       \* Celery processes that run agents.dispatch_due_tasks
  ContactOf,     \* the contact a plan id would be created for
  PlanOf,        \* the plan a task id would belong to
  CallTasks,     \* the tasks whose channel is "call"; the others are e-mails
  NoTask,        \* what a worker between two tasks is running
  MaxAttempts,   \* max_attempts of every task
  AttemptBound,  \* bound of the model: no attempt is counted beyond it
  BatchBound     \* the LIMIT of one claim

ASSUME OutreachAssumption ==
  /\ ContactOf \in [Plans -> Contacts]
  /\ PlanOf \in [Tasks -> Plans]
  /\ CallTasks \subseteq Tasks
  /\ NoTask \notin Tasks
  /\ MaxAttempts \in Nat \ {0}
  /\ AttemptBound \in Nat
  /\ BatchBound \in Nat \ {0}

VARIABLES
  plan,        \* outreach_plans.status
  stopping,    \* plans an open transaction is stopping
  locked,      \* task rows that transaction has cancelled and not yet committed
  status,      \* outreach_tasks.status
  attempts,    \* outreach_tasks.attempts
  parked,      \* tasks with a draft or a live call somebody else will settle
  suppressed,  \* contacts on the suppression list
  worker,      \* what each worker process holds in memory
  contested,   \* history: tasks taken from a worker that still holds them
  revived,     \* history: tasks an admin retried while their plan was being stopped
  lateTouches  \* history: per contact and worker, touches made after the opt-out

rowVars == <<plan, stopping, locked, status, attempts>>
history == <<contested, revived, lateTouches>>
vars == <<rowVars, parked, suppressed, worker, history>>

-----------------------------------------------------------------------------
(* Status values of migration 0066, with "none" for a row that does not exist *)
(* yet and "erased" for a deleted one.  "failed" stands for failed and        *)
(* escalated, which every statement treats alike.                             *)

Live == {"pending", "scheduled", "in_progress"}              \* _NON_TERMINAL
Final == {"completed", "failed", "cancelled"}
Settleable == {"in_progress", "pending"}                     \* finish_task, reschedule_task
TaskStatus == Live \union Final \union {"none", "erased"}

(* What a worker is about to write to its task row: finish_task's statuses,   *)
(* and "scheduled" for reschedule_task.                                       *)
Verdicts == Final \union {"pending", "scheduled"}

(* Definitions named in a <What><Fault> way, each just before the one it      *)
(* would replace, are deliberately wrong variants: a model with one of them   *)
(* must break the property that guards against that fault.                    *)

TasksOf(p) == {t \in Tasks : PlanOf[t] = p}
LiveTasksOnlyScheduled(p) == {t \in TasksOf(p) : status[t] = "scheduled"}
LiveTasks(p) == {t \in TasksOf(p) : status[t] \in Live}
ActivePlans(c) == {p \in Plans : ContactOf[p] = c /\ plan[p] = "active"}
ContactOfTask(t) == ContactOf[PlanOf[t]]

WorkerState ==
  [pc : {"idle", "next", "gated", "run", "refund", "record"}, batch : SUBSET Tasks,
   task : Tasks \union {NoTask}, last : BOOLEAN, verdict : Verdicts \union {"none"}]
Idle == [pc |-> "idle", batch |-> {}, task |-> NoTask, last |-> FALSE, verdict |-> "none"]
Holds(w, t) == t \in worker[w].batch
Held(t) == \E w \in Workers : Holds(w, t)
HeldBeside(w, t) == \E v \in Workers \ {w} : Holds(v, t)
\* A worker past the gate is about to run, or is running, its executor.
PastGate(w) == worker[w].pc \in {"gated", "run"}

Init ==
  /\ plan = [p \in Plans |-> "none"]
  /\ stopping = {}
  /\ locked = {}
  /\ status = [t \in Tasks |-> "none"]
  /\ attempts = [t \in Tasks |-> 0]
  /\ parked = {}
  /\ suppressed = {}
  /\ worker = [w \in Workers |-> Idle]
  /\ contested = {}
  /\ revived = {}
  /\ lateTouches = [c \in Contacts |-> [w \in Workers |-> 0]]

-----------------------------------------------------------------------------
(* Planning, consent and the switches.                                        *)

(* create_plan_with_tasks: plan and tasks in one transaction;                 *)
(* uq_outreach_plans_active_contact refuses a second active plan, and policy  *)
(* may have dropped some of the steps.                                        *)
CreatePlan(p, T) ==
  /\ plan[p] = "none"
  /\ ActivePlans(ContactOf[p]) = {}
  /\ T # {} /\ T \subseteq TasksOf(p)
  /\ plan' = [plan EXCEPT ![p] = "active"]
  /\ status' = [t \in Tasks |-> IF t \in T THEN "scheduled" ELSE status[t]]
  /\ UNCHANGED <<stopping, locked, attempts, parked, suppressed,
                 worker, history>>

OptOut(c) ==
  /\ c \notin suppressed
  /\ suppressed' = suppressed \union {c}
  /\ UNCHANGED <<rowVars, parked, worker, history>>

(* delete_suppression: an admin removes the entry, and a later opt-out counts  *)
(* its late touches from zero.                                                 *)
LiftOptOut(c) ==
  /\ c \in suppressed
  /\ suppressed' = suppressed \ {c}
  /\ lateTouches' = [lateTouches EXCEPT ![c] = [w \in Workers |-> 0]]
  /\ UNCHANGED <<rowVars, parked, worker, contested, revived>>

-----------------------------------------------------------------------------
(* The dispatcher: one run of dispatch_due_tasks in worker w.                 *)

ClaimableWhileInProgress(t) == status[t] \in {"scheduled", "in_progress"} /\ t \notin locked
Claimable(t) == status[t] = "scheduled" /\ t \notin locked   \* FOR UPDATE SKIP LOCKED

ClaimDueTasks(w, S) ==
  /\ worker[w].pc = "idle"
  /\ S # {} /\ Cardinality(S) <= BatchBound
  /\ \A t \in S : Claimable(t)
  /\ status' = [t \in Tasks |-> IF t \in S THEN "in_progress" ELSE status[t]]
  /\ worker' = [worker EXCEPT ![w] = [Idle EXCEPT !.pc = "next", !.batch = S]]
  /\ UNCHANGED <<plan, stopping, locked, attempts, parked,
                 suppressed, history>>

(* What the gate (and the chat wait before it, and the executor lookup after  *)
(* it) may answer for contact c: a deferral (kill switches, channel, window,  *)
(* cadence, capacity, cost), a permanent block, or go; suppression is read    *)
(* afresh for every task and always blocks.                                   *)
GateAnswersIgnoringOptOut(c) == {"scheduled", "cancelled", "go"}
GateAnswers(c) == {"scheduled", "cancelled"} \union (IF c \in suppressed THEN {} ELSE {"go"})

CheckGate(w, t, answer) ==
  /\ worker[w].pc = "next"
  /\ Holds(w, t)
  /\ answer \in GateAnswers(ContactOfTask(t))
  /\ worker' = [worker EXCEPT
       ![w] = IF answer = "go" THEN [@ EXCEPT !.pc = "gated", !.task = t]
              ELSE [@ EXCEPT !.pc = "record", !.task = t, !.verdict = answer]]
  /\ UNCHANGED <<rowVars, parked, suppressed, history>>

(* mark_task_attempt has no status guard; the row of an erased contact makes  *)
(* int(None) raise outside the try block, which abandons the whole batch.     *)
MarkTaskAttempt(w) ==
  LET t == worker[w].task IN
  /\ worker[w].pc = "gated"
  /\ t \notin locked
  /\ attempts[t] < AttemptBound
  /\ IF status[t] = "erased"
     THEN /\ worker' = [worker EXCEPT ![w] = Idle]
          /\ contested' = {s \in contested : HeldBeside(w, s)}
          /\ UNCHANGED attempts
     ELSE /\ UNCHANGED contested
          /\ attempts' = [attempts EXCEPT ![t] = @ + 1]
          /\ worker' = [worker EXCEPT ![w].pc = "run", ![w].last = attempts[t] + 1 >= MaxAttempts]
  /\ UNCHANGED <<plan, stopping, locked, status, parked, suppressed, revived, lateTouches>>

(* The executor returns or raises; touch says whether a message left or a     *)
(* phone rang.  A transient error is retried below max_attempts and fails at  *)
(* it, a deterministic one fails at once, even after the message has left; a  *)
(* message found sent or discarded is not sent again; a parked task waits for *)
(* a reviewer or for the end of its call.                                     *)
ExecutorMay(verdict, touch, last) ==
  \/ verdict \in {"completed", "pending", "failed"}
  \/ verdict = "cancelled" /\ ~touch
  \/ verdict = "scheduled" /\ ~last

Execute(w, verdict, touch) ==
  LET t == worker[w].task
      c == ContactOfTask(t) IN
  /\ worker[w].pc = "run"
  /\ ExecutorMay(verdict, touch, worker[w].last)
  /\ worker' = [worker EXCEPT ![w].pc = "record", ![w].verdict = verdict]
  /\ parked' = IF verdict = "pending" THEN parked \union {t} ELSE parked
  /\ lateTouches' = IF touch /\ c \in suppressed
                    THEN [lateTouches EXCEPT ![c][w] = @ + 1] ELSE lateTouches
  /\ UNCHANGED <<rowVars, suppressed, contested, revived>>

(* DeferTask: nothing was sent, and the attempt is given back first.          *)
DeferExecution(w) ==
  /\ worker[w].pc = "run"
  /\ worker' = [worker EXCEPT ![w].pc = "refund", ![w].verdict = "scheduled"]
  /\ UNCHANGED <<rowVars, parked, suppressed, history>>

Refunded(t) == [attempts EXCEPT ![t] = IF @ > 0 THEN @ - 1 ELSE 0]

RefundAttempt(w) ==
  /\ worker[w].pc = "refund"
  /\ worker[w].task \notin locked
  /\ attempts' = Refunded(worker[w].task)
  /\ worker' = [worker EXCEPT ![w].pc = "record"]
  /\ UNCHANGED <<plan, stopping, locked, status, parked,
                 suppressed, history>>

(* finish_task and reschedule_task: whoever holds the task may write it, but  *)
(* only while it is in progress or parked.                                    *)
WrittenUnguarded(t, verdict) == [status EXCEPT ![t] = verdict]
Written(t, verdict) ==
  IF status[t] \in Settleable THEN [status EXCEPT ![t] = verdict] ELSE status

AfterTask(w) ==
  LET rest == worker[w].batch \ {worker[w].task} IN
  IF rest = {} THEN Idle ELSE [Idle EXCEPT !.pc = "next", !.batch = rest]

RecordVerdict(w) ==
  LET t == worker[w].task IN
  /\ worker[w].pc = "record"
  /\ t \notin locked
  /\ status' = Written(t, worker[w].verdict)
  /\ worker' = [worker EXCEPT ![w] = AfterTask(w)]
  /\ contested' = {s \in contested : s # t} \union (IF HeldBeside(w, t) THEN {t} ELSE {})
  /\ UNCHANGED <<plan, stopping, locked, attempts, parked,
                 suppressed, revived, lateTouches>>

(* The process is killed, or a lookup raises out of the loop: the tasks of    *)
(* the batch stay in_progress and nobody holds them.                          *)
LoseWorker(w) ==
  /\ worker[w].pc # "idle"
  /\ worker' = [worker EXCEPT ![w] = Idle]
  /\ contested' = {t \in contested : HeldBeside(w, t)}
  /\ UNCHANGED <<rowVars, parked, suppressed, revived, lateTouches>>

ExpirableOnlyParked(t) == status[t] = "pending" /\ t \notin locked
Expirable(t) == status[t] = "in_progress" /\ t \notin locked

ReapStaleTask(t) ==
  /\ Expirable(t)
  /\ status' = [status EXCEPT ![t] = "scheduled"]
  /\ contested' = IF Held(t) THEN contested \union {t} ELSE contested
  /\ UNCHANGED <<plan, stopping, locked, attempts, parked,
                 suppressed, worker, revived, lateTouches>>

-----------------------------------------------------------------------------
(* Somebody other than the worker settles a parked task: a reviewer approves, *)
(* discards or lets a draft expire, and an approved e-mail the provider did   *)
(* not take is handed back to the dispatcher; a call is hung up or reaped,    *)
(* which finishes it, retries it below max_attempts, or gives the attempt     *)
(* back and retries (the contact asked to be called later).  Another handler  *)
(* may have read the same draft or session as open and settle it again.       *)
SettleParked(t, verdict, callback) ==
  /\ t \in parked
  /\ t \notin locked
  /\ verdict \in {"completed", "failed", "cancelled", "scheduled"}
  /\ verdict = "scheduled" /\ t \in CallTasks => callback \/ attempts[t] < MaxAttempts
  /\ callback => verdict = "scheduled" /\ t \in CallTasks
  /\ verdict = "cancelled" => t \notin CallTasks
  /\ status' = Written(t, verdict)
  /\ attempts' = IF callback THEN Refunded(t) ELSE attempts
  /\ parked' \in {parked, parked \ {t}}
  /\ contested' = IF Held(t) THEN contested \union {t} ELSE contested
  /\ UNCHANGED <<plan, stopping, locked, suppressed,
                 worker, revived, lateTouches>>

(* Exceptions screen: a failed (or escalated) step of an active plan is       *)
(* scheduled again with fresh attempts, or dismissed.  The plan row is read,  *)
(* not locked: a stop that has not committed yet does not show.               *)
RetryTask(t) ==
  /\ status[t] = "failed"
  /\ plan[PlanOf[t]] = "active"
  /\ status' = [status EXCEPT ![t] = "scheduled"]
  /\ attempts' = [attempts EXCEPT ![t] = 0]
  /\ revived' = IF PlanOf[t] \in stopping THEN revived \union {t} ELSE revived
  /\ UNCHANGED <<plan, stopping, locked, parked, suppressed,
                 worker, contested, lateTouches>>

DismissTask(t) ==
  /\ status[t] = "failed"
  /\ status' = [status EXCEPT ![t] = "cancelled"]
  /\ UNCHANGED <<plan, stopping, locked, attempts, parked,
                 suppressed, worker, history>>

-----------------------------------------------------------------------------
(* Stopping plans.                                                            *)

Opened(P) ==
  /\ stopping' = stopping \union P
  /\ locked' = locked \union UNION {LiveTasks(p) : p \in P}

(* _stop_plan_in_tx up to its COMMIT: plan row and live task rows updated.    *)
BeginStop(p) ==
  /\ plan[p] = "active" /\ p \notin stopping
  /\ Opened({p})
  /\ UNCHANGED <<plan, status, attempts, parked, suppressed,
                 worker, history>>

(* stop_plan_if_empty: the same, as one statement, when no step is left.      *)
BeginStopIfEmpty(p) ==
  /\ LiveTasks(p) = {}
  /\ BeginStop(p)

Committed(P) ==
  /\ plan' = [p \in Plans |-> IF p \in P THEN "stopped" ELSE plan[p]]
  /\ status' = [t \in Tasks |-> IF t \in locked /\ PlanOf[t] \in P THEN "cancelled"
                                ELSE status[t]]
  /\ stopping' = stopping \ P
  /\ locked' = {t \in locked : PlanOf[t] \notin P}

CommitStop(p) ==
  /\ p \in stopping
  /\ Committed({p})
  /\ UNCHANGED <<attempts, parked, suppressed, worker,
                 history>>

(* cancel_channel_tasks: a bounce or a wrong number ends one channel of the   *)
(* contact's active plan.  A row another transaction holds is waited for.     *)
CancelChannelTasks(c, isCall) ==
  LET gone == {t \in Tasks : /\ PlanOf[t] \in ActivePlans(c)
                             /\ (t \in CallTasks) = isCall
                             /\ status[t] = "scheduled"} IN
  /\ gone # {} /\ gone \intersect locked = {}
  /\ status' = [t \in Tasks |-> IF t \in gone THEN "cancelled" ELSE status[t]]
  /\ UNCHANGED <<plan, stopping, locked, attempts, parked,
                 suppressed, worker, history>>

(* erase_agent_data: the contact's plans are deleted, their tasks cascade.    *)
ErasePlans(c) ==
  LET mine == {p \in Plans : ContactOf[p] = c /\ plan[p] \in {"active", "stopped"}} IN
  /\ mine # {} /\ mine \intersect stopping = {}
  /\ plan' = [p \in Plans |-> IF p \in mine THEN "erased" ELSE plan[p]]
  /\ status' = [t \in Tasks |-> IF PlanOf[t] \in mine /\ status[t] # "none" THEN "erased"
                                ELSE status[t]]
  /\ attempts' = [t \in Tasks |-> IF PlanOf[t] \in mine THEN 0 ELSE attempts[t]]
  /\ parked' = {t \in parked : PlanOf[t] \notin mine}
  /\ UNCHANGED <<stopping, locked, suppressed,
                 worker, history>>

-----------------------------------------------------------------------------
Dispatch(w) ==
  \/ \E S \in SUBSET Tasks : ClaimDueTasks(w, S)
  \/ \E t \in Tasks, a \in {"go", "cancelled", "scheduled"} : CheckGate(w, t, a)
  \/ MarkTaskAttempt(w)
  \/ \E v \in Verdicts, touch \in BOOLEAN : Execute(w, v, touch)
  \/ DeferExecution(w)
  \/ RefundAttempt(w)
  \/ RecordVerdict(w)
  \/ LoseWorker(w)

Next ==
  \/ \E w \in Workers : Dispatch(w)
  \/ \E t \in Tasks : ReapStaleTask(t)
  \/ \E t \in Tasks, v \in Verdicts, b \in BOOLEAN : SettleParked(t, v, b)
  \/ \E t \in Tasks : RetryTask(t) \/ DismissTask(t)
  \/ \E p \in Plans, T \in SUBSET Tasks : CreatePlan(p, T)
  \/ \E p \in Plans : BeginStop(p) \/ BeginStopIfEmpty(p) \/ CommitStop(p)
  \/ \E c \in Contacts, isCall \in BOOLEAN : CancelChannelTasks(c, isCall)
  \/ \E c \in Contacts : OptOut(c) \/ LiftOptOut(c) \/ ErasePlans(c)

(* Beat starts the reaper every five minutes, and PostgreSQL commits.         *)
Fairness ==
  /\ \A t \in Tasks : WF_vars(ReapStaleTask(t))
  /\ \A p \in Plans : WF_vars(CommitStop(p))

Spec == Init /\ [][Next]_vars
FairSpec == Spec /\ Fairness

-----------------------------------------------------------------------------
(* Properties.                                                                *)

TypeOK ==
  /\ plan \in [Plans -> {"none", "active", "stopped", "erased"}]
  /\ stopping \subseteq Plans
  /\ locked \subseteq Tasks
  /\ status \in [Tasks -> TaskStatus]
  /\ attempts \in [Tasks -> Nat]
  /\ parked \subseteq Tasks
  /\ suppressed \subseteq Contacts
  /\ worker \in [Workers -> WorkerState]
  /\ contested \subseteq Tasks
  /\ revived \subseteq Tasks
  /\ lateTouches \in [Contacts -> [Workers -> Nat]]

(* A worker past a claim works on a task of the batch it still holds.          *)
BatchOK ==
  \A w \in Workers : worker[w].pc \in {"gated", "run", "refund", "record"} =>
    worker[w].task \in worker[w].batch

(* "Their plan stops at once" (runbook section 3): a plan that is no longer   *)
(* active keeps no step that could still be claimed, run or settled, except   *)
(* a step an admin retried while the stop was committing.                     *)
StoppedPlanIsQuiet ==
  \A t \in Tasks : status[t] \in Live /\ plan[PlanOf[t]] # "active" => t \in revived

(* What holds while stops are open, the strengthening that makes the property  *)
(* above inductive: the locked rows are live rows of the plans being stopped,  *)
(* and of those rows only revived ones escape the commit.                      *)
StopsAreOpen ==
  /\ \A p \in stopping : plan[p] = "active"
  /\ \A t \in locked : PlanOf[t] \in stopping /\ status[t] \in Live
  /\ \A t \in Tasks : status[t] \in Live /\ PlanOf[t] \in stopping => t \in locked \union revived
  /\ \A t \in Tasks : plan[PlanOf[t]] = "none" => status[t] = "none"

(* The claim is exactly once: two workers hold one task only after the row    *)
(* was taken from a worker that was still running it, because its lease ran   *)
(* out, or a webhook, a reviewer or another holder settled it first.          *)
ClaimIsExclusive ==
  \A v, w \in Workers, t \in Tasks :
    v # w /\ Holds(v, t) /\ Holds(w, t) => t \in contested

(* Its strengthening: an uncontested holder's row is still in progress, or was *)
(* cancelled or erased under it, never scheduled for another claim.            *)
HolderOwnsRow ==
  \A w \in Workers, t \in Tasks :
    Holds(w, t) /\ t \notin contested => status[t] \in {"in_progress", "cancelled", "erased"}

(* After an opt-out every worker reaches the contact at most once more: the   *)
(* step it had already taken through the gate.  The rest of the batch it      *)
(* claimed before the opt-out is checked task by task.                        *)
OneLateTouchPerWorker ==
  \A c \in Contacts, w \in Workers : lateTouches[c][w] <= 1

(* Its strengthening: nobody is touched late before opting out, and a worker    *)
(* that has already made its late touch is not past the gate for that contact.  *)
LateTouchSpendsGate ==
  \A c \in Contacts, w \in Workers :
    /\ c \notin suppressed => lateTouches[c][w] = 0
    /\ lateTouches[c][w] = 1 => ~(PastGate(w) /\ ContactOfTask(worker[w].task) = c)

(* A completed or cancelled step is never touched again, whatever a stale     *)
(* worker, a late webhook or a second stop still tries to write; a failed one *)
(* leaves that state only through the exceptions screen.                      *)
Settled(t) ==
  /\ status[t] \in {"completed", "cancelled"} => status'[t] \in {status[t], "erased"}
  /\ status[t] = "failed" =>
       \/ status'[t] \in {status[t], "cancelled", "erased"}
       \/ status'[t] = "scheduled" /\ attempts'[t] = 0

FinalIsFinal == [][\A t \in Tasks : Settled(t)]_vars

(* A worker may die or hang at any point, and its tasks still come back:      *)
(* nothing stays in_progress for ever.                                        *)
ClaimedTaskIsReleased ==
  \A t \in Tasks : status[t] = "in_progress" ~> status[t] # "in_progress"
=============================================================================
