------------------------------ MODULE CallAgent -----------------------------
(***************************************************************************)
(* The call channel (call_agent/service.py): the executor that opens a     *)
(* session under the tenant's cap and dials, Plivo's webhooks that answer, *)
(* take turns and hang up, each possibly duplicated, late or lost, and the *)
(* reaper of sessions that never heard of their hangup.  One action per    *)
(* statement or provider call; a webhook reads its session when it starts  *)
(* and writes later.  What is said is abstract: a turn ends with one of    *)
(* the outcomes that settle a task differently.                            *)
(***************************************************************************)
EXTENDS Naturals, FiniteSets

CONSTANTS
  Tasks,        \* call tasks of one tenant
  Calls,        \* rows of call_sessions
  Workers,      \* Celery processes that run agents.dispatch_due_tasks
  Hooks,        \* webhook requests, and the beat job that reaps sessions
  NoTask, NoCall,
  Limit,        \* max_concurrent_calls
  MaxAttempts,  \* outreach_tasks.max_attempts
  FaultBound    \* bound of the model: how many workers and hooks are lost

ASSUME CallAssumption ==
  /\ NoTask \notin Tasks /\ NoCall \notin Calls /\ IsFiniteSet(Calls)
  /\ Limit \in Nat \ {0} /\ MaxAttempts \in Nat \ {0} /\ FaultBound \in Nat

VARIABLES
  task,       \* outreach_tasks.status
  attempts,   \* outreach_tasks.attempts, counted up to MaxAttempts
  tomorrow,   \* tasks rescheduled by RETRY_AFTER, a day away
  call,       \* the session rows
  line,       \* the provider's side of each call: "idle", "up" or "down"
  worker, hook,
  faults,
  completed,  \* history: call_completed events of each call, counted up to two
  stranded,   \* history: tasks that a process died on, after it had ended their
              \* session or when another dispatcher had them as well
  strays      \* history: calls that rang although placing them raised, and
              \* sessions that a late webhook set live after they had ended

vars ==
  <<task, attempts, tomorrow, call, line, worker, hook, faults, completed, stranded, strays>>
tasks == <<task, attempts, tomorrow>>
history == <<faults, completed, stranded, strays>>

TaskStatus == {"scheduled", "in_progress", "pending", "completed", "failed", "cancelled"}
Settleable == {"in_progress", "pending"}
Live == {"dialing", "in_progress", "transferring"}
Outcomes == {"none", "callback", "missed", "talked"}  \* missed: _RETRY_OUTCOMES
Session == [status : Live \union {"none", "closed"}, task : Tasks \union {NoTask},
            outcome : Outcomes, answered : BOOLEAN, ended : BOOLEAN]
NoSession == [status |-> "none", task |-> NoTask, outcome |-> "none",
              answered |-> FALSE, ended |-> FALSE]

WorkerState == [at : {"idle", "gate", "create", "dial", "verdict"}, task : Tasks \union {NoTask},
                call : Calls \union {NoCall}, tries : 0..MaxAttempts,
                verdict : TaskStatus \union {"none"}]
Idle == [at |-> "idle", task |-> NoTask, call |-> NoCall, tries |-> 0, verdict |-> "none"]
HookState == [at : {"idle", "answer", "turn", "hangup", "settle", "emit", "lost"},
              call : Calls \union {NoCall}, outcome : Outcomes]
Done == [at |-> "idle", call |-> NoCall, outcome |-> "none"]

Init ==
  /\ task = [t \in Tasks |-> "scheduled"]
  /\ attempts = [t \in Tasks |-> 0]
  /\ tomorrow = {}
  /\ call = [c \in Calls |-> NoSession]
  /\ line = [c \in Calls |-> "idle"]
  /\ worker = [w \in Workers |-> Idle]
  /\ hook = [h \in Hooks |-> Done]
  /\ faults = 0 /\ stranded = {} /\ strays = {}
  /\ completed = [c \in Calls |-> 0]

-----------------------------------------------------------------------------
CountActive == Cardinality({c \in Calls : call[c].status \in Live})
Counted(n) == IF n < MaxAttempts THEN n + 1 ELSE n
Refunded(n) == IF n > 0 THEN n - 1 ELSE 0

(* finish_task, reschedule_task                                               *)
Written(t, v) == IF task[t] \in Settleable THEN [task EXCEPT ![t] = v] ELSE task
Concludes(w, v) == worker' = [worker EXCEPT ![w].at = "verdict", ![w].verdict = v,
                                            ![w].tries = 0, ![w].call = NoCall]
RetryVerdict(w) == IF worker[w].tries >= MaxAttempts THEN "failed" ELSE "scheduled"

Claim(w, t) ==
  /\ worker[w] = Idle /\ task[t] = "scheduled" /\ t \notin tomorrow
  /\ task' = [task EXCEPT ![t] = "in_progress"]
  /\ worker' = [worker EXCEPT ![w].at = "gate", ![w].task = t]
  /\ UNCHANGED <<attempts, tomorrow, call, line, hook, history>>

CheckGate(w, answer) ==
  /\ worker[w].at = "gate"
  /\ LET t == worker[w].task IN
     \/ answer = "refused" /\ Concludes(w, "cancelled") /\ UNCHANGED attempts
     \/ /\ answer = "deferred" \/ (answer = "passed" /\ CountActive >= Limit)
        /\ Concludes(w, "scheduled") /\ UNCHANGED attempts
     \/ /\ answer = "passed" /\ CountActive < Limit
        /\ attempts' = [attempts EXCEPT ![t] = Counted(@)]
        /\ worker' = [worker EXCEPT ![w].at = "create", ![w].tries = attempts'[t]]
  /\ UNCHANGED <<task, tomorrow, call, line, hook, history>>

(* create_session: the count and the INSERT under one advisory lock; over the *)
(* cap the attempt is given back.                                             *)
HasRoomTrustingTheGate == TRUE
HasRoom == CountActive < Limit

CreateSession(w, c) ==
  /\ worker[w].at = "create" /\ call[c] = NoSession
  /\ LET t == worker[w].task IN
     IF HasRoom
     THEN /\ call' = [call EXCEPT ![c].status = "dialing", ![c].task = t]
          /\ worker' = [worker EXCEPT ![w].at = "dial", ![w].call = c]
          /\ UNCHANGED attempts
     ELSE /\ attempts' = [attempts EXCEPT ![t] = Refunded(@)]
          /\ Concludes(w, "scheduled")
          /\ UNCHANGED call
  /\ UNCHANGED <<task, tomorrow, line, hook, history>>

(* No number to dial, or the channel is not set up.                           *)
RefuseCall(w) ==
  /\ worker[w].at = "create" /\ Concludes(w, "failed")
  /\ UNCHANGED <<tasks, call, line, hook, history>>

(* The provider rings, refuses, or its answer is lost with the phone ringing  *)
(* or not; the session of a call that raised is closed.  A step that breaks   *)
(* outside the provider's call leaves the session as it is, ringing or not.   *)
Dial(w, answer) ==
  LET c == worker[w].call IN
  /\ worker[w].at = "dial"
  /\ \/ answer \in {"placed", "broken"} /\ UNCHANGED call
     \/ /\ answer \in {"refused", "lost"}
        /\ call' = [call EXCEPT ![c].status = "closed", ![c].outcome = "missed", ![c].ended = TRUE]
  /\ \E rings \in BOOLEAN :
       /\ answer = "placed" => rings
       /\ answer = "refused" => ~rings
       /\ line' = IF rings THEN [line EXCEPT ![c] = "up"] ELSE line
       /\ strays' = IF answer = "lost" /\ rings THEN strays \union {c} ELSE strays
  /\ Concludes(w, CASE answer = "placed" -> "pending"
                     [] answer = "refused" -> "failed"
                     [] OTHER -> RetryVerdict(w))
  /\ UNCHANGED <<tasks, hook, faults, completed, stranded>>

Conclude(w) ==
  /\ worker[w].at = "verdict"
  /\ task' = Written(worker[w].task, worker[w].verdict)
  /\ worker' = [worker EXCEPT ![w] = Idle]
  /\ UNCHANGED <<attempts, tomorrow, call, line, hook, history>>

ReapTask(t) ==
  /\ task[t] = "in_progress"
  /\ task' = [task EXCEPT ![t] = "scheduled"]
  /\ UNCHANGED <<attempts, tomorrow, call, line, worker, hook, history>>

(* retry_task of the exceptions screen, _stop_plan_in_tx.                     *)
RetryTask(t) ==
  /\ task[t] = "failed"
  /\ task' = [task EXCEPT ![t] = "scheduled"]
  /\ attempts' = [attempts EXCEPT ![t] = 0]
  /\ UNCHANGED <<tomorrow, call, line, worker, hook, history>>

StopTask(t) ==
  /\ task[t] \in Settleable \union {"scheduled"}
  /\ task' = [task EXCEPT ![t] = "cancelled"]
  /\ UNCHANGED <<attempts, tomorrow, call, line, worker, hook, history>>

-----------------------------------------------------------------------------
(* inbound_answer: no task, and no cap.                                       *)
AnswerInbound(c) ==
  /\ call[c] = NoSession
  /\ call' = [call EXCEPT ![c].status = "in_progress", ![c].answered = TRUE]
  /\ line' = [line EXCEPT ![c] = "up"]
  /\ UNCHANGED <<tasks, worker, hook, history>>

LineEnds(c) ==
  /\ line[c] = "up"
  /\ line' = [line EXCEPT ![c] = "down"]
  /\ UNCHANGED <<tasks, call, worker, hook, history>>

Begins(h, c, step, outcome) ==
  /\ hook[h] = Done
  /\ hook' = [hook EXCEPT ![h] = [at |-> step, call |-> c, outcome |-> outcome]]
  /\ UNCHANGED <<tasks, line, worker, history>>
Ends(h) == hook' = [hook EXCEPT ![h] = Done]

StartAnswer(h, c) ==
  line[c] = "up" /\ ~call[c].answered /\ Begins(h, c, "answer", "none") /\ UNCHANGED call

Answer(h) ==
  LET c == hook[h].call IN
  /\ hook[h].at = "answer"
  /\ call' = [call EXCEPT ![c].status = "in_progress", ![c].answered = TRUE]
  /\ strays' = IF call[c].ended THEN strays \union {c} ELSE strays
  /\ Ends(h)
  /\ UNCHANGED <<tasks, line, worker, faults, completed, stranded>>

StartTurn(h, c) ==
  line[c] = "up" /\ call[c].answered /\ Begins(h, c, "turn", "none") /\ UNCHANGED call

(* handle_turn: it decides the call, hands it over, or listens on.            *)
Turn(h, outcome, transfer) ==
  LET c == hook[h].call IN
  /\ hook[h].at = "turn"
  /\ call' = [call EXCEPT ![c].outcome = IF outcome = "none" THEN @ ELSE outcome,
                          ![c].status = IF transfer THEN "transferring" ELSE @]
  /\ transfer => outcome = "talked"
  /\ strays' = IF transfer /\ call[c].ended THEN strays \union {c} ELSE strays
  /\ Ends(h)
  /\ UNCHANGED <<tasks, line, worker, faults, completed, stranded>>

(* on_hangup: what it read decides, whatever the row becomes meanwhile.       *)
HangupOutcome(s) ==
  IF ~s.answered THEN "missed" ELSE IF s.outcome = "none" THEN "talked" ELSE s.outcome

StartHangup(h, c) ==
  /\ line[c] = "down" /\ call[c].status # "none" /\ ~call[c].ended
  /\ Begins(h, c, "hangup", HangupOutcome(call[c]))
  /\ UNCHANGED call

EndSession(h) ==
  LET c == hook[h].call IN
  /\ hook[h].at = "hangup"
  /\ call' = [call EXCEPT ![c].status = "closed", ![c].ended = TRUE,
                          ![c].outcome = hook[h].outcome]
  /\ hook' = [hook EXCEPT ![h].at = IF call[c].task = NoTask THEN "emit" ELSE "settle"]
  /\ UNCHANGED <<tasks, line, worker, history>>

(* A day's wait, or the end of the task.                                      *)
SettleAs(t, v) ==
  /\ task' = Written(t, v)
  /\ tomorrow' = IF v = "scheduled" /\ task[t] \in Settleable
                 THEN tomorrow \union {t} ELSE tomorrow
AfterAttempt(t) == IF attempts[t] < MaxAttempts THEN "scheduled" ELSE "failed"

Settle(h) ==
  LET t == call[hook[h].call].task
      o == hook[h].outcome IN
  /\ hook[h].at = "settle"
  /\ attempts' = IF o = "callback" THEN [attempts EXCEPT ![t] = Refunded(@)] ELSE attempts
  /\ SettleAs(t, IF o = "callback" THEN "scheduled"
                 ELSE IF o = "missed" THEN AfterAttempt(t) ELSE "completed")
  /\ hook' = [hook EXCEPT ![h].at = "emit"]
  /\ UNCHANGED <<call, line, worker, history>>

Emit(h) ==
  LET c == hook[h].call IN
  /\ hook[h].at = "emit"
  /\ completed' = [completed EXCEPT ![c] = IF @ < 2 THEN @ + 1 ELSE @]
  /\ Ends(h)
  /\ UNCHANGED <<tasks, call, line, worker, faults, stranded, strays>>

-----------------------------------------------------------------------------
(* reap_stale_calls, past the longest call and ten minutes: the line is down  *)
(* and the webhooks of the call are done with.                                *)
ReapableUnlessTransferring(s) == s.status \in {"dialing", "in_progress"}
Reapable(s) == s.status \in Live

Busy(c) == (\E h \in Hooks : hook[h].call = c) \/ (\E w \in Workers : worker[w].call = c)

ReapCall(h, c) ==
  /\ Reapable(call[c]) /\ line[c] # "up" /\ ~Busy(c)
  /\ hook[h] = Done
  /\ call' = [call EXCEPT ![c].status = "closed", ![c].ended = TRUE,
                          ![c].outcome = IF @ = "none" THEN "missed" ELSE @]
  /\ hook' = [hook EXCEPT ![h] = IF call[c].task = NoTask THEN Done
                                 ELSE [at |-> "lost", call |-> c, outcome |-> "none"]]
  /\ UNCHANGED <<tasks, line, worker, history>>

ForgetLost(h) ==
  /\ hook[h].at = "lost" /\ Ends(h)
  /\ UNCHANGED <<tasks, call, line, worker, history>>
SettleLost(h) ==
  LET t == call[hook[h].call].task IN
  /\ hook[h].at = "lost"
  /\ SettleAs(t, AfterAttempt(t))
  /\ Ends(h)
  /\ UNCHANGED <<attempts, call, line, worker, history>>

(* The day is over: by then nobody is at work on the task and its calls have  *)
(* ended (a call lasts half an hour at most, its reaper waits ten minutes).   *)
NextDay(t) ==
  /\ t \in tomorrow
  /\ \A w \in Workers : worker[w].task # t
  /\ \A c \in Calls : call[c].task = t => call[c].status \notin Live /\ ~Busy(c)
  /\ tomorrow' = tomorrow \ {t}
  /\ UNCHANGED <<task, attempts, call, line, worker, hook, history>>

Shared(t) == task[t] = "pending" \/ Cardinality({w \in Workers : worker[w].task = t}) > 1

LoseWorker(w) ==
  /\ worker[w] # Idle /\ faults < FaultBound
  /\ faults' = faults + 1
  /\ stranded' = stranded \union {t \in Tasks : worker[w].task = t /\ Shared(t)}
  /\ worker' = [worker EXCEPT ![w] = Idle]
  /\ UNCHANGED <<tasks, call, line, hook, completed, strays>>

LoseHook(h) ==
  /\ hook[h] # Done /\ faults < FaultBound
  /\ faults' = faults + 1
  /\ stranded' = IF hook[h].at \in {"settle", "lost"}
                 THEN stranded \union {call[hook[h].call].task} ELSE stranded
  /\ Ends(h)
  /\ UNCHANGED <<tasks, call, line, worker, completed, strays>>

-----------------------------------------------------------------------------
Execute(w) ==
  \/ \E a \in {"passed", "deferred", "refused"} : CheckGate(w, a)
  \/ \E c \in Calls : CreateSession(w, c)
  \/ \E a \in {"placed", "refused", "lost", "broken"} : Dial(w, a)
  \/ RefuseCall(w) \/ Conclude(w)
Arrive(h, c) == StartAnswer(h, c) \/ StartTurn(h, c) \/ StartHangup(h, c)
Proceed(h) ==
  \/ Answer(h) \/ EndSession(h) \/ Settle(h) \/ Emit(h) \/ SettleLost(h)
  \/ \E o \in Outcomes, b \in BOOLEAN : Turn(h, o, b)

Next ==
  \/ \E t \in Tasks : ReapTask(t) \/ RetryTask(t) \/ StopTask(t) \/ NextDay(t)
  \/ \E w \in Workers : Execute(w) \/ LoseWorker(w) \/ \E t \in Tasks : Claim(w, t)
  \/ \E c \in Calls : AnswerInbound(c) \/ LineEnds(c)
  \/ \E h \in Hooks : Proceed(h) \/ LoseHook(h)
  \/ \E h \in Hooks, c \in Calls : Arrive(h, c) \/ ReapCall(h, c)

(* Calls end (the provider has a time limit), whoever is at work and lives    *)
(* gets on, and beat reaps every five minutes.  Nothing obliges the provider  *)
(* to deliver a webhook.                                                      *)
Fairness ==
  /\ \A c \in Calls : WF_vars(LineEnds(c)) /\ SF_vars(\E h \in Hooks : ReapCall(h, c))
  /\ \A w \in Workers : WF_vars(Execute(w))
  /\ \A h \in Hooks : WF_vars(Proceed(h))

Spec == Init /\ [][Next]_vars
FairSpec == Spec /\ Fairness

-----------------------------------------------------------------------------
TypeOK ==
  /\ task \in [Tasks -> TaskStatus]
  /\ attempts \in [Tasks -> 0..MaxAttempts]
  /\ tomorrow \subseteq Tasks /\ stranded \subseteq Tasks /\ strays \subseteq Calls
  /\ call \in [Calls -> Session]
  /\ line \in [Calls -> {"idle", "up", "down"}]
  /\ worker \in [Workers -> WorkerState]
  /\ hook \in [Hooks -> HookState]
  /\ faults \in 0..FaultBound
  /\ completed \in [Calls -> 0..2]

(* What is true of whoever is at work: a worker past its claim has a task, a   *)
(* dialling one a session, and a webhook is about a session that exists.       *)
WorkersOK ==
  \A w \in Workers :
    /\ worker[w].at # "idle" => worker[w].task \in Tasks
    /\ worker[w].at = "dial" => worker[w].call \in Calls /\ call[worker[w].call].status # "none"
    /\ worker[w].at = "verdict" => worker[w].verdict \in TaskStatus
HooksOK ==
  \A h \in Hooks :
    /\ hook[h].at # "idle" => hook[h].call \in Calls /\ call[hook[h].call].status # "none"
    /\ hook[h].at \in {"settle", "lost"} => call[hook[h].call].task # NoTask
(* A closed session has ended, and the line of a call nobody made is idle.      *)
SessionsOK ==
  \A c \in Calls :
    /\ call[c].status = "closed" => call[c].ended
    /\ call[c].status = "none" => call[c].task = NoTask /\ line[c] = "idle"

(* What the count of create_session rests on: a call is up only under a live   *)
(* session; a hangup is of a call that is over; a session being dialled is its *)
(* dispatcher's alone, and no webhook knows of it yet.                         *)
LiveWhileUp == \A c \in Calls \ strays : line[c] = "up" => call[c].status \in Live
HungUpIsDown == \A h \in Hooks : hook[h].at = "hangup" => line[hook[h].call] = "down"
DialledAlone ==
  \A w \in Workers : worker[w].at = "dial" =>
    LET c == worker[w].call IN
    /\ call[c].status = "dialing" /\ line[c] = "idle"
    /\ \A h \in Hooks : hook[h].at # "idle" => hook[h].call # c
    /\ \A u \in Workers \ {w} : worker[u].at = "dial" => worker[u].call # c
LinesOK == LiveWhileUp /\ HungUpIsDown /\ DialledAlone

(* max_concurrent_calls bounds the outbound calls that are up at the provider  *)
(* or live in the table, however many dispatchers pass the gate at once and    *)
(* whatever inbound calls take their share.  Left out are the strays alone: a  *)
(* call that rings although its place_call raised, whose session is closed and *)
(* uncounted while the retry dials again; and a session set live by a webhook  *)
(* that came after its end, which create_session counts but never admitted.    *)
OnTheLine ==
  {c \in Calls : call[c].task # NoTask /\ (line[c] = "up" \/ call[c].status \in Live)}
CapHolds == Cardinality(OnTheLine \ strays) <= Limit

(* A call gives its place back: no lost hangup, late answer or dead worker    *)
(* keeps a session live, and the tenant's dispatcher deferred, for ever.      *)
SlotIsFreed == \A c \in Calls : call[c].status \in Live ~> call[c].status \notin Live

(* A step parked on a call is settled, by the hangup or by the reaper, unless *)
(* the process that had ended the session died before it wrote the task, or   *)
(* two dispatchers had the step: one may have parked it, late, on a call that *)
(* was over, and the other died with it.                                      *)
ParkedCallIsSettled ==
  \A t \in Tasks : task[t] = "pending" ~> task[t] # "pending" \/ t \in stranded
=============================================================================
