------------------------------ MODULE Cadence ------------------------------
(***************************************************************************)
(* When the steps of one contact's plan go out: the planner and its policy *)
(* (agents/planner.py, agents/policy.py), the compliance gate              *)
(* (agents/compliance.py), the dispatcher that asks it before every step,  *)
(* the reviewer who asks it again before a draft is sent, and the end of a *)
(* call.                                                                   *)
(*                                                                         *)
(* Time passes in ticks.  A due date is the ticks left until scheduled_at, *)
(* the last touch is the ticks since completed_at, and the contact-local   *)
(* clock is the tick of the day.  A dispatcher reads the clock once for    *)
(* its whole batch (dispatch_due_tasks) and goes on using that reading: its *)
(* age is part of the dispatcher.  Past the gate a step is yet to be sent; *)
(* whatever the executors meet on the way, and workers that die or hang    *)
(* (Outreach, EmailAgent, CallAgent), is left out here: the executor       *)
(* returns one of its results and that is written at once.                 *)
(***************************************************************************)
EXTENDS Integers, Sequences, FiniteSets

CONSTANTS
  DayLength,        \* ticks of a day
  CallOpen, CallClose, MailOpen, MailClose,  \* the tenant's windows, Close excluded
  Gap,              \* min_hours_between_touches
  MaxTouches,       \* max_touches_per_contact
  MaxCallAttempts,  \* max_call_attempts, also the max_attempts of a call step
  MailAttempts,     \* max_attempts of an e-mail step
  StepGap,          \* ticks between the steps of the default plan (2 days)
  EarlierTouches,   \* what the model lets the contact's earlier plans have used
  EarlierCalls,     \* of the touch budget and of the call attempts
  BatchSpan,        \* bound of the model: ticks a batch may take
  HoldBound         \* bound of the model: due dates moved by anything but the gate

ASSUME CadenceAssumption ==
  /\ {DayLength, Gap, MaxTouches, MaxCallAttempts, MailAttempts, StepGap} \subseteq Nat \ {0}
  /\ EarlierTouches \subseteq 0..MaxTouches /\ EarlierCalls \subseteq 0..MaxCallAttempts
  /\ {BatchSpan, HoldBound} \subseteq Nat
  /\ {CallOpen, CallClose, MailOpen, MailClose} \subseteq 0..DayLength
  /\ CallOpen < CallClose /\ MailOpen < MailClose

VARIABLES
  hour,      \* the contact-local tick of the day
  contact,   \* what the planner and the gate look up about the contact
  since,     \* ticks since the last completed touch, Long when there is none
  touches,   \* completed touches of the last 365 days
  planKind,  \* outreach_plans.plan.kind, "none" before there is a plan
  task,      \* outreach_tasks of the plan, by step_index + 1
  run,       \* one run of dispatch_due_tasks: its batch, its step, its clock's age
  thanks,    \* a thank-you is owed for a call that has just ended (after_call)
  holds      \* how much of HoldBound is used

vars == <<hour, contact, since, touches, planKind, task, run, thanks, holds>>

Long == Gap + BatchSpan          \* any longer makes no difference to the gap
Positive(n) == IF n > 0 THEN n ELSE 0
AtMost(n, m) == IF n < m THEN n ELSE m

Idle == [pc |-> "idle", batch |-> {}, task |-> 0, age |-> 0, gated |-> 0]

TicksTo(h, open) == (open - h) % DayLength
Within(h, open, close) == open <= h /\ h < close
\* Ticks from a moment whose hour is h to the first moment inside the window.
NextOpen(h, open, close) == IF Within(h, open, close) THEN 0 ELSE TicksTo(h, open)

-----------------------------------------------------------------------------
(* The planner: a proposal, and what policy.validate makes of it.             *)

Step(channel, offset, chat) == [channel |-> channel, offset |-> offset, chat |-> chat]

DefaultSteps == <<Step("email", 0, FALSE), Step("call", StepGap, FALSE),
                  Step("email", 2 * StepGap, FALSE)>>
CallFirstSteps(chat) == <<Step("call", 0, chat), Step("email", 0, FALSE),
                          Step("email", 2 * StepGap, FALSE)>>

\* default cadence of both kinds, a form or a chat that asked for a call, and
\* the follow-up once a conversation goes quiet
Proposals ==
  [kind : {"inbound_auto", "outbound"}, steps : {DefaultSteps}] \union
  [kind : {"inbound_auto"}, steps : {CallFirstSteps(c) : c \in BOOLEAN}] \union
  [kind : {"inbound_auto", "outbound"}, steps : {<<Step("email", StepGap, FALSE)>>}]

Allowed(s, kept) ==
  /\ s.channel \in contact.consent
  /\ s.channel = "call" => contact.zone
  /\ kept < MaxTouches - touches

(* A dropped step gives the time until the next one back; the others keep the *)
(* gap to the step before them (the first one to the last touch, unless they  *)
(* have just reached out) and calls move into the calling window.             *)
PlacedAtAnyHour(s, at) == at
Placed(s, at) ==
  IF s.channel = "call" THEN at + NextOpen((hour + at) % DayLength, CallOpen, CallClose) ELSE at

Spaced(at, previous) == IF at < previous + Gap THEN previous + Gap ELSE at

Validated(kind, steps) ==
  LET upTo[i \in 0..Len(steps)] ==
        IF i = 0 THEN [kept |-> <<>>, previous |-> -since, freed |-> 0]
        ELSE LET s == steps[i]
                 before == upTo[i - 1]
                 planned == s.offset - before.freed
                 at == Placed(s, IF kind = "inbound_auto" /\ i = 1 THEN planned
                                 ELSE Spaced(planned, before.previous)) IN
             IF Allowed(s, Len(before.kept))
             THEN [before EXCEPT !.kept = Append(@, [s EXCEPT !.offset = at]), !.previous = at]
             ELSE IF i < Len(steps)
                  THEN [before EXCEPT !.freed = @ + steps[i + 1].offset - s.offset]
                  ELSE before
  IN upTo[Len(steps)].kept

Scheduled(s) == [channel |-> s.channel, chat |-> s.chat, thanks |-> FALSE,
                 status |-> "scheduled", due |-> s.offset, attempts |-> 0]

Init ==
  /\ hour \in 0..DayLength - 1
  /\ contact \in [consent : SUBSET {"email", "call"}, zone : BOOLEAN,
                  calls : EarlierCalls]
  /\ since \in 0..Gap - 1 \union {Long}
  /\ touches \in EarlierTouches
  /\ touches = 0 => since = Long
  /\ planKind = "none"
  /\ task = <<>>
  /\ run = Idle
  /\ thanks = FALSE
  /\ holds = 0

CreatePlan(proposal) ==
  LET kept == Validated(proposal.kind, proposal.steps) IN
  /\ planKind = "none"
  /\ kept # <<>>
  /\ planKind' = proposal.kind
  /\ task' = [i \in 1..Len(kept) |-> Scheduled(kept[i])]
  /\ UNCHANGED <<hour, contact, since, touches, run, thanks, holds>>

-----------------------------------------------------------------------------
(* The gate.                                                                  *)

Purpose(i) ==
  IF task[i].channel = "call" /\ task[i].chat THEN "first_response"
  ELSE IF task[i].channel = "email" /\ i = 1 /\ planKind = "inbound_auto" THEN "first_response"
  ELSE IF task[i].thanks THEN "after_call" ELSE "outreach"

(* service.approve: anything with a task is outreach to it.                   *)
ReviewPurpose(i) == "outreach"

CallAttempts ==
  contact.calls + Cardinality({p \in (DOMAIN task) \X (1..MaxCallAttempts) :
                                 task[p[1]].channel = "call" /\ p[2] <= task[p[1]].attempts})

(* _decide, asked age ticks after its caller read the clock.                  *)
OutsideWindowOfOutreach(i, purpose, h) ==
  purpose = "outreach" /\
    IF task[i].channel = "call" THEN ~Within(h, CallOpen, CallClose)
    ELSE contact.zone /\ ~Within(h, MailOpen, MailClose)
OutsideWindow(i, purpose, h) ==
  IF task[i].channel = "call" THEN ~Within(h, CallOpen, CallClose)
  ELSE contact.zone /\ purpose = "outreach" /\ ~Within(h, MailOpen, MailClose)

TooSoonRoundedUp(age) == since < Long /\ since - age + 1 < Gap
TooSoon(age) == since < Long /\ since - age < Gap

GateCode(i, purpose, age) ==
  IF task[i].channel \notin contact.consent THEN "NO_CONSENT"
  ELSE IF task[i].channel = "call" /\ ~contact.zone THEN "CONTACT_TIMEZONE_UNKNOWN"
  ELSE IF OutsideWindow(i, purpose, (hour - age) % DayLength) THEN "OUTSIDE_WINDOW"
  ELSE IF purpose = "outreach" /\ TooSoon(age) THEN "CADENCE_LIMIT"
  ELSE IF touches >= MaxTouches THEN "MAX_TOUCHES"
  ELSE IF task[i].channel = "call" /\ CallAttempts >= MaxCallAttempts THEN "MAX_ATTEMPTS"
  ELSE "go"

PermanentWithoutLimits == {"NO_CONSENT", "CONTACT_TIMEZONE_UNKNOWN"}
Permanent == {"NO_CONSENT", "CONTACT_TIMEZONE_UNKNOWN", "MAX_TOUCHES", "MAX_ATTEMPTS"}

\* retry_at of a block, in ticks from the reading of the clock
RetryIn(i, code, age) ==
  LET h == (hour - age) % DayLength IN
  CASE code = "OUTSIDE_WINDOW" /\ task[i].channel = "call" -> NextOpen(h, CallOpen, CallClose)
    [] code = "OUTSIDE_WINDOW" /\ task[i].channel = "email" -> NextOpen(h, MailOpen, MailClose)
    [] code = "CADENCE_LIMIT" -> Gap - (since - age)
    [] OTHER -> 1

-----------------------------------------------------------------------------
(* The rows.  Nobody else writes a step in progress, so the status guard of   *)
(* both statements always holds here.                                         *)

MaxAttempts(i) == IF task[i].channel = "call" THEN MaxCallAttempts ELSE MailAttempts
Rescheduled(i, ticks) == [task EXCEPT ![i].status = "scheduled", ![i].due = ticks]
Finished(i, status) == [task EXCEPT ![i].status = status]

Touched == since' = 0 /\ touches' = touches + 1
NotTouched == UNCHANGED <<since, touches>>

-----------------------------------------------------------------------------
(* The dispatcher.                                                            *)

After(i) ==
  LET rest == run.batch \ {i} IN
  IF rest = {} THEN Idle ELSE [Idle EXCEPT !.pc = "next", !.batch = rest, !.age = run.age]

Due == {i \in DOMAIN task : task[i].status = "scheduled" /\ task[i].due = 0}

ClaimDueTasks ==
  /\ run.pc = "idle"
  /\ Due # {}
  /\ task' = [i \in DOMAIN task |->
                IF i \in Due THEN [task[i] EXCEPT !.status = "in_progress"] ELSE task[i]]
  /\ run' = [Idle EXCEPT !.pc = "next", !.batch = Due]
  /\ UNCHANGED <<hour, contact, since, touches, planKind, thanks, holds>>

Serves(i) == run.pc = "next" /\ i \in run.batch

(* _run_task up to the executor: the gate, its answer on the row, the attempt. *)
PassGate(i) ==
  /\ Serves(i)
  /\ GateCode(i, Purpose(i), run.age) = "go"
  /\ task' = [task EXCEPT ![i].attempts = @ + 1]
  /\ run' = [run EXCEPT !.pc = "run", !.task = i]
  /\ UNCHANGED <<hour, contact, since, touches, planKind, thanks, holds>>

StopAtGate(i) ==
  LET code == GateCode(i, Purpose(i), run.age) IN
  /\ Serves(i)
  /\ code # "go"
  /\ task' = IF code \in Permanent THEN Finished(i, "cancelled")
             ELSE Rescheduled(i, Positive(RetryIn(i, code, run.age) - run.age))
  /\ run' = After(i)
  /\ UNCHANGED <<hour, contact, since, touches, planKind, thanks, holds>>

(* The kill switches, a disabled channel, the call slots, the cost cap and a  *)
(* visitor who is still chatting defer a step to a date of their own.         *)
Hold(i) ==
  /\ Serves(i)
  /\ holds < HoldBound
  /\ holds' = holds + 1
  /\ task' = Rescheduled(i, 1)
  /\ run' = After(i)
  /\ UNCHANGED <<hour, contact, since, touches, planKind, thanks>>

(* The executor: an e-mail leaves or waits for approval, a phone rings, or    *)
(* nothing went out.                                                          *)
Results(i) ==
  {"failed"} \union
  (IF task[i].attempts < MaxAttempts(i) THEN {"scheduled"} ELSE {}) \union
  (IF task[i].channel = "call" THEN {"pending"} ELSE {"pending", "completed"})

Execute(result) ==
  LET i == run.task IN
  /\ run.pc = "run"
  /\ result \in Results(i)
  /\ task' = IF result = "scheduled" THEN Rescheduled(i, 0) ELSE Finished(i, result)
  /\ IF result = "completed" THEN Touched ELSE NotTouched
  /\ run' = After(i)
  /\ UNCHANGED <<hour, contact, planKind, thanks, holds>>

-----------------------------------------------------------------------------
(* Drafts: a reviewer approves, and the gate is asked again, or discards or   *)
(* lets expire.  A gate that says wait is a 409 and changes nothing.  What a  *)
(* failing send does to an approved draft is EmailAgent's matter.             *)

Draft(i) == task[i].status = "pending" /\ task[i].channel = "email"

Approve(i) ==
  LET code == GateCode(i, ReviewPurpose(i), 0) IN
  /\ Draft(i)
  /\ code \in Permanent \union {"go"}
  /\ task' = Finished(i, IF code = "go" THEN "completed" ELSE "cancelled")
  /\ IF code = "go" THEN Touched ELSE NotTouched
  /\ UNCHANGED <<hour, contact, planKind, run, thanks, holds>>

Discard(i) ==
  /\ Draft(i)
  /\ task' = Finished(i, "cancelled")
  /\ UNCHANGED <<hour, contact, since, touches, planKind, run, thanks, holds>>

-----------------------------------------------------------------------------
(* Calls: the hangup settles the step, and call_completed, handled later,     *)
(* turns the next e-mail into a thank-you.                                    *)

InCall(i) == task[i].status = "pending" /\ task[i].channel = "call"

HangUp(i) ==
  /\ InCall(i)
  /\ task' = Finished(i, "completed")
  /\ Touched
  /\ thanks' \in {thanks, TRUE}
  /\ UNCHANGED <<hour, contact, planKind, run, holds>>

NobodyAnswers(i) ==
  /\ InCall(i)
  /\ task' = IF task[i].attempts < MaxAttempts(i) THEN Rescheduled(i, DayLength)
             ELSE Finished(i, "failed")
  /\ UNCHANGED <<hour, contact, since, touches, planKind, run, thanks, holds>>

AskedToCallLater(i) ==
  /\ InCall(i)
  /\ task' = [Rescheduled(i, DayLength) EXCEPT ![i].attempts = Positive(@ - 1)]
  /\ UNCHANGED <<hour, contact, since, touches, planKind, run, thanks, holds>>

Earliest(channel) ==
  LET S == {i \in DOMAIN task : task[i].status = "scheduled" /\ task[i].channel = channel} IN
  {i \in S : \A j \in S : task[i].due <= task[j].due}

BringEmailForward ==
  /\ thanks
  /\ thanks' = FALSE
  /\ IF Earliest("email") = {} THEN UNCHANGED task
     ELSE \E i \in Earliest("email") :
            task' = [task EXCEPT ![i].due = 0, ![i].thanks = TRUE]
  /\ UNCHANGED <<hour, contact, since, touches, planKind, run, holds>>

(* The visitor says goodbye in the chat: the call that waited rings now.      *)
BringCallForward(i) ==
  /\ task[i].status = "scheduled" /\ task[i].chat /\ task[i].due > 0
  /\ holds < HoldBound
  /\ holds' = holds + 1
  /\ task' = [task EXCEPT ![i].due = 0]
  /\ UNCHANGED <<hour, contact, since, touches, planKind, run, thanks>>

(* The contact rings us and asks to be called back.                           *)
ScheduleCallback ==
  /\ contact.zone
  /\ holds < HoldBound
  /\ holds' = holds + 1
  /\ contact' = [contact EXCEPT !.consent = @ \union {"call"}]
  /\ \E i \in Earliest("call") : task' = [task EXCEPT ![i].due = DayLength]
  /\ UNCHANGED <<hour, since, touches, planKind, run, thanks>>

(* A reply, a caller or the consent screen takes a channel back.              *)
RevokeConsent(channel) ==
  /\ planKind # "none"
  /\ channel \in contact.consent
  /\ contact' = [contact EXCEPT !.consent = @ \ {channel}]
  /\ UNCHANGED <<hour, since, touches, planKind, task, run, thanks, holds>>

-----------------------------------------------------------------------------
Aged(r) ==
  IF r.pc = "idle" THEN r
  ELSE [r EXCEPT !.age = @ + 1, !.gated = IF r.pc = "next" THEN 0 ELSE @ + 1]

(* Beat starts the dispatcher every 30 seconds: no tick (hours) goes by while *)
(* a step is due and nobody is dispatching.                                   *)
Tick ==
  /\ run.pc = "idle" => Due = {}
  /\ run.age < BatchSpan
  /\ hour' = (hour + 1) % DayLength
  /\ since' = AtMost(since + 1, Long)
  /\ task' = [i \in DOMAIN task |-> [task[i] EXCEPT !.due = Positive(@ - 1)]]
  /\ run' = Aged(run)
  /\ UNCHANGED <<contact, touches, planKind, thanks, holds>>

Dispatch ==
  \/ ClaimDueTasks
  \/ \E i \in DOMAIN task : PassGate(i) \/ StopAtGate(i)
  \/ \E result \in {"failed", "scheduled", "pending", "completed"} : Execute(result)

Next ==
  \/ \E proposal \in Proposals : CreatePlan(proposal)
  \/ Dispatch
  \/ \E i \in DOMAIN task : Hold(i) \/ Approve(i) \/ Discard(i)
  \/ \E i \in DOMAIN task : HangUp(i) \/ NobodyAnswers(i) \/ AskedToCallLater(i)
  \/ \E i \in DOMAIN task : BringCallForward(i)
  \/ BringEmailForward \/ ScheduleCallback
  \/ \E channel \in {"email", "call"} : RevokeConsent(channel)
  \/ Tick

(* The clock runs, Beat starts the dispatcher, and a batch comes to an end.   *)
Fairness == WF_vars(Tick) /\ WF_vars(Dispatch)

Spec == Init /\ [][Next]_vars
FairSpec == Spec /\ Fairness

-----------------------------------------------------------------------------
(* Properties.                                                                *)

(* What policy promises of every new plan, whatever it dropped, clamped or    *)
(* moved: steps on consented channels only, within what is left of the touch  *)
(* budget, in order and the gap apart, the first one the gap after the last   *)
(* touch unless they reached out, calls inside the contact's window.          *)
Spacing(plan) ==
  /\ \A i \in 2..Len(plan) : plan[i].due >= plan[i - 1].due + Gap
  /\ planKind' # "inbound_auto" => plan[1].due + since >= Gap

CallsFit(plan) ==
  \A i \in DOMAIN plan : plan[i].channel = "call" =>
    contact.zone /\ Within((hour + plan[i].due) % DayLength, CallOpen, CallClose)

PlanFollowsPolicy ==
  [][planKind = "none" /\ planKind' # "none" =>
       /\ Spacing(task') /\ CallsFit(task')
       /\ Len(task') + touches <= MaxTouches
       /\ \A i \in DOMAIN task' : task'[i].channel \in contact.consent]_vars

(* min_hours_between_touches, in real time: although a batch asks the gate    *)
(* with a clock it read at its start, no follow-up goes out within the gap    *)
(* after a touch that was completed when it was asked.                        *)
Touches(i) ==
  /\ task[i].status = "in_progress"
  /\ task'[i].status = IF task[i].channel = "call" THEN "pending" ELSE "completed"

FollowUpsAreSpaced ==
  [][\A i \in DOMAIN task :
       Touches(i) /\ Purpose(i) = "outreach" => since >= Gap \/ since <= run.gated]_vars

(* The deferrals meet: waiting for a window, for the gap after the last touch *)
(* and for a slot by turns, a step is sooner or later sent, drafted, dialled, *)
(* failed or cancelled, never deferred for ever.                              *)
HasStatus(i, S) == i \in DOMAIN task /\ task[i].status \in S

StepLeavesQueue ==
  \A i \in 1..3 :
    HasStatus(i, {"scheduled"}) ~> HasStatus(i, {"pending", "completed", "failed", "cancelled"})

(* "the thank-you right after a call they took part in -- outreach rules,     *)
(* except the working hours and the gap since that call" (compliance.py:37):  *)
(* a reviewer who approves such a draft is not told to wait for the gap.      *)
ThankYouIsNotHeld ==
  \A i \in DOMAIN task :
    Draft(i) /\ Purpose(i) = "after_call" => GateCode(i, ReviewPurpose(i), 0) # "CADENCE_LIMIT"

(* "enforced before every email send and every dial (inside the claimed      *)
(* task)" (compliance.md:4).  The gate of a batch's later steps is asked with *)
(* the clock read at its start, so a phone may ring after the window closed,  *)
(* but only by as long as the batch has been under way.                       *)
CallsRingWithinBatch ==
  [][\A i \in DOMAIN task :
       Touches(i) /\ task[i].channel = "call"
         => \E late \in 0..run.age : Within((hour - late) % DayLength, CallOpen, CallClose)]_vars
=============================================================================
