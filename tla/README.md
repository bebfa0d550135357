# Verification of the chatbot platform

TLA+ modules, TLC runs and TLAPS proofs for the platform in `src/`: a multi-tenant chatbot with leads,
bookings and notifications, and "Rebecca", the agents that follow leads up by e-mail and telephone.
`PROJECT.json` holds the lists (components, runs, mutants, hazards, findings, theorems, and for every
definition the lines it stands for); this file says how to read them. Paths below are relative to
`src/services/api/src/api/` unless they start with another directory.

The program is FastAPI processes, Celery workers and a Celery beat over one PostgreSQL database
(asyncpg, READ COMMITTED, mostly autocommitted statements) and Redis. Almost every correctness question
is the same question: several processes walk a row of some table through its statuses, each in several
statements with a provider call in between, and any of them may die, be late or be run twice
(`tasks/celery_app.py`: `task_acks_late`, `task_reject_on_worker_lost`). The modules therefore have one
action per statement or provider call, and a process's local variables are part of the state.

## 1. Inventory

Components that own a protocol. *Hard* names what a unit test hardly reaches; *correct* what makes the
component right. The ones in bold are modelled.

| Component | State | Operations | Talks to | Hard | Correct |
|---|---|---|---|---|---|
| **Outreach plans and dispatcher** (`agents/outreach_repository.py`, `dispatch.py`, `reporting.py`) | `outreach_plans`, `outreach_tasks` (status, attempts, lease), suppression list | create plan, claim, gate, attempt, execute, verdict, refund, reap, stop, retry, dismiss, cancel a channel, erase | channel executors; every component that stops a plan | stale workers, leases, stop against retry, opt-out between gate and send | stopped plans are quiet; final steps stay final; one claim; one late touch per worker; claims are released |
| **Planner, policy and gate** (`agents/planner.py`, `policy.py`, `compliance.py`) | due dates, last touch, consents, windows | propose, validate, gate, defer, bring forward | dispatcher, reviewers, calls | a batch's old clock, deferrals that chase each other | plans and touches keep policy's gap, windows and budget; no step waits for ever |
| **Campaigns** (`agents/outreach_repository.py`, `commands.py`, `tasks.py`) | `outreach_campaigns` | launch, stop, end, housekeeping | outreach | launch against stop; crash between completing and stopping | a stopped campaign is quiet, an ended one stops |
| **Agents' outbox** (`agents/events.py`, `dispatch.py`) | `agent_events` | emit (inside the caller's transaction), claim, handle, mark, reap, replay | every emitter and handler | crash between handler and mark, late verdicts | at least once, done only after handled, ends as done or dead letter |
| **Inbound e-mail** (`email_agent/inbound_service.py`) | `email_messages`, plans, suppressions | receive, classify, act, reply, record | outbox, outreach, booking | redelivery after acting and before recording | the record says what was done; a recorded reply is not handled again |
| **E-mail agent** (`email_agent/service.py`, `executor.py`) | `email_messages` (draft to sent), `outreach_tasks` | prepare, compose, send, approve, discard, expire, retry | e-mail provider, staff console, dispatcher | two staff on one draft, lost provider answers, two rows and no transaction | one copy unless retried; discarded stays unsent; parked steps are settled |
| **Call agent** (`call_agent/service.py`, `repository.py`, `routes.py`) | `call_sessions`, `outreach_tasks` | place, answer, turn, hang up, transfer, inbound, reap | Plivo webhooks, dispatcher, outbox | duplicated, late and lost webhooks; the cap under concurrent dispatchers | the cap; slots are freed; parked steps are settled |
| **Notification outbox** (`notifications/`) | `notification_jobs` | enqueue on a dedupe key, publish, send, mark, retry | SMTP and Twilio, every caller | crash between insert and publish, and between send and mark | copies are accounted for; jobs do not stay pending |
| **Reminders** (`scheduling/tasks.py`, `reminder_repository.py`) | `reminder_jobs`, `schedule_events.status` | create, claim, publish, send, skip | notification outbox, booking | dispatcher dies inside a batch; booking cancelled meanwhile | a reminder marked sent was logged or has its e-mail; claimed reminders are settled |
| **Booking, reschedule, calendar sync, Calendly** (`scheduling/`) | `schedule_events`, the calendar | book, sync, compensate, move, cancel, outcome, Calendly webhooks | calendar provider, reminders, outbox, outreach | crash between row and calendar; two moves at once; reordered webhooks | one booking per slot; rows and calendar agree; moves keep a booking; cancelled and staff's outcomes stick |
| **Ingestion** (`ingestion/`) | documents, runs, chunks, files | upload, run, replace chunks, delete | LLM embeddings, retrieval | crash before publication; deletion under a running worker; two runs of one document | what is served is the document; deletion is complete; uploads settle |
| **Chat turns** (`orchestrator/`, `conversation_store/`) | `conversations`, `messages`, leads, the handover to the call agent | turn, capture identity, answer, Stop, retry | LLM, retrieval, outreach, outbox | a memory read off stored intents; retries; overlapping requests | consent follows disclosure; the cap; the answer told is the one stored; evidence is kept |
| **Audit chain** (`audit/chain.py`) | `audit_events`, `audit_chain_heads` | record, seal, verify | everyone | verification across three statements, sealers that meet or die | the first damaged row is reported; an untouched chain verifies |
| Lead assignment (`leads/assignment.py`) | the cursor | next agent | leads | concurrent callers | fair rotation |
| Inbound leads (`agents/inbound_leads.py`, `hooks.py`) | contacts, consents, plans | handle lead, replan | outbox, outreach | redelivery | one active plan; consent recorded first |

Components without a protocol of their own, or outside a state machine's reach, are listed with reasons
in `PROJECT.json` and in section 6.

Where the code does not stand up to a hazard, its property excepts that circumstance by name and the hazard's
`note` says so; section 5 says what the code does then.

Hazards the list of 40 in `PROJECT.json` has no room for: `usage_costs` rows of `after_call` are written
again when its event is redelivered (`call_agent/service.py:817`); the rolling summary is written over a
watermark read before the model was asked (`conversation_store/repository.py`).

## 2. Modules and how they correspond to the code

`Outreach` is the core; the others see the same task row from one channel, or another table entirely.

**Outreach** (the tables of migration 0066). A worker holds a batch, a current task and the step it has
reached (`gate`, `gated`, `run`, `refund`, `record`). `ClaimDueTasks`, `CheckGate`, `MarkTaskAttempt`,
`Execute`, `DeferExecution`, `RefundAttempt`, `AfterTask`/`RecordVerdict` are the statements of
`_run_task` in order; `finish_task` and `reschedule_task` keep their guard `status IN ('in_progress',
'pending')`. `BeginStop` and `CommitStop` bracket the transaction of `_stop_plan_in_tx`: between them
the rows are locked but others still read the old plan, which is what READ COMMITTED allows.
`SettleParked`, `RetryTask`, `DismissTask`, `CancelChannelTasks`, `ErasePlans`, `OptOut` and
`ReapStaleTask` are what everyone else does to the row. Time is abstract (anything may be due, any lease
may end), and an executor is opaque: it returns what an executor may return.

**Campaigns** EXTENDS `Outreach` with the campaign row: a launch writes the campaign and then one plan
per contact, `BeginClosing`/`CommitClosing` bracket the transaction that stops a campaign with its plans,
and the housekeeping's `MarkEnded` and `BeginEndCampaign` are two steps a process may die between.

**Cadence** has the clock that `Outreach` leaves out. Planner templates go through `policy.validate`
(`Validated`, a recursive function over the steps: drop, give the time back, keep the gap, move into the
window) and the resulting steps through `GateCode`, the gate's decisions in their order. A dispatcher
reads the clock once per batch (`run.age` is how old that reading is) and the executor may take its time
after the gate (`run.gated`). Reviewers ask the gate again with their own idea of the purpose
(`ReviewPurpose`); the ends of calls reschedule, refund or bring the thank-you forward.

**AgentEvents** and **Delivery**. `AgentEvents` is the outbox: claim with the attempt counted, handler,
mark, reap after the lease, replay by an admin. A handler returns, raises something worth a retry or
something permanent; a dead worker leaves its batch `processing`. `Delivery` is the promise without
workers, batches or leases: an event is not lost, is closed only after it was handled, and may be opened
again. `KeepsPromise` is the refinement, checked by TLC and proved.

**InboundReplies** EXTENDS `AgentEvents` with what its longest handler does: `handle_reply` looks for a
record, classifies (a rule's label is always the same, the model's may differ each time: `LabelSets`),
acts (stop, suppress, cancel a channel, book, follow up), answers, and records. Each step may raise, or
its process die, and the outbox delivers the message again.

**EmailAgent** opens the e-mail executor: `Prepare` (one message per task, with its unique key),
`Compose`, `ReadMessage`, `CheckSender`, `Deliver`, `MarkSent`, `Record`, and the requests `Approve`,
`Recheck`, `Accept`, `Discard`, `Close`, `ExpireDraft`, `RetryTask`, `Reopen`. Statuses of messages change
by compare-and-set (`Set`) except where the code writes whatever it finds (`MarkSent`).

**CallAgent** opens the call executor and the webhooks: `CheckGate` counts, `CreateSession` counts again
under the tenant's lock, `Dial` has the provider's answers (started, refused, lost, or a bookkeeping
statement that fails); each webhook reads its session when it starts (`Begins`) and writes later
(`Answer`, `Turn`, `EndSession`, `Settle`, `Emit`). `ReapCall` and `SettleLost` are the reaper's
statements. What the cap bounds is `OnTheLine`: the outbound calls that are up at the provider or live in the
table, ended or not. `strays` are the two kinds the code lets past it: a call that rings although `place_call`
raised (`Dial` with a lost answer: its session is closed, so the retry's count does not see it) and a session
that a late answer or transfer set live after its end. One timing assumption is named in the module: a retry a day away
(`NextDay`) starts after the calls and requests of today are over.

**Notifications** and **Reminders**. `Notifications` is the outbox with the broker: `Insert` and `Delay`
are two steps of a caller, `Take` to `Ack` those of a sender, `Raise` is Celery's `self.retry`, and
`LoseSender` brings the message of a dead process back. `Reminders` EXTENDS it with the beat job that
claims (`ClaimDueReminders`) and publishes row by row (`DelayReminder`), the task that reads the row and
the booking again and calls the sink `settings.reminder_sink` names (`DispatchReminder`), and
`CancelEvent`/`SkipPendingReminders` of a reschedule. The sinks are the constant `Sinks`: `log`, the default
(`config.py:220`), which only logs and has the reminder marked sent (`LogsReminder`); `notification`, which
resolves the recipient (`MailsReminder`) and goes on to the `Insert` and `Delay` of `Notifications`; and a name
nobody knows (`FindsNoSink`). A set of several stands for processes started before and after the setting
was changed.

**Booking** and **Agenda**. A request of `Booking` books, moves or cancels: its `Path` is the list of
statements and calendar calls of that operation, and it walks it one at a time with what it has read in
its record. Forms, staff's outcomes and Calendly's two webhooks (delivered at any time, in any order, any
number of times) write the same rows. `Agenda` is what all of them promise of a slot: one holder, and
free between two holders; `IsAgenda` is the refinement, checked and proved.

**Ingestion**: an upload or website request (check, store, insert, log, publish), the Celery task with
its retries and the broker's early redelivery, the replacement of chunks statement by statement, and the
six statements of a removal, each an action of its own, all interleaved.

**Chat**: one visitor's requests, each a turn of `orchestrator/service.py`: append, classify, capture,
ask, answer. A message is one of a few kinds; what classifier, retrieval, model and guardrails say is any
of their answers. What the code reads off the intents of stored replies (was the name asked for, may a
number count as consent) is read off the model's `log` in the same way.

**AuditChain**: rows of one tenant, the sealers' transaction (`LockHead`, `FetchRows`, `CommitSeal`,
`AbortSeal`) and the three statements of a verification (`ReadChain`, `CountUnsealed`, `ReadHead`). A hash
is the sequence of everything that was hashed, so hashes differ exactly when the rows before them do;
`EditSealed` and `DeleteSealed` are what the chain is there to show.

MC modules (`MCOutreach`, `MCCampaigns`, `MCCallAgent`, `MCBooking`, `MCIngestion`, `MCChat`, `MCAuditChain`) only add
the constants, symmetry sets and state constraints of their runs; the other runs use the module itself.
`OutreachProofs`, `AgentEventsProofs`, `EmailAgentProofs`, `CallAgentProofs`, `BookingProofs`,
`IngestionProofs`, `ChatProofs` and `BeatProofs` (`Cadence`, `Reminders` and `AuditChain`) hold the theorems.

History variables (`contested`, `revived`, `lateTouches`, `taken`, `retried`, `stranded`, `slips`, `late`,
`torn`, `died`, `strays`, `again`, `crossed`, ...) never guard an action: they only let a property name
the one circumstance in which the code cannot keep its promise. Operators such as `HasRoomTrustingTheGate`
that no action uses are the mutations each property is tried against.

## 3. Runs

| Run | Instance | Shows |
|---|---|---|
| `outreach` | 1 contact, 1 plan, 1 call task, 2 workers, 2 attempts; 136 k states | stopped plans are quiet but for a step an admin revived during the stop; final steps stay final; one late touch per worker after an opt-out; two holders only after the row was taken from one; every claim is released (liveness) |
| `campaigns` | 1 campaign, 1 plan, 1 call task, 1 worker; 146 k | a stopped campaign is quiet but for plans launched too late; an ended one stops (liveness) |
| `replies` | 1 message of 6 kinds, 2 dispatchers, 2 attempts, 1 crash; 236 k | the outbox under its longest handler: refinement of `Delivery`, the record is true, a recorded reply stays closed, every event ends (liveness) |
| `emails` | 1 step, 1 worker, 2 requests, 2 faults | one copy unless retried, discarded stays unsent, a parked step is settled (liveness) |
| `calls` | 1 task, 2 sessions, 2 dispatchers, 2 webhooks at a time, cap of 1, 2 attempts, 1 fault; 171 k | no more calls up or live than the cap, but for strays; slots are freed, parked calls are settled (liveness) |
| `reminders` | 1 reminder, 1 confirmation, 2 processes, all 3 sinks, 1 retry, 1 fault; 336 k | copies accounted for; a reminder marked sent was logged or has its e-mail, which is not left pending but for a lost message; jobs and reminders settle (liveness) |
| `booking` | 2 requests, 1 form, 1 invitee, 2 slots, 1 fault, symmetric; 906 k | rows and calendar agree, moves keep a booking, Calendly's cancellation and staff's outcome stick, refinement of `Agenda` |
| `ingestion` | 2 requests for the same source, 2 workers, 3 contents, 1 retry, 1 fault; 339 k | verdicts are true, deletion is complete, documents settle (liveness) |
| `chat` | 3 messages of 7 kinds, 4 requests, 2 at a time, cap of 1, 1 fault, symmetric; 2.2 M | consent follows disclosure, the cap, the answer told is the stored one, one lead with its evidence |
| `cadence` | 1 contact, every template, day of 3 ticks, gap of 3, 3 touches, 2 call attempts; 281 k | plans follow policy, follow-ups are spaced, calls ring in the window but for the batch, no step is deferred for ever (liveness) |
| `audit` | 4 rows, 2 sealers, batches of 2, 2 rows damaged, 1 abort, symmetric; 234 k | what a verification reports is true: the first damaged place, an untouched chain, no row left out |
| `cadence_thank_you_held` | the same | violation: the reviewer of a thank-you is told to wait for the gap the thank-you is exempt from |

*Bounds.* The hazards are between two actors on one row (a worker and a stop, two requests on a draft,
two webhooks of a call, two senders of a job, two moves of one booking), so one row and two actors show
them; a second task, session, slot or key is there where a batch, the cap or two owners matter. The
bounds of the models, which the program does not have, are `AttemptBound`, `FaultBound`, `CrashBound`,
`MaxTurns`, `MaxTries`, `MaxChunks`, `BatchSpan`, `HoldBound`, `DamageBound`, `AbortBound` and the caps
at two of the copy counters; `MaxAttempts`, `MaxRetries`, `BatchBound`, `Limit` and `TurnCap` are the program's parameters made small.
Two attempts distinguish first, middle and last; one fault is enough for every single crash (the
invariants of `Reminders` were also seen to hold with two).

Some runs narrow the instance further. `calls`: the second dispatcher is at work and the second session open
only before the first call is over, or when one dispatcher dials again after its first try raised, and the
second dispatcher is followed up to the provider's answer (`Narrow`); two webhooks at a time are about a single
session. `booking`: Calendly does not meet form bookings and faults (`CalendlyAlone`); its requests and the two
webhooks do meet. `ingestion`: both requests bring one source, and only one of the documents is inserted, which
is what the duplicate check and the unique index are about (`OneDocument`; the constraint is decided before the
first run starts, so it cuts no behaviour short that `DocumentSettles` speaks of). `chat`: requests overlap in
the first two turns only (`OverlapEarly`), and the second message carries a `message_id` (`WithId`). `replies`:
the kinds of message are `LabelSets`, five a rule decides or the model agrees on and one it may label in two
ways; the sequence has a call, or a call and an e-mail, left (`StepsLeft`). `cadence`: windows of two and one
ticks of three, the contact has had no or one touch and one call attempt before (`EarlierTouches`,
`EarlierCalls`), a batch lasts at most one tick (`BatchSpan`), one deferral by anything but the gate
(`HoldBound`); there is no loss of a worker, no second dispatcher and no second plan, which are `Outreach`'s,
and suppression, erasure and region refusals are `Outreach`'s gate answers. `MaxTouches` of 3 is reached by a
plan of three steps, `MaxCallAttempts` of 2 by one more call.

Deadlock is not checked: all of these systems may come to rest. Symmetry is used in runs without liveness
only. The type invariants of the proved modules are theorems; the rest were checked while the modules
were written.

*Fairness.* `Outreach`, `Campaigns`: the beat starts the reaper and the housekeeping and PostgreSQL
commits; nothing is assumed of workers, which may hang for ever. A campaign the housekeeping has marked is
come to in the end unless the process dies (strongly fair, since another transaction may hold it).
`AgentEvents`, `InboundReplies`, `EmailAgent`, `CallAgent`: a live process gets on with the step it is in,
the reapers and the draft expiry of the beat run (strongly fair, because other processes may disable them
again and again between two ticks), and a call does end at the provider. The outbox also needs its
dispatcher to come round to every due event; its batches are taken oldest first. `Reminders`: processes
get on with their work and the broker delivers what it holds. `Ingestion`: while somebody has work to do,
somebody works (one weak fairness of `Progress`); requests and removals start when they like. `Cadence`:
the clock runs and a batch comes to an end; no tick goes by while a step is due and nobody dispatches,
because the beat starts the dispatcher every thirty seconds and a tick is hours. Crashes are never fair,
and bounded where liveness is checked: a system that crashes for ever settles nothing.

## 4. Proofs

All constants are arbitrary but for the assumptions the modules name.

`OutreachProofs`, for any number of plans, tasks, workers and attempts, from `OutreachAssumption` only
(owner functions, a positive batch and attempt limit):

* `TypeCorrect`: types together with `BatchOK` (a worker past a claim works on a task it holds), without
  which the type of the row it writes is not inductive.
* `StoppedPlansAreQuiet`. The property alone is not inductive: a stop is open between two steps.
  `StopsAreOpen` says what an open stop owes: its plans still look active, it has locked every live row of
  theirs but the revived ones, and a plan that does not exist has no rows.
* `ClaimsAreExclusive`, from `HolderOwnsRow`: the row of a holder nobody contested is in progress, or was
  cancelled or erased under it, so no claim can match it.
* `LateTouchesAreBounded`, from `LateTouchSpendsGate`: a late touch uses up the only passage through the
  gate that was open before the opt-out.
* `FinalTasksStayFinal`, an action property over the typed states: one case per writer of the row.
* `StoppedCampaignsAreQuiet` and `PlansKeepTheirPromises`, over `Campaigns`. A step of the campaign is a step
  of `Outreach`'s kind or leaves its variables alone (`OutreachStepKeeps`), so `Inv` carries over; on top of it
  `ClosingTakesAll` says that between its lock and its commit a stop or an end is about to stop every plan of
  the campaign that is still active and was not added behind its back.

`AgentEventsProofs`: `EventTypes`, `ExactlyOnceClaim` (through `HoldersOK`, `DoneIsHandled` and
`UntakenOnce`: an event never taken from a lease has one holder, and only that holder has run its handler)
and `ImplementsDelivery`, the refinement: initial states map to initial states, and every step to a step
of `Delivery` or a stutter. The same for the outbox under `handle_reply` (`InboundReplies`):

* `RepliesKeepThePromise`: every step of the handler is a step of the outbox or leaves it alone
  (`RepliesStep`), so the outbox's invariants and its refinement carry over to the one handler that can fail
  in most places.
* `RecordsAreTrue`, `HollowPlansAreStopped` and `RecordedStaysClosed` share `RepliesInv`. A handler is at work
  on an event of its worker's batch, and the step it is at is one its label comes to (`AtWork`,
  `Course`); two handlers of one event have both read it unless they were counted in `reread`
  (`Counting`); what a handler is past doing is done, whoever undid or repeated it meanwhile (`Wishes`, from
  `Stopped`, `Barred` and `Pruned`); and a plan without steps is owned by an event nobody has recorded, which
  may still end a channel and none of whose handlers is about to record it as done (`HollowIsOwned`, `Closes`,
  `OnTheWay`). `RepliesAssumption` is that a message the rules label (a bounce, a no-reply address) carries
  that label alone, while the model's labels may occur together.

`EmailAgentProofs`, for any number of steps, workers, requests and attempts: `TypesHold`; `OneCopyHolds`
and `DiscardedHolds`. Both need more than they say. `PastDraft`: a message some process has found sendable
never is a draft again, so a discard, which closes drafts only, cannot reach it. `OneSender`: of a step
nobody took from its dispatcher and whose provider answered, one process is on the way to send, nobody can
claim the step while it is or while the message is a draft, the message follows its sender, and once a
copy is out either the message says so or its sender is about to. The lemmas `StepInv`, `SenderWrites` and
`MovesOn` say what a step of one process leaves of this, and the proof has one case per statement.

`CallAgentProofs`, for any cap and any number of dispatchers and webhooks, and any finite set of sessions:

* `TypeCorrect`, with `WorkersOK`, `HooksOK` and `SessionsOK`: a dispatcher past `create_session` and a
  webhook past its read hold a session that exists, a closed session has ended, and a session nobody
  made has neither a task nor a line.
* `CapIsKept`: `NobodyElseAdds` shows that only `create_session` adds a call to those on the line, and there
  the count under the tenant's lock covers every one already there (`TrackedIsActive`). That it does needs
  `LinesOK`: a call is up only under a live session (`LiveWhileUp`), because a hangup is of a call that is over
  (`HungUpIsDown`), and a session being dialled is known to its dispatcher alone, so no webhook can have
  ended it when the phone starts to ring (`DialledAlone`).

`BookingProofs`, for any requests, forms, invitees and slots: `TypeCorrect`; `NoDoubleBooking`, from what a
request knows when it inserts (`SlotChosen`, `RowAfterInsert`) and what a booked row has (`RowsHaveSlots`),
by the lemma that every action writes at most one row (`OneRow`); and `ImplementsAgenda`, the refinement.
Over it `MoveInv`, for requests that move each other's bookings in any number and die anywhere: what a
request has read is past its insert (`PreviousIsThere`), its own row stands from its insert on
(`RowStands`), what it is past cancelling is cancelled (`MovedIsCancelled`), reminders and calendar event
are there once their steps are behind (`Prepared`), and the event of a cancelled booking is gone or about
to be taken back (`CancelledIsTakenBack`). `CalendarAgreesAlways` is read off these. `MovesKeepABooking` also
needs an order: nobody can read a booking before it was inserted, so among any requests with a row one is
moved by none of the others (`Newest`, over every set of them, which is what makes it inductive), and a
cancelled booking nobody dropped was moved by one (`Replaced`); the newest row of all is therefore not
cancelled. `OutcomesStick` and `CalendlyCancelsStick` list what each step may do to a row's status.

`IngestionProofs`, for any documents, workers, contents and retries: `TypeCorrect` (`Typed`: a worker past
its parse has a text to store, past its count a chunk to insert) and `DeletionIsComplete`, whose
strengthening `Tidy` says what each statement of a removal may rely on having been removed before it,
for as long as nobody else has touched the document. `VerdictsAreTrue`: as long as a document was neither
delivered twice nor crossed by a removal, one message or worker carries it (`Alone`, `Deliveries`), and
what the rows say is known at each of its steps (`Told`): the text parsed last, the chunks of it that are in,
run and document telling one story. `Truth` is the invariant, with a waiting message (`Fresh`) as its start.

`ChatProofs`, for any requests, turns and tries, any cap, and a visitor who is new or known. A request keeps
nothing between turns, so what holds is read off the transcript, and the invariant `ChatInv` says what it shows:

* `ToldAlwaysStored`: two requests for one turn that were not seen to run at once are not both at work, and
  past its replay a turn with an id has no reply (`Tried`).
* `CapAlwaysHolds`. That as many messages as the cap were classified is not inductive: `Turns` takes off the
  gate's replies, so what must be known is that each of them stands for a message that was not classified.
  `Counted` says it: every gate reply has one such message right before it (`Meets`), two of them in one turn
  have another message between them, and a request at work, or with a gate reply in hand, has its message
  behind every gate reply of its turn (`Unmet`). Gate replies map one to one into unclassified messages, and
  the count follows by cardinality (`GatesAreApart`, `CountedCap`). A gate
  reply is decided only where nothing was classified yet: nobody passes the gate before the name was asked
  for, unless the visitor came with one, who never meets it (`NameKnown`).
* `EvidenceAlwaysKept`: while nobody overlaps, what a request read of the visitor is what the newest lead
  holds until it writes (`OneLead`).
* `ConsentFollows`: while nobody overlaps, nothing is stored behind the message being answered, so what the
  request saw is what the transcript shows before the message (`Quiet`, `LastBotStays`, `LastBotBefore`).
  That a set of places has a last one (`LatestIs`) rests on the well-foundedness of the numbers.

`BeatProofs`, for every length of the day, windows, gap, budgets and length of a batch. Both action
properties follow from `Inv`: a batch owns its rows until they are served (`Batch`), and what the gate said
of the step being executed still stands: the last touch is at least the gap away, or younger than the
answer (`GapStands`), and some moment the batch has lived through was inside the window (`WindowStands`).
`LookBack` is the arithmetic of a clock that starts again every day; `OnlyExecutorTouches` shows that no
other action sends or dials.

The second part of `BeatProofs` is about the reminders of a booking and the outbox they use, for any
notifications, processes, retries and faults; the three modules share no variable, so their proofs stand
side by side. `SentRemindersAreDispatched` needs what a process knows at each step (`Knows`): one
that has come back from the outbox saw a row there, and rows do not go away. That an e-mail still pending is
under way is a matter of who bears it: the message in the broker, the process that is to publish it, or the
one that sends it until its verdict (`Bears`); a verdict of pending is followed by a retry that is still
allowed (`Retries`); and each step hands the e-mail on, settles it, or strands it (`PendingKept`).
`CopiesAreAccounted` is a balance:
copies and slips say nothing of the next copy, so one counts what may still become one, the messages in the
broker (`Letters`), the processes at work on one whose copy is not out (`Carriers`), and the row nobody has
inserted yet. As long as a notification is open, copies and those that may come are one more than the slips at
most, and each step moves a token or pays with a slip (`Adds`, with one lemma per step). Once it says sent or
failed and nobody is about to send it or open it again (`Closed`) the messages left over do no harm. The hard
step is the acknowledgement: a death there costs no slip, so a process that has marked its copy must know that
one was paid already or that the notification is closed (`Took`), which is where the balance is used: with no
slip, its own copy leaves no carrier that could have it open.

The third part is the audit trail, for any rows, sealers, batch size, damage and dying sealers
(`ReportsAreTrue`). The head's hash lists the rows that were ever sealed, so what the chain was like before
it was damaged is still part of the state: every place has a row of its own, linked to all before it,
whatever has become of its content (`RowsApart`, `RowsLinked`), every other row is as it was written
(`OthersWait`), and `damage` are exactly the places whose row is not (`DamageIs`). That two sealers never
fork the chain is `OneSealer`: whoever holds the head's lock still reads the head as it is, so the links it
computes continue the chain (`LinkAtIs`, `PlacesAfter`). A verification reads the rows in the order of
`chain_seq` without their places: before the first damaged one it reads them in place, because a row's rank
is its place there (`BelowIs`, `RankIs`, `ReadsInOrder`), so nothing breaks before it (`SoundHolds`); and at it
either the row's hash no longer fits, or the row read there comes from further on (`DamageBreaks`), or the
rows end one before it and only the head, read two statements later, shows that something is missing.
`HalfRead` carries this from one statement of the verification to the next, whatever is sealed or damaged in
between.

Only model-checked: every liveness property (fairness and ENABLED are out of the prover's reach) and
`PlanFollowsPolicy` (what a function defined by recursion over the steps computes needs an induction the
installed provers cannot instantiate). No module declares a recursive operator.

## 5. What the runs say about the code

One disagreement between the code and its own words is a finding with a violation run: `approve` asks the
gate about every draft with purpose `outreach` (`email_agent/service.py:218`), so a thank-you the
dispatcher let through as `after_call` is refused with `CADENCE_LIMIT` for the gap after the very call it
thanks for, which `agents/compliance.py:37` exempts it from.

Others were met while modelling; the modules have them, and the properties name the circumstance as their
exception, so the runs depend on them:

* A retry that meets a committing stop leaves a live step on a stopped plan (`agents/reporting.py:245`).
* A discard that loses to an approval cancels the step of an e-mail that is sent
  (`email_agent/service.py:261`).
* Two hangup webhooks in flight are both processed (`call_agent/service.py:723`), where
  `src/specs/runbook.md:110` says duplicates are harmless.
* A `place_call` whose answer is lost closes its session while the phone may ring
  (`call_agent/service.py:215`-218), so the retry finds room and dials a second call at a cap of one, where
  `call_agent/repository.py:161` says that "parallel dispatchers can't overshoot the cap"; a late answer sets
  an ended session live again (`call_agent/service.py:271`), which the next count includes.
* A reminder whose task raises is not retried (`scheduling/tasks.py:106`), though the comment at line 230
  says so. An unknown sink raises outside the `try` (line 199), so its reminder stays queued, while the comment
  at line 221 has a sink's bad configuration mark it failed.
* A page that has become empty keeps its old chunks (`ingestion/tasks.py:312` against
  `ingestion/repository.py:394`); a document that fails may keep the chunks of an earlier success. An
  infrastructure error that raises is not retried: the task has retries for `LLMError` alone
  (`ingestion/tasks.py:80`) and the broker redelivers for a lost worker, not for an exception, while lines
  14-16 and `ingestion/repository.py:401` ("retryable via Celery") say that it is; the document keeps
  the status it had (`raised`). A worker, or an upload, at work on a document while it is deleted writes
  rows back behind the removal (`ingestion/routes.py:584`).
* A visitor who declined a call may be asked again (`orchestrator/service.py:1003`).
* A reply that books, and whose handler dies before the record, books again or is answered by hand
  (`email_agent/inbound_service.py:167` against :138); a follow-up may be made by a handler that another
  has overtaken (line 181).
* `src/specs/compliance.md:4` says the gate is asked before every send and dial; the clock it is asked with is
  the batch's (`agents/dispatch.py:207`), so a phone may ring after hours by as long as the batch runs.
* A housekeeping process that dies between marking campaigns and stopping them leaves plans running that
  nobody looks for again (`agents/outreach_repository.py:529` against `src/specs/runbook.md:75`).
* `verify_audit_chain` reads rows, unsealed count and head in three statements (`audit/chain.py:134`-142): a
  seal that commits between them makes an untouched chain look as if rows were "removed from the end"
  (line 155); the next report is right again. `ReportIsTrue` excepts it.
* A dispatcher that outlives its lease may park a step on a call that is already over; if the dispatcher
  that claimed the step meanwhile then dies, nothing settles it (`agents/outreach_repository.py:279`).
* A launch that outlives its campaign's stop leaves its later plans active (`agents/commands.py:183`).
* Calendly's `created`, delivered again after `canceled`, books the slot anew
  (`scheduling/repository.py:459`); two moves that read the same booking leave two (`scheduling/routes.py:421`).
* Chat requests that overlap may take a number for consent behind another's question, be classified twice for
  one message, or write back a consent that the other has extended (`orchestrator/identity_capture.py:248`).
* A crash between two statements strands a draft that was approved, a call that ended, a claimed reminder,
  a notification inserted but not published, a booking without its calendar event, an upload not published, a
  consent captured but not handed over (`orchestrator/identity_capture.py:298`); no reaper looks for any of
  these.
* A reply stored but never shown (Stop, or a lost connection) counts as a disclosure the visitor saw, and
  a repeated first message whose `create_conversation` answer was lost starts another conversation.

Read but not modelled: `/public/leads` makes a new lead each time; a conversation closed as idle and then
resumed may be purged by its first closing date; the rolling summary's watermark may be stale; and the
comment at `leads/assignment.py:104` says the second of two concurrent leads never reads the cursor both
had before either wrote, which READ COMMITTED does not give a subquery in the statement's own snapshot.

## 6. Not modelled

* **Lead assignment.** One statement; see the observation above.
* **Inbound leads, hooks and imports.** A handler of the outbox that records a consent and plans: the
  outbox is `AgentEvents`, the plan `Outreach` and `Cadence`.
* **CRM sync, confirmation calls.** The shapes of the outbox and of `CallAgent` over their own tables.
* **Conversations.** Appending and reading are in `Chat`; idle close, retention and summary are single
  statements over conversations nobody writes to.
* **Leads, contacts, tenants, administration, analytics, roles.** Single statements and queries: most of
  the code by lines, and no protocol. **Retrieval, LLM and voice providers, gateway, front ends,
  deployment**: external or stateless. This is why the share of mapped lines stays small: the modules
  cover the code in which an order of steps can go wrong.

Within the modelled components: `Outreach` does not open the gate (`Cadence` does) nor the executors
(`EmailAgent`, `CallAgent`), which meet it in the task row only, through `finish_task`,
`reschedule_task`, the claim and the reaper with the same guards, so no composition of all is made;
two concurrent deletions of one document, replanning within `Cadence`, bookings within a call and the
administrator's test send are left out; a step of `Chat` that reads several rows reads them at one
moment. What texts, prompts and parsers make of a message is any of their answers.
