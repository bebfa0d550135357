---------------------------- MODULE AgentEvents ----------------------------
(***************************************************************************)
(* The agents' transactional outbox (agents/events.py) and the dispatcher  *)
(* that claims its events in batches and runs their handlers               *)
(* (dispatch.dispatch_events).  Every action is one SQL statement or one   *)
(* handler call.  What a handler does is not opened: it returns, raises an *)
(* error worth a retry, or raises a permanent one; a worker may die at any *)
(* point, a handler may outlive its lease.  Due times and leases are       *)
(* abstract: a pending event may be due, and a lease may end, any time.    *)
(***************************************************************************)
EXTENDS Naturals, FiniteSets

CONSTANTS
  Events,       \* rows of agent_events
  Workers,      \* Celery processes that run agents.dispatch_events
  NoEvent,      \* what a worker between two events is handling
  MaxAttempts,  \* MAX_EVENT_ATTEMPTS
  BatchBound,   \* the LIMIT of one claim
  CrashBound    \* bound of the model: how often workers die

ASSUME EventsAssumption ==
  /\ NoEvent \notin Events
  /\ MaxAttempts \in Nat \ {0}
  /\ BatchBound \in Nat \ {0}
  /\ CrashBound \in Nat

VARIABLES
  status,    \* agent_events.status, "none" before the INSERT
  attempts,  \* agent_events.attempts, counted up to MaxAttempts
  worker,    \* what each worker holds in memory
  crashes,   \* workers lost so far
  runs,      \* history: handler runs that returned, counted up to two
  taken      \* history: events reaped from a lease or replayed by an admin

vars == <<status, attempts, worker, crashes, runs, taken>>

EventStatus == {"none", "pending", "processing", "done", "failed"}
Counted(n) == IF n < MaxAttempts THEN n + 1 ELSE n

(* The batch keeps each event with the attempts its claim returned; verdict   *)
(* is what the worker is about to write to the event's row.                   *)
WorkerState == [batch : SUBSET Events, claimed : [Events -> 0..MaxAttempts],
                event : Events \union {NoEvent}, verdict : {"none", "done", "pending", "failed"}]
Free == [batch |-> {}, claimed |-> [e \in Events |-> 0], event |-> NoEvent, verdict |-> "none"]

Init ==
  /\ status = [e \in Events |-> "none"]
  /\ attempts = [e \in Events |-> 0]
  /\ worker = [w \in Workers |-> Free]
  /\ crashes = 0
  /\ runs = [e \in Events |-> 0]
  /\ taken = {}

-----------------------------------------------------------------------------
(* emit: the row commits with the caller's own change.                        *)
Emit(e) ==
  /\ status[e] = "none"
  /\ status' = [status EXCEPT ![e] = "pending"]
  /\ UNCHANGED <<attempts, worker, crashes, runs, taken>>

ClaimableAnyOpen(e) == status[e] \in {"pending", "processing"}
Claimable(e) == status[e] = "pending"

ClaimDueEvents(w, S) ==
  /\ worker[w] = Free
  /\ S # {} /\ Cardinality(S) <= BatchBound
  /\ \A e \in S : Claimable(e)
  /\ status' = [e \in Events |-> IF e \in S THEN "processing" ELSE status[e]]
  /\ attempts' = [e \in Events |-> IF e \in S THEN Counted(attempts[e]) ELSE attempts[e]]
  /\ worker' = [worker EXCEPT ![w].batch = S,
                              ![w].claimed = [e \in Events |-> IF e \in S THEN attempts'[e] ELSE 0]]
  /\ UNCHANGED <<crashes, runs, taken>>

(* The handler returned, failed, or failed for good; the attempts counted are *)
(* those of the claim, not those of the row.                                  *)
VerdictOfUnknownStatus(result, n) ==
  IF result = "returned" THEN "done" ELSE IF result = "permanent" THEN "failed" ELSE "retry"
VerdictOfIgnoringErrors(result, n) ==
  IF result = "permanent" THEN "failed" ELSE "done"
VerdictOf(result, n) ==
  IF result = "returned" THEN "done"
  ELSE IF result = "permanent" \/ n >= MaxAttempts THEN "failed" ELSE "pending"

HandleEvent(w, e, result) ==
  /\ worker[w].event = NoEvent
  /\ e \in worker[w].batch
  /\ worker' = [worker EXCEPT ![w].event = e,
                              ![w].verdict = VerdictOf(result, worker[w].claimed[e])]
  /\ runs' = IF result = "returned" /\ runs[e] < 2 THEN [runs EXCEPT ![e] = @ + 1] ELSE runs
  /\ UNCHANGED <<status, attempts, crashes, taken>>

(* mark_event_done, mark_event_failed_attempt: the row is written whatever    *)
(* has become of it since the claim.                                          *)
MarkEvent(w) ==
  LET e == worker[w].event
      rest == worker[w].batch \ {e} IN
  /\ e # NoEvent
  /\ status' = [status EXCEPT ![e] = worker[w].verdict]
  /\ worker' = [worker EXCEPT ![w] = IF rest = {} THEN Free
                                     ELSE [@ EXCEPT !.batch = rest, !.claimed[e] = 0,
                                                    !.event = NoEvent, !.verdict = "none"]]
  /\ UNCHANGED <<attempts, crashes, runs, taken>>

LoseWorker(w) ==
  /\ worker[w] # Free
  /\ crashes < CrashBound
  /\ crashes' = crashes + 1
  /\ worker' = [worker EXCEPT ![w] = Free]
  /\ UNCHANGED <<status, attempts, runs, taken>>

ExpirableOnlyPending(e) == status[e] = "pending"
Expirable(e) == status[e] = "processing"

ReapStaleEvent(e) ==
  /\ Expirable(e)
  /\ status' = [status EXCEPT ![e] = "pending"]
  /\ taken' = taken \union {e}
  /\ UNCHANGED <<attempts, worker, crashes, runs>>

(* retry_event: the exceptions screen replays a dead letter.                  *)
RetryEvent(e) ==
  /\ status[e] = "failed"
  /\ status' = [status EXCEPT ![e] = "pending"]
  /\ attempts' = [attempts EXCEPT ![e] = 0]
  /\ taken' = taken \union {e}
  /\ UNCHANGED <<worker, crashes, runs>>

-----------------------------------------------------------------------------
Dispatch(w) ==
  \/ \E S \in SUBSET Events : ClaimDueEvents(w, S)
  \/ \E e \in Events, r \in {"returned", "error", "permanent"} : HandleEvent(w, e, r)
  \/ MarkEvent(w)

Next ==
  \/ \E e \in Events : Emit(e) \/ ReapStaleEvent(e) \/ RetryEvent(e)
  \/ \E w \in Workers : Dispatch(w) \/ LoseWorker(w)

(* Beat starts the dispatcher every 15 seconds and the reaper every five      *)
(* minutes; the claim takes the oldest due events, so none waits for ever     *)
(* behind younger ones; a worker that lives gets on with its batch.           *)
Fairness ==
  /\ \A w \in Workers : WF_vars(Dispatch(w))
  /\ \A e \in Events : SF_vars(\E w \in Workers, S \in SUBSET Events :
                                 e \in S /\ ClaimDueEvents(w, S))
  /\ \A e \in Events : WF_vars(ReapStaleEvent(e))

Spec == Init /\ [][Next]_vars
FairSpec == Spec /\ Fairness

-----------------------------------------------------------------------------
TypeOK ==
  /\ status \in [Events -> EventStatus]
  /\ attempts \in [Events -> 0..MaxAttempts]
  /\ worker \in [Workers -> WorkerState]
  /\ crashes \in 0..CrashBound
  /\ runs \in [Events -> 0..2]
  /\ taken \subseteq Events

(* Whoever holds an event holds a row that exists, writes done only after the *)
(* handler returned, and, until the event is first taken from a lease, is its *)
(* only holder and the only one that may still run its handler.               *)
Holds(w, e) == e \in worker[w].batch
Handling(w, e) == Holds(w, e) /\ worker[w].event = e

HoldersOK ==
  \A w \in Workers :
    /\ worker[w].event # NoEvent => Holds(w, worker[w].event)
    /\ worker[w].event # NoEvent => worker[w].verdict # "none"
    /\ \A e \in Events :
         /\ Holds(w, e) => status[e] # "none"
         /\ Handling(w, e) /\ worker[w].verdict = "done" => runs[e] > 0
DoneIsHandled == \A e \in Events : status[e] = "done" => runs[e] > 0

UntakenOnce ==
  \A e \in Events \ taken :
    /\ status[e] \in {"none", "pending"} => runs[e] = 0
    /\ \A w \in Workers : Holds(w, e) =>
         /\ status[e] = "processing"
         /\ \A v \in Workers : Holds(v, e) => v = w
         /\ runs[e] > 0 => Handling(w, e) /\ worker[w].verdict = "done"

(* "Exactly-once claim": the handler of an event returns twice only after its *)
(* lease ran out under a worker, or an admin replayed it.                     *)
HandledOnce == \A e \in Events : e \notin taken => runs[e] <= 1

(* The outbox implements the promise of Delivery.                             *)
Outcome(s) == IF s = "done" THEN "done" ELSE IF s = "failed" THEN "dead"
              ELSE IF s = "none" THEN "none" ELSE "open"

Promise == INSTANCE Delivery WITH
  outcome <- [e \in Events |-> Outcome(status[e])],
  handled <- {e \in Events : runs[e] > 0}

KeepsPromise == Promise!Spec

(* An event that keeps failing, or whose workers keep dying for a while, does *)
(* not stay open for ever: it is done, or a dead letter somebody can see.     *)
EventSettles ==
  \A e \in Events : status[e] \in {"pending", "processing"} ~> status[e] \in {"done", "failed"}
=============================================================================
