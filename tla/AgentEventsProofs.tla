------------------------- MODULE AgentEventsProofs -------------------------
(***************************************************************************)
(* Proofs about the outbox for any number of events and workers: types,    *)
(* the exactly-once claim, and that it implements Delivery, alone and      *)
(* under the handler of InboundReplies; then what that handler's records   *)
(* say of a contact.                                                       *)
(***************************************************************************)
EXTENDS InboundReplies, TLAPS

Invariant == TypeOK /\ HoldersOK /\ DoneIsHandled /\ UntakenOnce

-----------------------------------------------------------------------------
(* Types.                                                                  *)

LEMMA CountedType == \A n \in 0..MaxAttempts : Counted(n) \in 0..MaxAttempts
  BY EventsAssumption DEF Counted

LEMMA FreeType == Free \in WorkerState
  BY EventsAssumption DEF Free, WorkerState

LEMMA VerdictType ==
  \A r \in {"returned", "error", "permanent"}, n \in 0..MaxAttempts :
    /\ VerdictOf(r, n) \in {"done", "pending", "failed"}
    /\ VerdictOf(r, n) = "done" <=> r = "returned"
  BY DEF VerdictOf

LEMMA TypesInit == Init => TypeOK
  BY EventsAssumption, FreeType DEF Init, TypeOK, EventStatus

LEMMA TypesNext == TypeOK /\ HoldersOK /\ [Next]_vars => TypeOK'
<1> SUFFICES ASSUME TypeOK, HoldersOK, [Next]_vars PROVE TypeOK'
  OBVIOUS
<1> USE EventsAssumption
<1>1. ASSUME NEW e \in Events, Emit(e) PROVE TypeOK'
  BY <1>1 DEF Emit, TypeOK, EventStatus
<1>2. ASSUME NEW w \in Workers, NEW S \in SUBSET Events, ClaimDueEvents(w, S) PROVE TypeOK'
  <2>1. attempts' \in [Events -> 0..MaxAttempts] /\ status' \in [Events -> EventStatus]
    BY <1>2, CountedType DEF ClaimDueEvents, TypeOK, EventStatus
  <2> DEFINE claimed == [e \in Events |-> IF e \in S THEN attempts'[e] ELSE 0]
  <2>2. claimed \in [Events -> 0..MaxAttempts]
    BY <2>1
  <2>3. worker' = [worker EXCEPT ![w] = [worker[w] EXCEPT !.batch = S, !.claimed = claimed]]
    BY <1>2 DEF ClaimDueEvents, TypeOK, WorkerState
  <2> HIDE DEF claimed
  <2>4. worker' \in [Workers -> WorkerState]
    BY <2>2, <2>3 DEF TypeOK, WorkerState
  <2> QED
    BY <1>2, <2>1, <2>4 DEF ClaimDueEvents, TypeOK
<1>3. ASSUME NEW w \in Workers, NEW e \in Events, NEW r \in {"returned", "error", "permanent"},
             HandleEvent(w, e, r)
      PROVE  TypeOK'
  <2> DEFINE v == VerdictOf(r, worker[w].claimed[e])
  <2>1. v \in {"none", "done", "pending", "failed"}
    BY VerdictType DEF TypeOK, WorkerState
  <2>2. worker' = [worker EXCEPT ![w] = [worker[w] EXCEPT !.event = e, !.verdict = v]]
    BY <1>3 DEF HandleEvent, TypeOK, WorkerState
  <2> HIDE DEF v
  <2>3. worker' \in [Workers -> WorkerState]
    BY <2>1, <2>2 DEF TypeOK, WorkerState
  <2>4. runs' \in [Events -> 0..2]
    BY <1>3 DEF HandleEvent, TypeOK
  <2> QED
    BY <1>3, <2>3, <2>4 DEF HandleEvent, TypeOK
<1>4. ASSUME NEW w \in Workers, MarkEvent(w) PROVE TypeOK'
  <2> DEFINE e == worker[w].event
  <2>1. worker[w] \in WorkerState
    BY DEF TypeOK
  <2>2. e \in Events /\ worker[w].verdict \in EventStatus
    BY <1>4, <2>1 DEF MarkEvent, WorkerState, EventStatus
  <2>3. status' \in [Events -> EventStatus]
    BY <1>4, <2>2 DEF MarkEvent, TypeOK
  <2>4. [worker[w] EXCEPT !.batch = worker[w].batch \ {e}, !.claimed[e] = 0,
                          !.event = NoEvent, !.verdict = "none"] \in WorkerState
    <3>1. [worker[w].claimed EXCEPT ![e] = 0] \in [Events -> 0..MaxAttempts]
      BY <2>1, <2>2 DEF WorkerState
    <3> QED
      BY <2>1, <2>2, <3>1 DEF WorkerState
  <2>5. worker' \in [Workers -> WorkerState]
    BY <1>4, <2>4, FreeType DEF MarkEvent, TypeOK
  <2> QED
    BY <1>4, <2>3, <2>5 DEF MarkEvent, TypeOK
<1>5. ASSUME NEW w \in Workers, LoseWorker(w) PROVE TypeOK'
  BY <1>5, FreeType DEF LoseWorker, TypeOK
<1>6. ASSUME NEW e \in Events, ReapStaleEvent(e) PROVE TypeOK'
  BY <1>6 DEF ReapStaleEvent, TypeOK, EventStatus
<1>7. ASSUME NEW e \in Events, RetryEvent(e) PROVE TypeOK'
  BY <1>7 DEF RetryEvent, TypeOK, EventStatus
<1>8. CASE UNCHANGED vars
  BY <1>8 DEF vars, TypeOK
<1> QED
  BY <1>1, <1>2, <1>3, <1>4, <1>5, <1>6, <1>7, <1>8 DEF Next, Dispatch

-----------------------------------------------------------------------------
(* How each kind of step changes what the workers hold.                    *)

LEMMA MarkReleases ==
  ASSUME TypeOK, NEW w \in Workers, MarkEvent(w)
  PROVE  /\ worker'[w].batch = worker[w].batch \ {worker[w].event}
         /\ worker'[w].event = NoEvent /\ worker'[w].verdict = "none"
         /\ \A v \in Workers \ {w} : worker'[v] = worker[v]
<1>1. worker[w] \in WorkerState
  BY DEF TypeOK
<1>2. CASE worker[w].batch \ {worker[w].event} = {}
  BY <1>1, <1>2 DEF MarkEvent, TypeOK, Free
<1>3. CASE worker[w].batch \ {worker[w].event} # {}
  BY <1>1, <1>3 DEF MarkEvent, TypeOK, WorkerState
<1> QED
  BY <1>2, <1>3

LEMMA ClaimTakes ==
  ASSUME TypeOK, NEW w \in Workers, NEW S \in SUBSET Events, ClaimDueEvents(w, S)
  PROVE  /\ worker'[w].batch = S /\ worker'[w].event = NoEvent
         /\ \A v \in Workers \ {w} : worker'[v] = worker[v]
  BY DEF ClaimDueEvents, TypeOK, WorkerState, Free

LEMMA HandleKeeps ==
  ASSUME TypeOK, NEW w \in Workers, NEW e \in Events, NEW r \in {"returned", "error", "permanent"},
         HandleEvent(w, e, r)
  PROVE  /\ worker'[w].batch = worker[w].batch /\ worker'[w].event = e
         /\ worker'[w].verdict \in {"done", "pending", "failed"}
         /\ worker'[w].verdict = "done" <=> r = "returned"
         /\ \A v \in Workers \ {w} : worker'[v] = worker[v]
         /\ \A f \in Events : runs[f] > 0 => runs'[f] > 0
         /\ r = "returned" => runs'[e] > 0
         /\ r # "returned" => runs' = runs
         /\ \A f \in Events \ {e} : runs'[f] = runs[f]
<1>1. worker[w] \in WorkerState /\ worker[w].claimed[e] \in 0..MaxAttempts
  BY DEF TypeOK, WorkerState
<1>2. /\ worker'[w].batch = worker[w].batch /\ worker'[w].event = e
      /\ worker'[w].verdict = VerdictOf(r, worker[w].claimed[e])
      /\ \A v \in Workers \ {w} : worker'[v] = worker[v]
  BY <1>1 DEF HandleEvent, TypeOK, WorkerState
<1>3. /\ worker'[w].verdict \in {"done", "pending", "failed"}
      /\ worker'[w].verdict = "done" <=> r = "returned"
  BY <1>1, <1>2, VerdictType
<1>4. /\ \A f \in Events : runs[f] > 0 => runs'[f] > 0
      /\ r = "returned" => runs'[e] > 0
      /\ r # "returned" => runs' = runs
      /\ \A f \in Events \ {e} : runs'[f] = runs[f]
  BY DEF HandleEvent, TypeOK
<1> QED
  BY <1>2, <1>3, <1>4

LEMMA LoseReleases ==
  ASSUME TypeOK, NEW w \in Workers, LoseWorker(w)
  PROVE  /\ worker'[w].batch = {} /\ worker'[w].event = NoEvent
         /\ \A v \in Workers \ {w} : worker'[v] = worker[v]
  BY DEF LoseWorker, TypeOK, Free

-----------------------------------------------------------------------------
(* Holders and handled events.                                             *)

LEMMA HoldersInit == Init => HoldersOK /\ DoneIsHandled /\ UntakenOnce
  BY EventsAssumption DEF Init, HoldersOK, DoneIsHandled, UntakenOnce, Holds, Handling, Free

LEMMA HoldersNext ==
  TypeOK /\ HoldersOK /\ DoneIsHandled /\ [Next]_vars => HoldersOK' /\ DoneIsHandled'
<1> SUFFICES ASSUME TypeOK, HoldersOK, DoneIsHandled, [Next]_vars
             PROVE  HoldersOK' /\ DoneIsHandled'
  OBVIOUS
<1> USE EventsAssumption DEF HoldersOK, DoneIsHandled, Holds, Handling
<1>1. ASSUME NEW e \in Events, Emit(e) PROVE HoldersOK' /\ DoneIsHandled'
  BY <1>1 DEF Emit, TypeOK
<1>2. ASSUME NEW w \in Workers, NEW S \in SUBSET Events, ClaimDueEvents(w, S)
      PROVE  HoldersOK' /\ DoneIsHandled'
  <2>1. /\ \A e \in S : status'[e] = "processing"
        /\ \A e \in Events \ S : status'[e] = status[e]
        /\ runs' = runs
    BY <1>2 DEF ClaimDueEvents, TypeOK
  <2>2. /\ worker'[w].batch = S /\ worker'[w].event = NoEvent
        /\ \A v \in Workers \ {w} : worker'[v] = worker[v]
    BY <1>2, ClaimTakes
  <2>3. DoneIsHandled'
    BY <2>1
  <2>4. ASSUME NEW v \in Workers PROVE
          /\ worker'[v].event # NoEvent =>
               worker'[v].event \in worker'[v].batch /\ worker'[v].verdict # "none"
          /\ \A e \in Events : e \in worker'[v].batch => status'[e] # "none"
          /\ \A e \in Events : e \in worker'[v].batch /\ worker'[v].event = e
                              /\ worker'[v].verdict = "done" => runs[e] > 0
    <3>1. CASE v = w
      BY <2>1, <2>2, <3>1
    <3>2. CASE v # w
      BY <2>1, <2>2, <3>2
    <3> QED
      BY <3>1, <3>2
  <2> QED
    BY <2>1, <2>3, <2>4
<1>3. ASSUME NEW w \in Workers, NEW e \in Events, NEW r \in {"returned", "error", "permanent"},
             HandleEvent(w, e, r)
      PROVE  HoldersOK' /\ DoneIsHandled'
  <2>1. status' = status /\ e \in worker[w].batch
    BY <1>3 DEF HandleEvent
  <2> QED
    BY <1>3, <2>1, HandleKeeps
<1>4. ASSUME NEW w \in Workers, MarkEvent(w) PROVE HoldersOK' /\ DoneIsHandled'
  <2>1. worker[w].event \in Events /\ worker[w].verdict # "none"
    BY <1>4 DEF MarkEvent, TypeOK, WorkerState
  <2>2. status' = [status EXCEPT ![worker[w].event] = worker[w].verdict] /\ runs' = runs
    BY <1>4 DEF MarkEvent
  <2> QED
    BY <1>4, <2>1, <2>2, MarkReleases DEF TypeOK
<1>5. ASSUME NEW w \in Workers, LoseWorker(w) PROVE HoldersOK' /\ DoneIsHandled'
  <2>1. /\ worker'[w].batch = {} /\ worker'[w].event = NoEvent
        /\ \A v \in Workers \ {w} : worker'[v] = worker[v]
        /\ UNCHANGED <<status, runs>>
    BY <1>5, LoseReleases DEF LoseWorker
  <2> QED
    BY <2>1
<1>6. ASSUME NEW e \in Events, ReapStaleEvent(e) PROVE HoldersOK' /\ DoneIsHandled'
  BY <1>6 DEF ReapStaleEvent, TypeOK
<1>7. ASSUME NEW e \in Events, RetryEvent(e) PROVE HoldersOK' /\ DoneIsHandled'
  BY <1>7 DEF RetryEvent, TypeOK
<1>8. CASE UNCHANGED vars
  BY <1>8 DEF vars
<1> QED
  BY <1>1, <1>2, <1>3, <1>4, <1>5, <1>6, <1>7, <1>8 DEF Next, Dispatch

-----------------------------------------------------------------------------
(* The exactly-once claim.                                                 *)

LEMMA OnceNext ==
  TypeOK /\ HoldersOK /\ UntakenOnce /\ [Next]_vars => UntakenOnce'
<1> SUFFICES ASSUME TypeOK, HoldersOK, UntakenOnce, [Next]_vars PROVE UntakenOnce'
  OBVIOUS
<1> USE EventsAssumption DEF UntakenOnce, Holds, Handling
<1>1. ASSUME NEW e \in Events, Emit(e) PROVE UntakenOnce'
  BY <1>1 DEF Emit, TypeOK
<1>2. ASSUME NEW w \in Workers, NEW S \in SUBSET Events, ClaimDueEvents(w, S) PROVE UntakenOnce'
  <2>1. /\ \A e \in S : status[e] = "pending" /\ status'[e] = "processing"
        /\ \A e \in Events \ S : status'[e] = status[e]
        /\ runs' = runs /\ taken' = taken /\ worker[w].batch = {}
    BY <1>2 DEF ClaimDueEvents, Claimable, TypeOK, Free
  <2>2. /\ worker'[w].batch = S /\ worker'[w].event = NoEvent
        /\ \A v \in Workers \ {w} : worker'[v] = worker[v]
    BY <1>2, ClaimTakes
  <2>3. ASSUME NEW e \in Events \ taken PROVE
          /\ status'[e] \in {"none", "pending"} => runs[e] = 0
          /\ \A x \in Workers : e \in worker'[x].batch =>
               /\ status'[e] = "processing"
               /\ \A v \in Workers : e \in worker'[v].batch => v = x
               /\ runs[e] > 0 => worker'[x].event = e /\ worker'[x].verdict = "done"
    <3>1. CASE e \in S
      BY <2>1, <2>2, <3>1 DEF TypeOK
    <3>2. CASE e \notin S
      BY <2>1, <2>2, <3>2
    <3> QED
      BY <3>1, <3>2
  <2> QED
    BY <2>1, <2>3
<1>3. ASSUME NEW w \in Workers, NEW e \in Events, NEW r \in {"returned", "error", "permanent"},
             HandleEvent(w, e, r)
      PROVE  UntakenOnce'
  <2>1. /\ status' = status /\ taken' = taken
        /\ worker[w].event = NoEvent /\ e \in worker[w].batch
    BY <1>3 DEF HandleEvent
  <2>2. \A x \in Workers : worker'[x].batch = worker[x].batch
    BY <1>3, HandleKeeps
  <2>3. ASSUME NEW f \in Events \ taken, NEW x \in Workers, f \in worker[x].batch, runs'[f] > 0
        PROVE  worker'[x].event = f /\ worker'[x].verdict = "done"
    <3>1. CASE x = w
      BY <1>3, <2>1, <2>3, <3>1, HandleKeeps DEF TypeOK
    <3>2. CASE x # w
      BY <1>3, <2>1, <2>3, <3>2, HandleKeeps
    <3> QED
      BY <3>1, <3>2
  <2>4. \A f \in Events \ taken : status[f] \in {"none", "pending"} => runs'[f] = 0
    BY <1>3, <2>1, HandleKeeps
  <2> QED
    BY <2>1, <2>2, <2>3, <2>4
<1>4. ASSUME NEW w \in Workers, MarkEvent(w) PROVE UntakenOnce'
  <2> DEFINE e == worker[w].event
  <2>1. e \in Events /\ e \in worker[w].batch
    BY <1>4 DEF MarkEvent, HoldersOK, TypeOK, WorkerState
  <2>2. /\ status' = [status EXCEPT ![e] = worker[w].verdict]
        /\ runs' = runs /\ taken' = taken
    BY <1>4 DEF MarkEvent
  <2>3. /\ worker'[w].batch = worker[w].batch \ {e}
        /\ worker'[w].event = NoEvent
        /\ \A v \in Workers \ {w} : worker'[v] = worker[v]
    BY <1>4, MarkReleases
  <2>4. ASSUME NEW f \in Events \ taken PROVE
          /\ status'[f] \in {"none", "pending"} => runs[f] = 0
          /\ \A x \in Workers : f \in worker'[x].batch =>
               /\ status'[f] = "processing"
               /\ \A v \in Workers : f \in worker'[v].batch => v = x
               /\ runs[f] > 0 => worker'[x].event = f /\ worker'[x].verdict = "done"
    <3> HIDE DEF e
    <3>1. CASE f = e
      <4>1. runs[f] > 0 => worker[w].verdict = "done"
        BY <2>1, <2>4, <3>1
      <4>2. status'[f] = worker[w].verdict
        BY <2>1, <2>2, <3>1 DEF TypeOK
      <4>3. \A x \in Workers : f \notin worker'[x].batch
        BY <2>1, <2>3, <2>4, <3>1
      <4> QED
        BY <4>1, <4>2, <4>3 DEF TypeOK
    <3>2. CASE f # e
      <4>1. status'[f] = status[f]
        BY <2>1, <2>2, <3>2 DEF TypeOK
      <4>2. \A x \in Workers : f \in worker'[x].batch => f \in worker[x].batch
        BY <2>3
      <4>3. f \in worker[w].batch => ~(runs[f] > 0)
        BY <3>2, <2>4 DEF e
      <4> QED
        BY <2>3, <3>2, <4>1, <4>2, <4>3
    <3> QED
      BY <3>1, <3>2
  <2> QED
    BY <2>2, <2>4
<1>5. ASSUME NEW w \in Workers, LoseWorker(w) PROVE UntakenOnce'
  <2>1. /\ worker'[w].batch = {} /\ worker'[w].event = NoEvent
        /\ \A v \in Workers \ {w} : worker'[v] = worker[v]
        /\ UNCHANGED <<status, runs, taken>>
    BY <1>5, LoseReleases DEF LoseWorker
  <2> QED
    BY <2>1
<1>6. ASSUME NEW e \in Events, ReapStaleEvent(e) PROVE UntakenOnce'
  BY <1>6 DEF ReapStaleEvent, TypeOK
<1>7. ASSUME NEW e \in Events, RetryEvent(e) PROVE UntakenOnce'
  BY <1>7 DEF RetryEvent, TypeOK
<1>8. CASE UNCHANGED vars
  BY <1>8 DEF vars
<1> QED
  BY <1>1, <1>2, <1>3, <1>4, <1>5, <1>6, <1>7, <1>8 DEF Next, Dispatch

LEMMA OnceRuns ==
  TypeOK /\ UntakenOnce /\ HandledOnce /\ [Next]_vars => HandledOnce'
<1> SUFFICES ASSUME TypeOK, UntakenOnce, HandledOnce, [Next]_vars PROVE HandledOnce'
  OBVIOUS
<1>1. ASSUME NEW w \in Workers, NEW e \in Events, NEW r \in {"returned", "error", "permanent"},
             HandleEvent(w, e, r)
      PROVE  HandledOnce'
  <2>1. e \notin taken => runs[e] = 0
    BY <1>1, EventsAssumption DEF HandleEvent, UntakenOnce, Holds, Handling, TypeOK
  <2> QED
    BY <1>1, <2>1 DEF HandleEvent, HandledOnce, TypeOK
<1>2. CASE runs' = runs /\ taken \subseteq taken'
  BY <1>2 DEF HandledOnce
<1> QED
  BY <1>1, <1>2 DEF Next, Dispatch, Emit, ClaimDueEvents, MarkEvent, LoseWorker, ReapStaleEvent,
     RetryEvent, vars

-----------------------------------------------------------------------------
(* The invariant and what follows from it.                                 *)

THEOREM InvariantHolds == Spec => [](Invariant /\ HandledOnce)
<1>1. Init => Invariant /\ HandledOnce
  BY TypesInit, HoldersInit, EventsAssumption DEF Invariant, Init, HandledOnce
<1>2. Invariant /\ HandledOnce /\ [Next]_vars => Invariant' /\ HandledOnce'
  BY TypesNext, HoldersNext, OnceNext, OnceRuns DEF Invariant
<1> QED
  BY <1>1, <1>2, PTL DEF Spec

(* Every reachable state is well typed: no row ever gets a status its table   *)
(* does not know.                                                              *)
THEOREM EventTypes == Spec => []TypeOK
<1>1. Invariant => TypeOK
  BY DEF Invariant
<1> QED
  BY <1>1, InvariantHolds, PTL

(* However many workers dispatch, the handler of an event that was never      *)
(* reaped or replayed returns at most once.                                    *)
THEOREM ExactlyOnceClaim == Spec => []HandledOnce
  BY InvariantHolds, PTL

LEMMA PromiseInit == Init => Promise!Init
  BY EventsAssumption DEF Init, Promise!Init, Outcome

LEMMA PromiseNext ==
  Invariant /\ [Next]_vars => [Promise!Next]_(Promise!vars)
<1> SUFFICES ASSUME TypeOK, HoldersOK, DoneIsHandled, [Next]_vars
             PROVE  [Promise!Next]_(Promise!vars)
  BY DEF Invariant
<1> USE EventsAssumption
<1> DEFINE outcome == [e \in Events |-> Outcome(status[e])]
           handled == {e \in Events : runs[e] > 0}
<1>1. ASSUME NEW e \in Events, Emit(e) PROVE Promise!Emit(e)
  <2>1. outcome[e] = "none" /\ outcome' = [outcome EXCEPT ![e] = "open"] /\ handled' = handled
    BY <1>1 DEF Emit, Outcome, TypeOK
  <2> QED
    BY <2>1 DEF Promise!Emit
<1>2. ASSUME NEW w \in Workers, NEW S \in SUBSET Events, ClaimDueEvents(w, S)
      PROVE  UNCHANGED <<outcome, handled>>
  <2>1. outcome' = outcome /\ handled' = handled
    BY <1>2 DEF ClaimDueEvents, Claimable, Outcome, TypeOK
  <2> QED
    BY <2>1
<1>3. ASSUME NEW w \in Workers, NEW e \in Events, NEW r \in {"returned", "error", "permanent"},
             HandleEvent(w, e, r)
      PROVE  Promise!Handle(e) \/ UNCHANGED <<outcome, handled>>
  <2>1. outcome[e] # "none" /\ outcome' = outcome
    BY <1>3 DEF HandleEvent, HoldersOK, Holds, Outcome, TypeOK
  <2>2. handled' = handled \union {e} \/ handled' = handled
    BY <1>3 DEF HandleEvent, TypeOK
  <2> QED
    BY <2>1, <2>2 DEF Promise!Handle
<1>4. ASSUME NEW w \in Workers, MarkEvent(w)
      PROVE  \E e \in Events : Promise!Close(e) \/ Promise!Fail(e)
  <2> DEFINE e == worker[w].event
  <2>1. e \in Events /\ e \in worker[w].batch /\ worker[w].verdict \in {"done", "pending", "failed"}
    BY <1>4 DEF MarkEvent, TypeOK, WorkerState, HoldersOK, Holds
  <2>2. status' = [status EXCEPT ![e] = worker[w].verdict] /\ handled' = handled
    BY <1>4 DEF MarkEvent
  <2>3. outcome' = [outcome EXCEPT ![e] = Outcome(worker[w].verdict)]
    BY <2>1, <2>2 DEF TypeOK
  <2>4. outcome[e] # "none"
    BY <2>1 DEF HoldersOK, Holds, Outcome, TypeOK
  <2>5. worker[w].verdict = "done" => e \in handled
    BY <2>1 DEF HoldersOK, Holds, Handling
  <2> HIDE DEF e
  <2>6. CASE worker[w].verdict = "done"
    <3>1. Promise!Close(e)
      BY <2>2, <2>3, <2>5, <2>6 DEF Promise!Close, Outcome
    <3> QED
      BY <2>1, <3>1
  <2>7. CASE worker[w].verdict \in {"pending", "failed"}
    <3>1. Outcome(worker[w].verdict) \in {"dead", "open"}
      BY <2>7 DEF Outcome
    <3>2. Promise!Fail(e)
      BY <2>2, <2>3, <2>4, <3>1 DEF Promise!Fail
    <3> QED
      BY <2>1, <3>2
  <2> QED
    BY <2>1, <2>6, <2>7
<1>5. ASSUME NEW w \in Workers, LoseWorker(w) PROVE UNCHANGED <<outcome, handled>>
  BY <1>5 DEF LoseWorker
<1>6. ASSUME NEW e \in Events, ReapStaleEvent(e) PROVE UNCHANGED <<outcome, handled>>
  <2>1. outcome' = outcome /\ handled' = handled
    BY <1>6 DEF ReapStaleEvent, Expirable, Outcome, TypeOK
  <2> QED
    BY <2>1
<1>7. ASSUME NEW e \in Events, RetryEvent(e) PROVE Promise!Fail(e)
  <2>1. /\ outcome[e] # "none" /\ handled' = handled
        /\ outcome' = [outcome EXCEPT ![e] = "open"]
    BY <1>7 DEF RetryEvent, Outcome, TypeOK
  <2> QED
    BY <2>1 DEF Promise!Fail
<1>8. CASE UNCHANGED vars
  BY <1>8 DEF vars, Promise!vars
<1> QED
  BY <1>1, <1>2, <1>3, <1>4, <1>5, <1>6, <1>7, <1>8
  DEF Next, Dispatch, Promise!Next, Promise!vars

(* The outbox implements Delivery: nothing emitted is lost, and an event is    *)
(* closed as done only after its handler has run to the end.                   *)
THEOREM ImplementsDelivery == Spec => KeepsPromise
<1>1. Invariant /\ [Next]_vars => [Promise!Next]_(Promise!vars)
  BY PromiseNext
<1>2. Spec => []Invariant
  BY InvariantHolds, PTL
<1> QED
  BY <1>1, <1>2, PromiseInit, PTL DEF Spec, KeepsPromise, Promise!Spec
-----------------------------------------------------------------------------
(* InboundReplies: what handle_reply holds, types first.                       *)
Labels == ByRules \union ByModel
HandlerState ==
  [at : {"idle", "read", "block", "book", "later", "gate", "send", "follow", "prune", "close", "record"},
   event : Events \union {NoEvent}, label : Labels \union {NoLabel},
   said : {"none", "human", "booked", "taken"}]
RepliesTyped ==
  /\ labels \in [Events -> LabelSets]
  /\ plan \in [goal : {"none", "sequence", "follow_up", "contact_later"}, steps : SUBSET Channels]
  /\ blocked \subseteq Channels
  /\ recorded \in [Events -> Labels \union {NoLabel}]
  /\ byHand \subseteq Events /\ reread \subseteq Events
  /\ handler \in [Workers -> HandlerState]

(* A handler works on an event of its worker's batch, under a label of its     *)
(* message, and the label says which steps it comes to.                        *)
Ending == {"no_calls", "bounce", "no_emails"}
Course(h) ==
  /\ h.at = "book" => h.label = "book_meeting"
  /\ h.at = "later" => h.label = "contact_later"
  /\ h.at \in {"gate", "send"} => h.label \in Answering
  /\ h.at = "follow" => h.label \in Answering \ Refusing
  /\ h.at = "block" => h.label \in Suppressing \union Refusing
  /\ h.at \in {"prune", "close"} => h.label \in Ending
AtWork(w) ==
  handler[w] = NoHandler \/
    /\ handler[w].at # "idle" /\ handler[w].event \in worker[w].batch /\ worker[w].event = NoEvent
    /\ handler[w].event \in Events /\ handler[w].label \in labels[handler[w].event]
    /\ Course(handler[w])

(* Who reads a message beside another, or after it was recorded, is counted.   *)
Counting ==
  /\ \A v, w \in Workers : v # w /\ handler[v].event = handler[w].event =>
       handler[w].event \in reread \union {NoEvent}
  /\ RecordedIsClosed
  /\ \A e \in Events : e \in byHand \/ status[e] = "done" => Handled(e)
  /\ \A w \in Workers : worker[w].event \in Events /\ worker[w].verdict = "done" => Handled(worker[w].event)

(* What a handler on its way, and a recorded one, has done to the contact.     *)
Stopped(l) == l \notin KeepsPlan => plan.goal # "sequence"
Barred(l) == l \in Suppressing \union Refusing => BlockOf(l) \subseteq blocked
Pruned(l) == plan.goal = "sequence" => plan.steps \intersect ChannelEnded(l) = {}
Done(h) ==
  /\ h.at \notin {"idle", "read"} => Stopped(h.label)
  /\ h.at \in {"prune", "close"} \/ (h.at = "record" /\ h.said # "human") => Barred(h.label)
  /\ h.at = "close" \/ (h.at = "record" /\ h.said # "human") => Pruned(h.label)
Wishes ==
  /\ \A w \in Workers : Done(handler[w])
  /\ \A e \in Events : Handled(e) => /\ Stopped(recorded[e])
                                     /\ e \notin byHand => Barred(recorded[e]) /\ Pruned(recorded[e])

(* An active plan without steps has an event that will close it: not recorded, *)
(* one that may end a channel, and with nobody about to record it as done.     *)
OnTheWay(h) ==
  \/ h.at = "read"
  \/ h.at # "record" /\ h.label \in Ending
  \/ h.at = "record" /\ h.said = "human"
Closes(e) ==
  /\ status[e] # "none"
  /\ \/ e \in reread \union byHand
     \/ /\ ~Handled(e) /\ labels[e] \intersect Ending # {}
        /\ \A w \in Workers : handler[w].event = e => OnTheWay(handler[w])
Hollow == plan # NoPlan /\ plan.steps = {}
HollowIsOwned == Hollow => \E e \in Events : Closes(e)

RepliesInv ==
  /\ RepliesTyped /\ (\A w \in Workers : AtWork(w)) /\ Counting /\ Wishes /\ HollowIsOwned

-----------------------------------------------------------------------------
(* The labels of a message, and steps of the handler that make the plan no     *)
(* longer and the suppression list no shorter.                                 *)
LEMMA LabelsOf ==
  ASSUME RepliesTyped, NEW e \in Events
  PROVE  /\ labels[e] \subseteq Labels
         /\ "out_of_office" \in labels[e] => labels[e] \intersect Ending = {}
<1>1. labels[e] \in LabelSets
  BY DEF RepliesTyped
<1>2. labels[e] \in SUBSET ByModel \/ \E l \in ByRules : labels[e] = {l}
  BY <1>1, RepliesAssumption
<1>3. CASE labels[e] \in SUBSET ByModel
  BY <1>3 DEF Labels, ByModel, ByRules
<1>4. CASE \E l \in ByRules : labels[e] = {l}
  BY <1>4 DEF Labels, ByRules, Ending
<1> QED
  BY <1>2, <1>3, <1>4

LEMMA EndingIs == \A l : ChannelEnded(l) # {} <=> l \in Ending
  BY DEF ChannelEnded, Ending

Onward ==
  /\ blocked \subseteq blocked'
  /\ plan'.goal = "sequence" => plan.goal = "sequence" /\ plan'.steps \subseteq plan.steps

LEMMA Stable ==
  ASSUME Onward, NEW l
  PROVE  /\ Stopped(l) => Stopped(l)'
         /\ Barred(l) => Barred(l)'
         /\ Pruned(l) => Pruned(l)'
  BY DEF Onward, Stopped, Barred, Pruned

LEMMA DoneStable ==
  ASSUME Onward, NEW h, Done(h)
  PROVE  Done(h)'
  BY Stable DEF Done

LEMMA WishesStable ==
  ASSUME Onward, Wishes, recorded' = recorded, byHand' = byHand,
         \A w \in Workers : handler'[w] = handler[w] \/ Done(handler[w])'
  PROVE  Wishes'
<1>1. ASSUME NEW w \in Workers PROVE Done(handler[w])'
  <2>1. PICK h : h = handler[w]
    OBVIOUS
  <2>2. Done(h)'
    BY <2>1, DoneStable DEF Wishes
  <2>3. CASE handler'[w] = h
    BY <2>2, <2>3
  <2> QED
    BY <2>1, <2>3
<1>2. ASSUME NEW e \in Events, Handled(e)'
      PROVE  Stopped(recorded[e])' /\ (e \notin byHand' => Barred(recorded[e])' /\ Pruned(recorded[e])')
  <2>1. PICK l : l = recorded[e]
    OBVIOUS
  <2>2. Stopped(l) /\ (e \notin byHand => Barred(l) /\ Pruned(l))
    BY <1>2, <2>1 DEF Wishes, Handled
  <2>3. Stopped(l)' /\ (e \notin byHand => Barred(l)' /\ Pruned(l)')
    BY <2>2, Stable
  <2>4. recorded'[e] = l /\ byHand' = byHand
    BY <2>1
  <2> QED
    BY <2>3, <2>4
<1> QED
  BY <1>1, <1>2 DEF Wishes

(* A step of the handler of w that neither takes up nor puts down a message.   *)
LEMMA WithinKeeps ==
  ASSUME RepliesInv, NEW w \in Workers, NEW h \in HandlerState, handler[w].at # "idle",
         handler' = [handler EXCEPT ![w] = h], h.event = handler[w].event, h.label = handler[w].label,
         h.at \notin {"idle", "read"}, Course(h), Done(h)', Onward,
         plan' \in [goal : {"none", "sequence", "follow_up", "contact_later"}, steps : SUBSET Channels],
         blocked' \subseteq Channels,
         Hollow' => (Hollow /\ (OnTheWay(handler[w]) /\ handler[w].label # "out_of_office" => OnTheWay(h)))
                    \/ h.at = "close",
         UNCHANGED <<status, worker, labels, recorded, byHand, reread>>,
         \A e \in worker[w].batch : status[e] # "none"
  PROVE  RepliesInv'
<1>0. RepliesTyped /\ Counting /\ Wishes /\ HollowIsOwned /\ \A v \in Workers : AtWork(v)
  BY DEF RepliesInv
<1>1. /\ handler \in [Workers -> HandlerState] /\ handler'[w] = h
      /\ \A v \in Workers \ {w} : handler'[v] = handler[v]
  BY <1>0 DEF RepliesTyped
<1>2. RepliesTyped'
  BY <1>0, <1>1 DEF RepliesTyped
<1>3. /\ handler[w] # NoHandler /\ handler[w].event \in worker[w].batch /\ worker[w].event = NoEvent
      /\ handler[w].event \in Events /\ handler[w].label \in labels[handler[w].event]
  BY <1>0 DEF AtWork, NoHandler
<1>4. ASSUME NEW v \in Workers PROVE AtWork(v)'
  <2>1. CASE v = w
    <3>1. /\ h.at # "idle" /\ h.event \in worker[w].batch /\ worker[w].event = NoEvent
          /\ h.event \in Events /\ h.label \in labels[h.event] /\ Course(h)
      BY <1>3
    <3> QED
      BY <1>1, <2>1, <3>1 DEF AtWork, Course
  <2>2. CASE v # w
    BY <1>0, <1>1, <2>2 DEF AtWork, Course
  <2> QED
    BY <2>1, <2>2
<1>5. \A v \in Workers : handler'[v].event = handler[v].event
  BY <1>1
<1>6. Counting'
  <2>1. \A v, x \in Workers : v # x /\ handler'[v].event = handler'[x].event =>
          handler'[x].event \in reread' \union {NoEvent}
    BY <1>0, <1>5 DEF Counting
  <2>2. RecordedIsClosed'
    <3>1. ASSUME NEW v \in Workers, handler'[v] # NoHandler, recorded[handler[v].event] # NoLabel
          PROVE  handler[v].event \in reread
      BY <1>0, <1>1, <1>3, <3>1 DEF Counting, RecordedIsClosed, Handled
    <3> QED
      BY <1>5, <3>1 DEF RecordedIsClosed, Handled
  <2>3. /\ \A e \in Events : e \in byHand' \/ status'[e] = "done" => recorded'[e] # NoLabel
        /\ \A v \in Workers : worker'[v].event \in Events /\ worker'[v].verdict = "done" =>
             recorded'[worker'[v].event] # NoLabel
    BY <1>0 DEF Counting, Handled
  <2> QED
    BY <2>1, <2>2, <2>3 DEF Counting, Handled
<1>7. Wishes'
  <2>1. Done(handler[w])'
    BY <1>1 DEF Done, Stopped, Barred, Pruned
  <2>2. \A v \in Workers : handler'[v] = handler[v] \/ Done(handler[v])'
    BY <1>1, <2>1
  <2> QED
    BY <1>0, <2>2, WishesStable
<1>8. HollowIsOwned'
  <2> SUFFICES ASSUME Hollow' PROVE \E e \in Events : Closes(e)'
    BY DEF HollowIsOwned
  <2>1. CASE Hollow /\ (OnTheWay(handler[w]) /\ handler[w].label # "out_of_office" => OnTheWay(h))
    <3>1. PICK e \in Events : Closes(e)
      BY <1>0, <2>1 DEF HollowIsOwned
    <3>2. labels[e] \intersect Ending # {} =>
            \A v \in Workers : handler[v].event = e /\ OnTheWay(handler[v]) => OnTheWay(handler[v])'
      <4>1. OnTheWay(h) => OnTheWay(handler[w])'
        BY <1>1 DEF OnTheWay
      <4>2. \A v \in Workers \ {w} : OnTheWay(handler[v]) => OnTheWay(handler[v])'
        BY <1>1 DEF OnTheWay
      <4>3. labels[e] \intersect Ending # {} /\ handler[w].event = e => handler[w].label # "out_of_office"
        BY <1>0, <1>3, LabelsOf
      <4> QED
        BY <2>1, <4>1, <4>2, <4>3
    <3>3. Closes(e)'
      BY <1>5, <3>1, <3>2 DEF Closes, Handled
    <3> QED
      BY <3>3
  <2>2. CASE h.at = "close"
    <3>1. PICK e \in Events : e = handler[w].event
      BY <1>3
    <3>2. status[e] # "none" /\ h.label \in labels[e] \intersect Ending
      BY <1>3, <2>2, <3>1 DEF Course
    <3>3. CASE e \in reread
      BY <3>2, <3>3 DEF Closes
    <3>4. CASE e \notin reread
      <4>1. ~Handled(e) /\ \A v \in Workers : handler[v].event = e => v = w
        BY <1>0, <1>3, <3>1, <3>4, EventsAssumption DEF Counting, RecordedIsClosed
      <4>2. OnTheWay(handler[w])'
        BY <1>1, <2>2, <3>2 DEF OnTheWay
      <4>3. \A v \in Workers : handler'[v].event = e => OnTheWay(handler[v])'
        BY <1>5, <4>1, <4>2
      <4> QED
        BY <3>2, <4>1, <4>3 DEF Closes, Handled
    <3> QED
      BY <3>3, <3>4
  <2> QED
    BY <2>1, <2>2
<1> QED
  BY <1>2, <1>4, <1>6, <1>7, <1>8 DEF RepliesInv

(* A step of the outbox, and a handler that ends without recording.            *)
LEMMA OutsideKeeps ==
  ASSUME RepliesInv, UNCHANGED <<wish, record, reread>>,
         \A v \in Workers :
           \/ handler'[v] = NoHandler
           \/ /\ handler'[v] = handler[v] /\ handler[v] # NoHandler
              /\ worker'[v].event = NoEvent /\ worker[v].batch \subseteq worker'[v].batch,
         handler' \in [Workers -> HandlerState],
         \A e \in Events : /\ status[e] # "none" => status'[e] # "none"
                           /\ status'[e] = "done" => Handled(e),
         \A v \in Workers : worker'[v].event \in Events /\ worker'[v].verdict = "done" =>
           Handled(worker'[v].event)
  PROVE  RepliesInv'
<1>0. /\ RepliesTyped /\ Counting /\ Wishes /\ HollowIsOwned /\ \A v \in Workers : AtWork(v)
      /\ UNCHANGED <<plan, blocked, booked, labels, recorded, byHand, reread>>
  BY DEF RepliesInv, wish, record
<1>1. NoHandler.event = NoEvent /\ NoHandler.at = "idle" /\ NoEvent \notin Events
  BY EventsAssumption DEF NoHandler
<1>2. RepliesTyped'
  BY <1>0 DEF RepliesTyped
<1>3. \A v \in Workers : AtWork(v)'
  BY <1>0 DEF AtWork, Course
<1>4. Counting'
  <2>1. \A v, x \in Workers : v # x /\ handler'[v].event = handler'[x].event =>
          handler'[x].event \in reread \union {NoEvent}
    BY <1>0, <1>1 DEF Counting
  <2>2. \A v \in Workers : handler'[v] # NoHandler /\ recorded[handler'[v].event] # NoLabel =>
          handler'[v].event \in reread
    BY <1>0 DEF Counting, RecordedIsClosed, Handled
  <2>3. \A e \in Events : e \in byHand \/ status'[e] = "done" => recorded[e] # NoLabel
    BY <1>0 DEF Counting, Handled
  <2>4. \A v \in Workers : worker'[v].event \in Events /\ worker'[v].verdict = "done" =>
          recorded[worker'[v].event] # NoLabel
    BY DEF Handled
  <2> QED
    BY <1>0, <2>1, <2>2, <2>3, <2>4 DEF Counting, RecordedIsClosed, Handled
<1>5. Wishes'
  <2>1. Onward
    BY <1>0 DEF Onward
  <2>2. \A v \in Workers : handler'[v] = NoHandler => Done(handler[v])'
    BY <1>1 DEF Done
  <2> QED
    BY <1>0, <2>1, <2>2, WishesStable
<1>6. HollowIsOwned'
  <2> SUFFICES ASSUME Hollow' PROVE \E e \in Events : Closes(e)'
    BY DEF HollowIsOwned
  <2>1. Hollow
    BY <1>0 DEF Hollow
  <2>2. PICK e \in Events : Closes(e)
    BY <1>0, <2>1 DEF HollowIsOwned
  <2>3. \A v \in Workers : handler'[v].event = e => handler'[v] = handler[v]
    BY <1>1
  <2>4. \A v \in Workers : handler'[v] = handler[v] /\ OnTheWay(handler[v]) => OnTheWay(handler[v])'
    BY DEF OnTheWay
  <2>5. Closes(e)'
    BY <1>0, <2>2, <2>3, <2>4 DEF Closes, Handled
  <2> QED
    BY <2>5
<1> QED
  BY <1>2, <1>3, <1>4, <1>5, <1>6 DEF RepliesInv

(* The steps of a handler, one lemma each.                                     *)
Moved(w, h, p, s) ==
  /\ handler' = [handler EXCEPT ![w] = h]
  /\ h.event = handler[w].event /\ h.label = handler[w].label /\ h.at = p /\ h.said = s

LEMMA Moves ==
  ASSUME RepliesTyped, NEW w \in Workers,
         NEW p \in {"block", "book", "later", "gate", "send", "follow", "prune", "close", "record"},
         NEW s \in {"none", "human", "booked", "taken"},
         \/ handler' = [handler EXCEPT ![w].at = p, ![w].said = s]
         \/ Goes(w, p) /\ s = handler[w].said
  PROVE  \E h \in HandlerState : Moved(w, h, p, s)
<1>1. PICK h : h = handler'[w]
  OBVIOUS
<1>2. handler \in [Workers -> HandlerState] /\ handler[w] \in HandlerState
  BY DEF RepliesTyped
<1>3. handler' = [handler EXCEPT ![w] = h]
  BY <1>1, <1>2 DEF Goes
<1>4. /\ h \in HandlerState /\ h.at = p /\ h.said = s
      /\ h.event = handler[w].event /\ h.label = handler[w].label
  BY <1>1, <1>2 DEF Goes, HandlerState
<1> QED
  BY <1>3, <1>4 DEF Moved

LEMMA Handles ==
  ASSUME RepliesInv, TypeOK, HoldersOK, NEW w \in Workers, handler[w].at # "idle"
  PROVE  /\ Course(handler[w]) /\ Done(handler[w]) /\ handler[w].label \in Labels
         /\ handler[w].said \in {"none", "human", "booked", "taken"}
         /\ \A e \in worker[w].batch : status[e] # "none"
<1>1. Course(handler[w]) /\ handler[w].event \in Events /\ handler[w].label \in labels[handler[w].event]
  BY DEF RepliesInv, AtWork, NoHandler
<1>2. handler[w].label \in Labels
  BY <1>1, LabelsOf DEF RepliesInv
<1>3. handler[w].said \in {"none", "human", "booked", "taken"}
  BY DEF RepliesInv, RepliesTyped, HandlerState
<1>4. \A e \in worker[w].batch : status[e] # "none"
  BY DEF HoldersOK, Holds, TypeOK, WorkerState
<1> QED
  BY <1>1, <1>2, <1>3, <1>4 DEF RepliesInv, Wishes

LEMMA StopForReplyKeeps ==
  ASSUME RepliesInv, TypeOK, HoldersOK, NEW w \in Workers, NEW byPerson \in BOOLEAN,
         StopForReply(w, byPerson)
  PROVE  RepliesInv'
<1>1. PICK l : l = handler[w].label
  OBVIOUS
<1>2. /\ handler[w].at = "read" /\ blocked' = blocked
      /\ plan' = IF l \in KeepsPlan THEN plan ELSE NoPlan
      /\ UNCHANGED <<status, worker, labels, recorded, byHand, reread>>
  BY <1>1 DEF StopForReply, At, Within, outbox, record
<1>3. PICK p, s : /\ p = IF byPerson THEN "record" ELSE FirstStep(l)
                  /\ s = IF byPerson THEN "human" ELSE handler[w].said
  OBVIOUS
<1>4. /\ l \in Labels /\ s \in {"none", "human", "booked", "taken"}
      /\ \A e \in worker[w].batch : status[e] # "none"
  BY <1>1, <1>2, <1>3, Handles
<1>5. /\ p \in {"block", "book", "later", "gate", "record"}
      /\ p = "book" => l = "book_meeting"
      /\ p = "later" => l = "contact_later"
      /\ p = "gate" => l \in Answering
      /\ p = "block" => l \in Suppressing \union Refusing
      /\ p = "record" /\ s # "human" => l = "out_of_office"
  <2>1. CASE byPerson
    BY <1>3, <2>1
  <2>2. CASE ~byPerson
    <3>1. l # "human_needed" /\ p = FirstStep(l)
      BY <1>1, <1>3, <2>2 DEF StopForReply
    <3> QED
      BY <1>4, <3>1 DEF FirstStep, Labels, ByRules, ByModel, Suppressing, Answering, Refusing
  <2> QED
    BY <2>1, <2>2
<1>6. PICK h \in HandlerState : Moved(w, h, p, s)
  BY <1>1, <1>2, <1>3, <1>4, <1>5, Moves DEF StopForReply, RepliesInv
<1>7. Course(h)
  BY <1>1, <1>5, <1>6 DEF Moved, Course
<1>8. Onward
  BY <1>2 DEF Onward, NoPlan
<1>9. Done(h)'
  BY <1>1, <1>2, <1>5, <1>6 DEF Moved, Done, Stopped, Barred, Pruned, NoPlan, Suppressing, Refusing, ChannelEnded
<1>10. Hollow' => Hollow /\ (OnTheWay(handler[w]) /\ handler[w].label # "out_of_office" => OnTheWay(h))
  BY <1>1, <1>2, <1>5, <1>6 DEF Moved, Hollow, OnTheWay, Ending, KeepsPlan
<1>11. /\ plan' \in [goal : {"none", "sequence", "follow_up", "contact_later"}, steps : SUBSET Channels]
       /\ blocked' \subseteq Channels
  BY <1>2 DEF RepliesInv, RepliesTyped, NoPlan
<1>12. /\ handler[w].at # "idle" /\ h.at \notin {"idle", "read"}
       /\ handler' = [handler EXCEPT ![w] = h] /\ h.event = handler[w].event /\ h.label = handler[w].label
  BY <1>2, <1>5, <1>6 DEF Moved
<1> QED
  BY <1>2, <1>4, <1>7, <1>8, <1>9, <1>10, <1>11, <1>12, WithinKeeps

LEMMA TryBookKeeps ==
  ASSUME RepliesInv, TypeOK, HoldersOK, NEW w \in Workers, TryBook(w)
  PROVE  RepliesInv'
<1>1. PICK l : l = handler[w].label
  OBVIOUS
<1>2. /\ handler[w].at = "book"
      /\ plan' = plan /\ blocked' = blocked
      /\ UNCHANGED <<status, worker, labels, recorded, byHand, reread>>
  BY <1>1 DEF TryBook, At, Within, wish, outbox, record
<1>3. /\ l \in Labels /\ handler[w].said \in {"none", "human", "booked", "taken"}
      /\ Course(handler[w]) /\ Done(handler[w]) /\ \A e \in worker[w].batch : status[e] # "none"
  BY <1>1, <1>2, Handles
<1>4. plan \in [goal : {"none", "sequence", "follow_up", "contact_later"}, steps : SUBSET Channels] /\ blocked \subseteq Channels
  BY DEF RepliesInv, RepliesTyped
<1>5. PICK p, s :
        /\ \/ handler' = [handler EXCEPT ![w].at = p, ![w].said = s]
           \/ Goes(w, p) /\ s = handler[w].said
        /\ (p = "gate" /\ s \in {"booked", "taken", handler[w].said}) \/ (p = "record" /\ s = "human")
  BY DEF TryBook
<1>6. p \in {"gate", "record"} /\ s \in {"none", "human", "booked", "taken"} /\ (p = "record" => s = "human")
  BY <1>1, <1>3, <1>5 DEF Course
<1>7. PICK h \in HandlerState : Moved(w, h, p, s)
  <2>1. /\ p \in {"block", "book", "later", "gate", "send", "follow", "prune", "close", "record"}
        /\ s \in {"none", "human", "booked", "taken"}
    BY <1>6
  <2>2. handler' = [handler EXCEPT ![w].at = p, ![w].said = s] \/ (Goes(w, p) /\ s = handler[w].said)
    BY <1>5
  <2>3. RepliesTyped
    BY DEF RepliesInv
  <2> QED
    BY <2>1, <2>2, <2>3, Moves
<1>8. Course(h)
  BY <1>1, <1>2, <1>3, <1>6, <1>7 DEF Moved, Course, Answering
<1>9. Onward
  BY <1>2 DEF Onward
<1>10. Done(h)'
  <2>1. Stopped(l)'
    BY <1>1, <1>2, <1>3 DEF Done, Stopped
  <2>2. h.at = "record" /\ h.said # "human" => l \notin Suppressing \union Refusing \union Ending
    BY <1>1, <1>2, <1>3, <1>6, <1>7 DEF Moved, Course, Suppressing, Refusing, Answering, Ending
  <2> QED
    BY <1>1, <1>6, <1>7, <2>1, <2>2, EndingIs DEF Moved, Done, Barred, Pruned
<1>11. Hollow' => (Hollow /\ (OnTheWay(handler[w]) /\ handler[w].label # "out_of_office" => OnTheWay(h)))
                  \/ h.at = "close"
  BY <1>1, <1>2, <1>3, <1>6, <1>7 DEF Moved, Course, Hollow, OnTheWay, Suppressing, Refusing, Answering, Ending
<1>12. /\ plan' \in [goal : {"none", "sequence", "follow_up", "contact_later"}, steps : SUBSET Channels]
       /\ blocked' \subseteq Channels
  BY <1>2, <1>4
<1>13. /\ handler[w].at # "idle" /\ h.at \notin {"idle", "read"}
       /\ handler' = [handler EXCEPT ![w] = h] /\ h.event = handler[w].event /\ h.label = handler[w].label
  BY <1>2, <1>6, <1>7 DEF Moved
<1> QED
  BY <1>2, <1>3, <1>8, <1>9, <1>10, <1>11, <1>12, <1>13, WithinKeeps

LEMMA CheckReplyGateKeeps ==
  ASSUME RepliesInv, TypeOK, HoldersOK, NEW w \in Workers, CheckReplyGate(w)
  PROVE  RepliesInv'
<1>1. PICK l : l = handler[w].label
  OBVIOUS
<1>2. /\ handler[w].at = "gate"
      /\ plan' = plan /\ blocked' = blocked
      /\ UNCHANGED <<status, worker, labels, recorded, byHand, reread>>
  BY <1>1 DEF CheckReplyGate, At, Within, wish, outbox, record
<1>3. /\ l \in Labels /\ handler[w].said \in {"none", "human", "booked", "taken"}
      /\ Course(handler[w]) /\ Done(handler[w]) /\ \A e \in worker[w].batch : status[e] # "none"
  BY <1>1, <1>2, Handles
<1>4. plan \in [goal : {"none", "sequence", "follow_up", "contact_later"}, steps : SUBSET Channels] /\ blocked \subseteq Channels
  BY DEF RepliesInv, RepliesTyped
<1>5. PICK p, s :
        /\ \/ handler' = [handler EXCEPT ![w].at = p, ![w].said = s]
           \/ Goes(w, p) /\ s = handler[w].said
        /\ \/ p = "send" /\ s = handler[w].said
           \/ p = (IF l \in Refusing THEN "block" ELSE "record") /\ s = "human"
  <2>1. handler \in [Workers -> HandlerState]
    BY DEF RepliesInv, RepliesTyped
  <2>2. CASE "email" \notin blocked
    <3>1. Goes(w, "send")
      BY <2>1, <2>2 DEF CheckReplyGate, Goes
    <3> QED
      BY <3>1
  <2>3. CASE "email" \in blocked
    <3>1. handler' = [handler EXCEPT ![w].at = IF l \in Refusing THEN "block" ELSE "record", ![w].said = "human"]
      BY <1>1, <2>1, <2>3 DEF CheckReplyGate
    <3> QED
      BY <3>1
  <2> QED
    BY <2>2, <2>3
<1>6. /\ p \in {"send", "block", "record"} /\ s \in {"none", "human", "booked", "taken"}
      /\ (p = "block" => l \in Refusing) /\ (p = "record" => s = "human" /\ l \notin Refusing)
  BY <1>1, <1>3, <1>5 DEF Course
<1>7. PICK h \in HandlerState : Moved(w, h, p, s)
  <2>1. /\ p \in {"block", "book", "later", "gate", "send", "follow", "prune", "close", "record"}
        /\ s \in {"none", "human", "booked", "taken"}
    BY <1>6
  <2>2. handler' = [handler EXCEPT ![w].at = p, ![w].said = s] \/ (Goes(w, p) /\ s = handler[w].said)
    BY <1>5
  <2>3. RepliesTyped
    BY DEF RepliesInv
  <2> QED
    BY <2>1, <2>2, <2>3, Moves
<1>8. Course(h)
  BY <1>1, <1>2, <1>3, <1>6, <1>7 DEF Moved, Course
<1>9. Onward
  BY <1>2 DEF Onward
<1>10. Done(h)'
  <2>1. Stopped(l)'
    BY <1>1, <1>2, <1>3 DEF Done, Stopped
  <2>2. h.at = "record" /\ h.said # "human" => l \notin Suppressing \union Refusing \union Ending
    BY <1>1, <1>2, <1>3, <1>6, <1>7 DEF Moved, Course, Suppressing, Refusing, Answering, Ending
  <2> QED
    BY <1>1, <1>6, <1>7, <2>1, <2>2, EndingIs DEF Moved, Done, Barred, Pruned
<1>11. Hollow' => (Hollow /\ (OnTheWay(handler[w]) /\ handler[w].label # "out_of_office" => OnTheWay(h)))
                  \/ h.at = "close"
  BY <1>1, <1>2, <1>3, <1>6, <1>7 DEF Moved, Course, Hollow, OnTheWay, Suppressing, Refusing, Answering, Ending
<1>12. /\ plan' \in [goal : {"none", "sequence", "follow_up", "contact_later"}, steps : SUBSET Channels]
       /\ blocked' \subseteq Channels
  BY <1>2, <1>4
<1>13. /\ handler[w].at # "idle" /\ h.at \notin {"idle", "read"}
       /\ handler' = [handler EXCEPT ![w] = h] /\ h.event = handler[w].event /\ h.label = handler[w].label
  BY <1>2, <1>6, <1>7 DEF Moved
<1> QED
  BY <1>2, <1>3, <1>8, <1>9, <1>10, <1>11, <1>12, <1>13, WithinKeeps

LEMMA SendReplyKeeps ==
  ASSUME RepliesInv, TypeOK, HoldersOK, NEW w \in Workers, SendReply(w)
  PROVE  RepliesInv'
<1>1. PICK l : l = handler[w].label
  OBVIOUS
<1>2. /\ handler[w].at = "send"
      /\ plan' = plan /\ blocked' = blocked
      /\ UNCHANGED <<status, worker, labels, recorded, byHand, reread>>
  BY <1>1 DEF SendReply, At, Within, wish, outbox, record
<1>3. /\ l \in Labels /\ handler[w].said \in {"none", "human", "booked", "taken"}
      /\ Course(handler[w]) /\ Done(handler[w]) /\ \A e \in worker[w].batch : status[e] # "none"
  BY <1>1, <1>2, Handles
<1>4. plan \in [goal : {"none", "sequence", "follow_up", "contact_later"}, steps : SUBSET Channels] /\ blocked \subseteq Channels
  BY DEF RepliesInv, RepliesTyped
<1>5. PICK p, s :
        /\ \/ handler' = [handler EXCEPT ![w].at = p, ![w].said = s]
           \/ Goes(w, p) /\ s = handler[w].said
        /\ p = AfterAnswer(handler[w]) /\ s = "none"
  BY DEF SendReply
<1>6. /\ p \in {"block", "record", "follow"} /\ s = "none"
      /\ (p = "block" <=> l \in Refusing)
  BY <1>1, <1>3, <1>5 DEF AfterAnswer
<1>7. PICK h \in HandlerState : Moved(w, h, p, s)
  <2>1. /\ p \in {"block", "book", "later", "gate", "send", "follow", "prune", "close", "record"}
        /\ s \in {"none", "human", "booked", "taken"}
    BY <1>6
  <2>2. handler' = [handler EXCEPT ![w].at = p, ![w].said = s] \/ (Goes(w, p) /\ s = handler[w].said)
    BY <1>5
  <2>3. RepliesTyped
    BY DEF RepliesInv
  <2> QED
    BY <2>1, <2>2, <2>3, Moves
<1>8. Course(h)
  BY <1>1, <1>2, <1>3, <1>6, <1>7 DEF Moved, Course
<1>9. Onward
  BY <1>2 DEF Onward
<1>10. Done(h)'
  <2>1. Stopped(l)'
    BY <1>1, <1>2, <1>3 DEF Done, Stopped
  <2>2. h.at = "record" /\ h.said # "human" => l \notin Suppressing \union Refusing \union Ending
    BY <1>1, <1>2, <1>3, <1>6, <1>7 DEF Moved, Course, Suppressing, Refusing, Answering, Ending
  <2> QED
    BY <1>1, <1>6, <1>7, <2>1, <2>2, EndingIs DEF Moved, Done, Barred, Pruned
<1>11. Hollow' => (Hollow /\ (OnTheWay(handler[w]) /\ handler[w].label # "out_of_office" => OnTheWay(h)))
                  \/ h.at = "close"
  BY <1>1, <1>2, <1>3, <1>6, <1>7 DEF Moved, Course, Hollow, OnTheWay, Suppressing, Refusing, Answering, Ending
<1>12. /\ plan' \in [goal : {"none", "sequence", "follow_up", "contact_later"}, steps : SUBSET Channels]
       /\ blocked' \subseteq Channels
  BY <1>2, <1>4
<1>13. /\ handler[w].at # "idle" /\ h.at \notin {"idle", "read"}
       /\ handler' = [handler EXCEPT ![w] = h] /\ h.event = handler[w].event /\ h.label = handler[w].label
  BY <1>2, <1>6, <1>7 DEF Moved
<1> QED
  BY <1>2, <1>3, <1>8, <1>9, <1>10, <1>11, <1>12, <1>13, WithinKeeps

LEMMA PlanForLaterKeeps ==
  ASSUME RepliesInv, TypeOK, HoldersOK, NEW w \in Workers, PlanForLater(w)
  PROVE  RepliesInv'
<1>1. PICK l : l = handler[w].label
  OBVIOUS
<1>2. /\ handler[w].at = "later"
      /\ plan' = (IF plan = NoPlan THEN ContactLater ELSE plan) /\ blocked' = blocked
      /\ UNCHANGED <<status, worker, labels, recorded, byHand, reread>>
  BY <1>1 DEF PlanForLater, At, Within, wish, outbox, record, Created
<1>3. /\ l \in Labels /\ handler[w].said \in {"none", "human", "booked", "taken"}
      /\ Course(handler[w]) /\ Done(handler[w]) /\ \A e \in worker[w].batch : status[e] # "none"
  BY <1>1, <1>2, Handles
<1>4. plan \in [goal : {"none", "sequence", "follow_up", "contact_later"}, steps : SUBSET Channels] /\ blocked \subseteq Channels
  BY DEF RepliesInv, RepliesTyped
<1>5. PICK p, s :
        /\ \/ handler' = [handler EXCEPT ![w].at = p, ![w].said = s]
           \/ Goes(w, p) /\ s = handler[w].said
        /\ p = "gate" /\ s = handler[w].said
  BY DEF PlanForLater
<1>6. p = "gate" /\ s \in {"none", "human", "booked", "taken"}
  BY <1>1, <1>3, <1>5 DEF Course
<1>7. PICK h \in HandlerState : Moved(w, h, p, s)
  <2>1. /\ p \in {"block", "book", "later", "gate", "send", "follow", "prune", "close", "record"}
        /\ s \in {"none", "human", "booked", "taken"}
    BY <1>6
  <2>2. handler' = [handler EXCEPT ![w].at = p, ![w].said = s] \/ (Goes(w, p) /\ s = handler[w].said)
    BY <1>5
  <2>3. RepliesTyped
    BY DEF RepliesInv
  <2> QED
    BY <2>1, <2>2, <2>3, Moves
<1>8. Course(h)
  BY <1>1, <1>2, <1>3, <1>6, <1>7 DEF Moved, Course, Answering
<1>9. Onward
  BY <1>2 DEF Onward, ContactLater
<1>10. Done(h)'
  <2>1. Stopped(l)'
    BY <1>1, <1>2, <1>3 DEF Done, Stopped, ContactLater
  <2>2. h.at = "record" /\ h.said # "human" => l \notin Suppressing \union Refusing \union Ending
    BY <1>1, <1>2, <1>3, <1>6, <1>7 DEF Moved, Course, Suppressing, Refusing, Answering, Ending
  <2> QED
    BY <1>1, <1>6, <1>7, <2>1, <2>2, EndingIs DEF Moved, Done, Barred, Pruned
<1>11. Hollow' => (Hollow /\ (OnTheWay(handler[w]) /\ handler[w].label # "out_of_office" => OnTheWay(h)))
                  \/ h.at = "close"
  BY <1>1, <1>2, <1>3, <1>6, <1>7 DEF Moved, Course, Hollow, OnTheWay, ContactLater, Channels, Suppressing, Refusing, Answering, Ending
<1>12. /\ plan' \in [goal : {"none", "sequence", "follow_up", "contact_later"}, steps : SUBSET Channels]
       /\ blocked' \subseteq Channels
  BY <1>2, <1>4 DEF ContactLater
<1>13. /\ handler[w].at # "idle" /\ h.at \notin {"idle", "read"}
       /\ handler' = [handler EXCEPT ![w] = h] /\ h.event = handler[w].event /\ h.label = handler[w].label
  BY <1>2, <1>6, <1>7 DEF Moved
<1> QED
  BY <1>2, <1>3, <1>8, <1>9, <1>10, <1>11, <1>12, <1>13, WithinKeeps

LEMMA PlanFollowUpKeeps ==
  ASSUME RepliesInv, TypeOK, HoldersOK, NEW w \in Workers, PlanFollowUp(w)
  PROVE  RepliesInv'
<1>1. PICK l : l = handler[w].label
  OBVIOUS
<1>2. /\ handler[w].at = "follow"
      /\ plan' = (IF plan = NoPlan THEN FollowUp ELSE plan) /\ blocked' = blocked
      /\ UNCHANGED <<status, worker, labels, recorded, byHand, reread>>
  BY <1>1 DEF PlanFollowUp, At, Within, wish, outbox, record, Created
<1>3. /\ l \in Labels /\ handler[w].said \in {"none", "human", "booked", "taken"}
      /\ Course(handler[w]) /\ Done(handler[w]) /\ \A e \in worker[w].batch : status[e] # "none"
  BY <1>1, <1>2, Handles
<1>4. plan \in [goal : {"none", "sequence", "follow_up", "contact_later"}, steps : SUBSET Channels] /\ blocked \subseteq Channels
  BY DEF RepliesInv, RepliesTyped
<1>5. PICK p, s :
        /\ \/ handler' = [handler EXCEPT ![w].at = p, ![w].said = s]
           \/ Goes(w, p) /\ s = handler[w].said
        /\ p = "record" /\ s = handler[w].said
  BY DEF PlanFollowUp
<1>6. p = "record" /\ s \in {"none", "human", "booked", "taken"}
  BY <1>1, <1>3, <1>5 DEF Course
<1>7. PICK h \in HandlerState : Moved(w, h, p, s)
  <2>1. /\ p \in {"block", "book", "later", "gate", "send", "follow", "prune", "close", "record"}
        /\ s \in {"none", "human", "booked", "taken"}
    BY <1>6
  <2>2. handler' = [handler EXCEPT ![w].at = p, ![w].said = s] \/ (Goes(w, p) /\ s = handler[w].said)
    BY <1>5
  <2>3. RepliesTyped
    BY DEF RepliesInv
  <2> QED
    BY <2>1, <2>2, <2>3, Moves
<1>8. Course(h)
  BY <1>1, <1>2, <1>3, <1>6, <1>7 DEF Moved, Course
<1>9. Onward
  BY <1>2 DEF Onward, FollowUp
<1>10. Done(h)'
  <2>1. Stopped(l)'
    BY <1>1, <1>2, <1>3 DEF Done, Stopped, FollowUp
  <2>2. h.at = "record" /\ h.said # "human" => l \notin Suppressing \union Refusing \union Ending
    BY <1>1, <1>2, <1>3, <1>6, <1>7 DEF Moved, Course, Suppressing, Refusing, Answering, Ending
  <2> QED
    BY <1>1, <1>6, <1>7, <2>1, <2>2, EndingIs DEF Moved, Done, Barred, Pruned
<1>11. Hollow' => (Hollow /\ (OnTheWay(handler[w]) /\ handler[w].label # "out_of_office" => OnTheWay(h)))
                  \/ h.at = "close"
  BY <1>1, <1>2, <1>3, <1>6, <1>7 DEF Moved, Course, Hollow, OnTheWay, FollowUp, Suppressing, Refusing, Answering, Ending
<1>12. /\ plan' \in [goal : {"none", "sequence", "follow_up", "contact_later"}, steps : SUBSET Channels]
       /\ blocked' \subseteq Channels
  BY <1>2, <1>4 DEF FollowUp, Channels
<1>13. /\ handler[w].at # "idle" /\ h.at \notin {"idle", "read"}
       /\ handler' = [handler EXCEPT ![w] = h] /\ h.event = handler[w].event /\ h.label = handler[w].label
  BY <1>2, <1>6, <1>7 DEF Moved
<1> QED
  BY <1>2, <1>3, <1>8, <1>9, <1>10, <1>11, <1>12, <1>13, WithinKeeps

LEMMA BlockContactKeeps ==
  ASSUME RepliesInv, TypeOK, HoldersOK, NEW w \in Workers, BlockContact(w)
  PROVE  RepliesInv'
<1>1. PICK l : l = handler[w].label
  OBVIOUS
<1>2. /\ handler[w].at = "block"
      /\ plan' = plan /\ blocked' = blocked \union BlockOf(l)
      /\ UNCHANGED <<status, worker, labels, recorded, byHand, reread>>
  BY <1>1 DEF BlockContact, At, Within, wish, outbox, record
<1>3. /\ l \in Labels /\ handler[w].said \in {"none", "human", "booked", "taken"}
      /\ Course(handler[w]) /\ Done(handler[w]) /\ \A e \in worker[w].batch : status[e] # "none"
  BY <1>1, <1>2, Handles
<1>4. plan \in [goal : {"none", "sequence", "follow_up", "contact_later"}, steps : SUBSET Channels] /\ blocked \subseteq Channels
  BY DEF RepliesInv, RepliesTyped
<1>5. PICK p, s :
        /\ \/ handler' = [handler EXCEPT ![w].at = p, ![w].said = s]
           \/ Goes(w, p) /\ s = handler[w].said
        /\ p = (IF ChannelEnded(l) = {} THEN "record" ELSE "prune") /\ s = handler[w].said
  BY <1>1 DEF BlockContact
<1>6. /\ p \in {"record", "prune"} /\ s \in {"none", "human", "booked", "taken"}
      /\ p = "prune" <=> l \in Ending
  BY <1>1, <1>3, <1>5 DEF Course, ChannelEnded, Ending
<1>7. PICK h \in HandlerState : Moved(w, h, p, s)
  <2>1. /\ p \in {"block", "book", "later", "gate", "send", "follow", "prune", "close", "record"}
        /\ s \in {"none", "human", "booked", "taken"}
    BY <1>6
  <2>2. handler' = [handler EXCEPT ![w].at = p, ![w].said = s] \/ (Goes(w, p) /\ s = handler[w].said)
    BY <1>5
  <2>3. RepliesTyped
    BY DEF RepliesInv
  <2> QED
    BY <2>1, <2>2, <2>3, Moves
<1>8. Course(h)
  BY <1>1, <1>2, <1>3, <1>6, <1>7 DEF Moved, Course
<1>9. Onward
  BY <1>2 DEF Onward
<1>10. Done(h)'
  <2>1. Stopped(l)' /\ Barred(l)'
    BY <1>1, <1>2, <1>3 DEF Done, Stopped, Barred
  <2>2. h.at = "record" => l \notin Ending
    BY <1>6, <1>7 DEF Moved
  <2> QED
    BY <1>1, <1>6, <1>7, <2>1, <2>2, EndingIs DEF Moved, Done, Pruned
<1>11. Hollow' => (Hollow /\ (OnTheWay(handler[w]) /\ handler[w].label # "out_of_office" => OnTheWay(h)))
                  \/ h.at = "close"
  BY <1>1, <1>2, <1>3, <1>6, <1>7 DEF Moved, Course, Hollow, OnTheWay, Suppressing, Refusing, Answering, Ending
<1>12. /\ plan' \in [goal : {"none", "sequence", "follow_up", "contact_later"}, steps : SUBSET Channels]
       /\ blocked' \subseteq Channels
  BY <1>2, <1>4 DEF BlockOf, Channels
<1>13. /\ handler[w].at # "idle" /\ h.at \notin {"idle", "read"}
       /\ handler' = [handler EXCEPT ![w] = h] /\ h.event = handler[w].event /\ h.label = handler[w].label
  BY <1>2, <1>6, <1>7 DEF Moved
<1> QED
  BY <1>2, <1>3, <1>8, <1>9, <1>10, <1>11, <1>12, <1>13, WithinKeeps

LEMMA CancelChannelKeeps ==
  ASSUME RepliesInv, TypeOK, HoldersOK, NEW w \in Workers, CancelChannel(w)
  PROVE  RepliesInv'
<1>1. PICK l : l = handler[w].label
  OBVIOUS
<1>2. /\ handler[w].at = "prune"
      /\ plan' = [plan EXCEPT !.steps = @ \ ChannelEnded(l)] /\ blocked' = blocked
      /\ UNCHANGED <<status, worker, labels, recorded, byHand, reread>>
  BY <1>1 DEF CancelChannel, At, Within, wish, outbox, record
<1>3. /\ l \in Labels /\ handler[w].said \in {"none", "human", "booked", "taken"}
      /\ Course(handler[w]) /\ Done(handler[w]) /\ \A e \in worker[w].batch : status[e] # "none"
  BY <1>1, <1>2, Handles
<1>4. plan \in [goal : {"none", "sequence", "follow_up", "contact_later"}, steps : SUBSET Channels] /\ blocked \subseteq Channels
  BY DEF RepliesInv, RepliesTyped
<1>5. PICK p, s :
        /\ \/ handler' = [handler EXCEPT ![w].at = p, ![w].said = s]
           \/ Goes(w, p) /\ s = handler[w].said
        /\ p = "close" /\ s = handler[w].said
  BY DEF CancelChannel
<1>6. p = "close" /\ s \in {"none", "human", "booked", "taken"}
  BY <1>1, <1>3, <1>5 DEF Course
<1>7. PICK h \in HandlerState : Moved(w, h, p, s)
  <2>1. /\ p \in {"block", "book", "later", "gate", "send", "follow", "prune", "close", "record"}
        /\ s \in {"none", "human", "booked", "taken"}
    BY <1>6
  <2>2. handler' = [handler EXCEPT ![w].at = p, ![w].said = s] \/ (Goes(w, p) /\ s = handler[w].said)
    BY <1>5
  <2>3. RepliesTyped
    BY DEF RepliesInv
  <2> QED
    BY <2>1, <2>2, <2>3, Moves
<1>8. Course(h)
  BY <1>1, <1>2, <1>3, <1>6, <1>7 DEF Moved, Course
<1>9. Onward
  BY <1>2, <1>4 DEF Onward
<1>10. Done(h)'
  <2>1. Stopped(l)' /\ Barred(l)' /\ Pruned(l)'
    BY <1>1, <1>2, <1>3, <1>4 DEF Done, Stopped, Barred, Pruned
  <2> QED
    BY <1>1, <1>6, <1>7, <2>1 DEF Moved, Done
<1>11. Hollow' => (Hollow /\ (OnTheWay(handler[w]) /\ handler[w].label # "out_of_office" => OnTheWay(h)))
                  \/ h.at = "close"
  BY <1>6, <1>7 DEF Moved
<1>12. /\ plan' \in [goal : {"none", "sequence", "follow_up", "contact_later"}, steps : SUBSET Channels]
       /\ blocked' \subseteq Channels
  BY <1>2, <1>4
<1>13. /\ handler[w].at # "idle" /\ h.at \notin {"idle", "read"}
       /\ handler' = [handler EXCEPT ![w] = h] /\ h.event = handler[w].event /\ h.label = handler[w].label
  BY <1>2, <1>6, <1>7 DEF Moved
<1> QED
  BY <1>2, <1>3, <1>8, <1>9, <1>10, <1>11, <1>12, <1>13, WithinKeeps

LEMMA StopIfEmptyKeeps ==
  ASSUME RepliesInv, TypeOK, HoldersOK, NEW w \in Workers, StopIfEmpty(w)
  PROVE  RepliesInv'
<1>1. PICK l : l = handler[w].label
  OBVIOUS
<1>2. /\ handler[w].at = "close"
      /\ plan' = (IF plan.steps = {} THEN NoPlan ELSE plan) /\ blocked' = blocked
      /\ UNCHANGED <<status, worker, labels, recorded, byHand, reread>>
  BY <1>1 DEF StopIfEmpty, At, Within, wish, outbox, record, StoppedWhenEmpty
<1>3. /\ l \in Labels /\ handler[w].said \in {"none", "human", "booked", "taken"}
      /\ Course(handler[w]) /\ Done(handler[w]) /\ \A e \in worker[w].batch : status[e] # "none"
  BY <1>1, <1>2, Handles
<1>4. plan \in [goal : {"none", "sequence", "follow_up", "contact_later"}, steps : SUBSET Channels] /\ blocked \subseteq Channels
  BY DEF RepliesInv, RepliesTyped
<1>5. PICK p, s :
        /\ \/ handler' = [handler EXCEPT ![w].at = p, ![w].said = s]
           \/ Goes(w, p) /\ s = handler[w].said
        /\ p = "record" /\ s = handler[w].said
  BY DEF StopIfEmpty
<1>6. p = "record" /\ s \in {"none", "human", "booked", "taken"}
  BY <1>1, <1>3, <1>5 DEF Course
<1>7. PICK h \in HandlerState : Moved(w, h, p, s)
  <2>1. /\ p \in {"block", "book", "later", "gate", "send", "follow", "prune", "close", "record"}
        /\ s \in {"none", "human", "booked", "taken"}
    BY <1>6
  <2>2. handler' = [handler EXCEPT ![w].at = p, ![w].said = s] \/ (Goes(w, p) /\ s = handler[w].said)
    BY <1>5
  <2>3. RepliesTyped
    BY DEF RepliesInv
  <2> QED
    BY <2>1, <2>2, <2>3, Moves
<1>8. Course(h)
  BY <1>1, <1>2, <1>3, <1>6, <1>7 DEF Moved, Course
<1>9. Onward
  BY <1>2 DEF Onward, NoPlan
<1>10. Done(h)'
  <2>1. Stopped(l) /\ Barred(l) /\ Pruned(l)
    BY <1>1, <1>2, <1>3 DEF Done
  <2>2. Stopped(l)' /\ Barred(l)' /\ Pruned(l)'
    BY <1>9, <2>1, Stable
  <2> QED
    BY <1>1, <1>6, <1>7, <2>2 DEF Moved, Done
<1>11. Hollow' => (Hollow /\ (OnTheWay(handler[w]) /\ handler[w].label # "out_of_office" => OnTheWay(h)))
                  \/ h.at = "close"
  BY <1>2 DEF Hollow
<1>12. /\ plan' \in [goal : {"none", "sequence", "follow_up", "contact_later"}, steps : SUBSET Channels]
       /\ blocked' \subseteq Channels
  BY <1>2, <1>4 DEF NoPlan
<1>13. /\ handler[w].at # "idle" /\ h.at \notin {"idle", "read"}
       /\ handler' = [handler EXCEPT ![w] = h] /\ h.event = handler[w].event /\ h.label = handler[w].label
  BY <1>2, <1>6, <1>7 DEF Moved
<1> QED
  BY <1>2, <1>3, <1>8, <1>9, <1>10, <1>11, <1>12, <1>13, WithinKeeps

LEMMA ReadReplyKeeps ==
  ASSUME RepliesInv, NEW w \in Workers, NEW e \in Events, ReadReply(w, e)
  PROVE  RepliesInv'
<1>0. RepliesTyped /\ Counting /\ Wishes /\ HollowIsOwned /\ \A v \in Workers : AtWork(v)
  BY DEF RepliesInv
<1>1. PICK l \in labels[e] :
        handler' = [handler EXCEPT ![w] = [NoHandler EXCEPT !.at = "read", !.event = e, !.label = l]]
  BY DEF ReadReply
<1>2. PICK h : h = [NoHandler EXCEPT !.at = "read", !.event = e, !.label = l]
  OBVIOUS
<1>3. l \in Labels /\ h.at = "read" /\ h.event = e /\ h.label = l /\ h \in HandlerState
  BY <1>0, <1>1, <1>2, LabelsOf DEF NoHandler, HandlerState
<1>4. /\ handler \in [Workers -> HandlerState] /\ handler' = [handler EXCEPT ![w] = h]
      /\ handler'[w] = h /\ \A v \in Workers \ {w} : handler'[v] = handler[v]
  BY <1>0, <1>1, <1>2 DEF RepliesTyped
<1>5. /\ handler[w] = NoHandler /\ worker[w].event = NoEvent /\ e \in worker[w].batch /\ ~Handled(e)
      /\ UNCHANGED <<status, worker, plan, blocked, booked, labels, recorded, byHand>>
      /\ reread' = IF \E v \in Workers : handler[v].event = e THEN reread \union {e} ELSE reread
  BY DEF ReadReply, Recorded, Handled, outbox, wish, record
<1>6. RepliesTyped'
  BY <1>0, <1>3, <1>4, <1>5 DEF RepliesTyped
<1>7. ASSUME NEW v \in Workers PROVE AtWork(v)'
  <2>1. CASE v = w
    <3>1. Course(h)
      BY <1>3 DEF Course
    <3> QED
      BY <1>1, <1>3, <1>4, <1>5, <2>1, <3>1 DEF AtWork, Course
  <2>2. CASE v # w
    BY <1>0, <1>4, <1>5, <2>2 DEF AtWork, Course
  <2> QED
    BY <2>1, <2>2
<1>8. Counting'
  <2>1. \A v, x \in Workers : v # x /\ handler'[v].event = handler'[x].event =>
          handler'[x].event \in reread' \union {NoEvent}
    BY <1>0, <1>3, <1>4, <1>5 DEF Counting
  <2>2. \A v \in Workers : handler'[v] # NoHandler /\ recorded[handler'[v].event] # NoLabel =>
          handler'[v].event \in reread'
    BY <1>0, <1>3, <1>4, <1>5 DEF Counting, RecordedIsClosed, Handled
  <2> QED
    BY <1>0, <1>5, <2>1, <2>2 DEF Counting, RecordedIsClosed, Handled
<1>9. Wishes'
  <2>1. Onward
    BY <1>5 DEF Onward
  <2>2. Done(handler[w])'
    BY <1>3, <1>4 DEF Done
  <2> QED
    BY <1>0, <1>4, <1>5, <2>1, <2>2, WishesStable
<1>10. HollowIsOwned'
  <2> SUFFICES ASSUME Hollow' PROVE \E f \in Events : Closes(f)'
    BY DEF HollowIsOwned
  <2>1. PICK f \in Events : Closes(f)
    BY <1>0, <1>5 DEF HollowIsOwned, Hollow
  <2>2. \A v \in Workers : OnTheWay(handler[v])' \/ (v # w /\ handler'[v] = handler[v])
    BY <1>3, <1>4 DEF OnTheWay
  <2>3. \A v \in Workers : handler'[v] = handler[v] /\ OnTheWay(handler[v]) => OnTheWay(handler[v])'
    BY DEF OnTheWay
  <2>4. Closes(f)'
    BY <1>5, <2>1, <2>2, <2>3 DEF Closes, Handled
  <2> QED
    BY <2>4
<1> QED
  BY <1>6, <1>7, <1>8, <1>9, <1>10 DEF RepliesInv

LEMMA RecordHandlingKeeps ==
  ASSUME RepliesInv, TypeOK, HoldersOK, NEW w \in Workers, RecordHandling(w)
  PROVE  RepliesInv'
<1>0. RepliesTyped /\ Counting /\ Wishes /\ HollowIsOwned /\ \A v \in Workers : AtWork(v)
  BY DEF RepliesInv
<1>1. PICK e \in Events : e = handler[w].event
  BY <1>0 DEF RecordHandling, At, AtWork, NoHandler
<1>2. PICK l \in Labels : l = handler[w].label
  BY Handles DEF RecordHandling, At
<1>3. /\ handler[w].at = "record" /\ HandleEvent(w, e, "returned")
      /\ recorded' = [recorded EXCEPT ![e] = l]
      /\ byHand' = IF handler[w].said = "human" THEN byHand \union {e} ELSE byHand \ {e}
      /\ handler' = [handler EXCEPT ![w] = NoHandler]
      /\ UNCHANGED <<status, plan, blocked, booked, labels, reread>>
  BY <1>1, <1>2 DEF RecordHandling, At, HandleEvent, wish
<1>4. /\ handler \in [Workers -> HandlerState] /\ handler'[w] = NoHandler
      /\ \A v \in Workers \ {w} : handler'[v] = handler[v]
  BY <1>0, <1>3 DEF RepliesTyped
<1>5. l # NoLabel /\ recorded'[e] = l /\ \A f \in Events \ {e} : recorded'[f] = recorded[f]
  BY <1>0, <1>3, RepliesAssumption DEF RepliesTyped, Labels
<1>6. worker'[w].event = e /\ \A v \in Workers \ {w} : worker'[v] = worker[v]
  BY <1>3, HandleKeeps
<1>7. NoHandler.event = NoEvent /\ NoHandler.at = "idle" /\ NoHandler \in HandlerState /\ NoEvent \notin Events
  BY EventsAssumption DEF NoHandler, HandlerState
<1>8. RepliesTyped'
  BY <1>0, <1>3, <1>7 DEF RepliesTyped
<1>9. \A v \in Workers : AtWork(v)'
  BY <1>0, <1>3, <1>4, <1>6 DEF AtWork, Course
<1>10. \A f \in Events : Handled(f) => Handled(f)'
  BY <1>5 DEF Handled
<1>11. Counting'
  <2>1. \A v, x \in Workers : v # x /\ handler'[v].event = handler'[x].event =>
          handler'[x].event \in reread' \union {NoEvent}
    BY <1>0, <1>3, <1>4, <1>7 DEF Counting
  <2>2. ASSUME NEW v \in Workers, handler'[v] # NoHandler, recorded'[handler'[v].event] # NoLabel
        PROVE  handler'[v].event \in reread
    <3>1. v # w /\ handler'[v] = handler[v] /\ handler[v].event \in Events
      BY <1>0, <1>4, <2>2 DEF AtWork
    <3>2. CASE handler[v].event = e
      BY <1>0, <1>1, <1>7, <3>1, <3>2 DEF Counting
    <3>3. CASE handler[v].event # e
      BY <1>0, <1>5, <2>2, <3>1, <3>3 DEF Counting, RecordedIsClosed, Handled
    <3> QED
      BY <3>2, <3>3
  <2>3. \A f \in Events : f \in byHand' \/ status'[f] = "done" => Handled(f)'
    BY <1>0, <1>3, <1>5, <1>10 DEF Counting, Handled
  <2>4. ASSUME NEW v \in Workers, worker'[v].event \in Events, worker'[v].verdict = "done"
        PROVE  recorded'[worker'[v].event] # NoLabel
    BY <1>0, <1>5, <1>6, <1>10, <2>4 DEF Counting, Handled
  <2> QED
    BY <1>3, <2>1, <2>2, <2>3, <2>4 DEF Counting, RecordedIsClosed, Handled
<1>12. Wishes'
  <2>1. Stopped(l) /\ (handler[w].said # "human" => Barred(l) /\ Pruned(l))
    BY <1>0, <1>2, <1>3 DEF Wishes, Done
  <2>2. \A v \in Workers : Done(handler[v])'
    BY <1>0, <1>3, <1>4, <1>7 DEF Wishes, Done, Stopped, Barred, Pruned
  <2>3. ASSUME NEW f \in Events, Handled(f)'
        PROVE  Stopped(recorded[f])' /\ (f \notin byHand' => Barred(recorded[f])' /\ Pruned(recorded[f])')
    <3>1. CASE f = e
      BY <1>3, <1>5, <2>1, <3>1 DEF Stopped, Barred, Pruned
    <3>2. CASE f # e
      BY <1>0, <1>3, <1>5, <2>3, <3>2 DEF Wishes, Handled, Stopped, Barred, Pruned
    <3> QED
      BY <3>1, <3>2
  <2> QED
    BY <2>2, <2>3 DEF Wishes
<1>13. HollowIsOwned'
  <2> SUFFICES ASSUME Hollow' PROVE \E f \in Events : Closes(f)'
    BY DEF HollowIsOwned
  <2>1. PICK f \in Events : Closes(f)
    BY <1>0, <1>3 DEF HollowIsOwned, Hollow
  <2>2. \A v \in Workers : handler'[v].event = f => handler'[v] = handler[v]
    BY <1>4, <1>7
  <2>3. \A v \in Workers : handler'[v] = handler[v] /\ OnTheWay(handler[v]) => OnTheWay(handler[v])'
    BY DEF OnTheWay
  <2>4. CASE f # e
    BY <1>3, <1>5, <2>1, <2>2, <2>3, <2>4 DEF Closes, Handled
  <2>5. CASE f = e
    <3>1. handler[w] # NoHandler
      BY <1>3, <1>7
    <3>2. f \in byHand => f \in reread
      BY <1>0, <1>1, <2>5, <3>1 DEF Counting, RecordedIsClosed
    <3>3. OnTheWay(handler[w]) => f \in byHand'
      BY <1>3, <2>5 DEF OnTheWay
    <3>4. f \in reread \union byHand'
      BY <1>1, <2>1, <2>5, <3>2, <3>3 DEF Closes
    <3> QED
      BY <1>3, <2>1, <3>4 DEF Closes
  <2> QED
    BY <2>4, <2>5
<1> QED
  BY <1>8, <1>9, <1>11, <1>12, <1>13 DEF RepliesInv

LEMMA OutboxStepKeeps ==
  ASSUME RepliesInv, TypeOK, HoldersOK, UNCHANGED <<wish, record, handler, reread>>,
         \/ \E e \in Events : Emit(e) \/ ReapStaleEvent(e) \/ RetryEvent(e)
         \/ \E w \in Workers : MarkEvent(w) \/ \E S \in SUBSET Events : handler[w] = NoHandler /\ ClaimDueEvents(w, S)
         \/ UNCHANGED vars
  PROVE  RepliesInv'
<1>0. RepliesTyped /\ Counting /\ \A v \in Workers : AtWork(v)
  BY DEF RepliesInv
<1>1. /\ handler' = handler /\ handler \in [Workers -> HandlerState]
      /\ \A v \in Workers : handler[v] # NoHandler => worker[v].event = NoEvent
  BY <1>0 DEF AtWork, RepliesTyped
<1>2. /\ \A e \in Events : status[e] = "done" => Handled(e)
      /\ \A v \in Workers : worker[v].event \in Events /\ worker[v].verdict = "done" => Handled(worker[v].event)
  BY <1>0 DEF Counting
<1>3. CASE (\E e \in Events : Emit(e) \/ ReapStaleEvent(e) \/ RetryEvent(e)) \/ UNCHANGED vars
  <2>1. /\ worker' = worker
        /\ \A e \in Events : /\ status[e] # "none" => status'[e] # "none"
                             /\ status'[e] = "done" => status[e] = "done"
    BY <1>3 DEF Emit, ReapStaleEvent, RetryEvent, vars, TypeOK
  <2> QED
    BY <1>1, <1>2, <2>1, OutsideKeeps
<1>4. ASSUME NEW w \in Workers, MarkEvent(w) PROVE RepliesInv'
  <2>1. /\ worker[w].event # NoEvent /\ worker[w].event \in Events /\ worker[w].verdict # "none"
        /\ status' = [status EXCEPT ![worker[w].event] = worker[w].verdict]
    BY <1>4 DEF MarkEvent, HoldersOK, TypeOK, WorkerState
  <2>2. \A e \in Events : /\ status[e] # "none" => status'[e] # "none"
                          /\ status'[e] = "done" => Handled(e)
    BY <1>2, <2>1 DEF TypeOK
  <2>3. worker'[w].event = NoEvent /\ \A v \in Workers \ {w} : worker'[v] = worker[v]
    BY <1>4, MarkReleases
  <2>4. \A v \in Workers : \/ handler'[v] = NoHandler
                           \/ /\ handler'[v] = handler[v] /\ handler[v] # NoHandler
                              /\ worker'[v].event = NoEvent /\ worker[v].batch \subseteq worker'[v].batch
    BY <1>1, <2>1, <2>3
  <2>5. \A v \in Workers : worker'[v].event \in Events /\ worker'[v].verdict = "done" => Handled(worker'[v].event)
    BY <1>2, <2>3, EventsAssumption
  <2> QED
    BY <1>1, <2>2, <2>4, <2>5, OutsideKeeps
<1>5. ASSUME NEW w \in Workers, NEW S \in SUBSET Events, handler[w] = NoHandler, ClaimDueEvents(w, S)
      PROVE  RepliesInv'
  <2>1. worker'[w].event = NoEvent /\ \A v \in Workers \ {w} : worker'[v] = worker[v]
    BY <1>5, ClaimTakes
  <2>2. \A e \in Events : /\ status[e] # "none" => status'[e] # "none"
                          /\ status'[e] = "done" => Handled(e)
    BY <1>2, <1>5 DEF ClaimDueEvents, TypeOK
  <2>3. \A v \in Workers : \/ handler'[v] = NoHandler
                           \/ /\ handler'[v] = handler[v] /\ handler[v] # NoHandler
                              /\ worker'[v].event = NoEvent /\ worker[v].batch \subseteq worker'[v].batch
    BY <1>1, <1>5, <2>1
  <2>4. \A v \in Workers : worker'[v].event \in Events /\ worker'[v].verdict = "done" => Handled(worker'[v].event)
    BY <1>2, <2>1, EventsAssumption
  <2> QED
    BY <1>1, <2>2, <2>3, <2>4, OutsideKeeps
<1> QED
  BY <1>3, <1>4, <1>5

LEMMA LeavingKeeps ==
  ASSUME RepliesInv, TypeOK, HoldersOK, NEW w \in Workers, UNCHANGED <<wish, record, reread>>,
         handler' = [handler EXCEPT ![w] = NoHandler],
         \/ LoseWorker(w)
         \/ \E e \in Events, r \in {"returned", "error", "permanent"} :
              HandleEvent(w, e, r) /\ (r = "returned" => Handled(e))
  PROVE  RepliesInv'
<1>0. RepliesTyped /\ Counting /\ \A v \in Workers : AtWork(v)
  BY DEF RepliesInv
<1>1. NoHandler \in HandlerState /\ NoEvent \notin Events
  BY EventsAssumption DEF NoHandler, HandlerState
<1>2. /\ handler' \in [Workers -> HandlerState] /\ handler'[w] = NoHandler
      /\ \A v \in Workers \ {w} : handler'[v] = handler[v]
  BY <1>0, <1>1 DEF RepliesTyped
<1>3. /\ status' = status /\ \A v \in Workers \ {w} : worker'[v] = worker[v]
      /\ worker'[w].event \in Events /\ worker'[w].verdict = "done" => Handled(worker'[w].event)
  <2>1. CASE LoseWorker(w)
    BY <1>1, <2>1, LoseReleases DEF LoseWorker
  <2>2. ASSUME NEW e \in Events, NEW r \in {"returned", "error", "permanent"}, HandleEvent(w, e, r),
               r = "returned" => Handled(e)
        PROVE  /\ status' = status /\ \A v \in Workers \ {w} : worker'[v] = worker[v]
               /\ worker'[w].event \in Events /\ worker'[w].verdict = "done" => Handled(worker'[w].event)
    <3>1. status' = status
      BY <2>2 DEF HandleEvent
    <3> QED
      BY <2>2, <3>1, HandleKeeps
  <2> QED
    BY <2>1, <2>2
<1>4. \A v \in Workers : \/ handler'[v] = NoHandler
                         \/ /\ handler'[v] = handler[v] /\ handler[v] # NoHandler
                            /\ worker'[v].event = NoEvent /\ worker[v].batch \subseteq worker'[v].batch
  BY <1>0, <1>2, <1>3 DEF AtWork
<1>5. \A e \in Events : /\ status[e] # "none" => status'[e] # "none"
                        /\ status'[e] = "done" => Handled(e)
  BY <1>0, <1>3 DEF Counting
<1>6. \A v \in Workers : worker'[v].event \in Events /\ worker'[v].verdict = "done" => Handled(worker'[v].event)
  BY <1>0, <1>3 DEF Counting
<1> QED
  BY <1>2, <1>4, <1>5, <1>6, OutsideKeeps

-----------------------------------------------------------------------------
(* InboundReplies refines AgentEvents: what the outbox promises it promises    *)
(* under this handler too.                                                     *)
LEMMA EventOf ==
  ASSUME RepliesInv, NEW w \in Workers, handler[w] # NoHandler
  PROVE  handler[w].event \in Events
  BY DEF RepliesInv, AtWork

LEMMA RepliesStep == RepliesInv /\ [RepliesNext]_all => [Next]_vars
<1> SUFFICES ASSUME RepliesInv, [RepliesNext]_all PROVE [Next]_vars
  OBVIOUS
<1>1. ASSUME NEW w \in Workers, HandleReply(w) PROVE [Next]_vars
  <2>1. CASE UNCHANGED outbox
    BY <2>1 DEF outbox, vars
  <2>2. ASSUME NEW e \in Events, SkipReply(w, e) PROVE Next
    BY <2>2 DEF SkipReply, Next, Dispatch
  <2>3. ASSUME RecordHandling(w) PROVE Next
    <3>1. handler[w].event \in Events /\ HandleEvent(w, handler[w].event, "returned")
      BY <2>3, EventOf DEF RecordHandling, At, NoHandler
    <3> QED
      BY <3>1 DEF Next, Dispatch
  <2>4. ASSUME NEW r \in {"error", "permanent"}, RaiseInHandler(w, r) PROVE Next
    <3>1. handler[w].event \in Events /\ HandleEvent(w, handler[w].event, r)
      BY <2>4, EventOf DEF RaiseInHandler
    <3> QED
      BY <3>1 DEF Next, Dispatch
  <2> QED
    BY <1>1, <2>1, <2>2, <2>3, <2>4
    DEF HandleReply, ReadReply, StopForReply, TryBook, PlanForLater, CheckReplyGate, SendReply, PlanFollowUp,
        BlockContact, CancelChannel, StopIfEmpty, Within
<1>2. ASSUME NEW w \in Workers, Work(w) \/ LoseHandler(w) PROVE [Next]_vars
  <2>1. CASE Beside(MarkEvent(w)) \/ (\E S \in SUBSET Events : ClaimReplies(w, S)) \/ LoseHandler(w)
    BY <2>1 DEF Beside, ClaimReplies, LoseHandler, Next, Dispatch
  <2> QED
    BY <1>1, <1>2, <2>1 DEF Work
<1>3. ASSUME NEW e \in Events, Beside(Emit(e)) \/ Beside(ReapStaleEvent(e)) \/ Beside(RetryEvent(e)) PROVE Next
  BY <1>3 DEF Beside, Next
<1>4. CASE UNCHANGED all
  BY <1>4 DEF all, outbox, vars
<1> QED
  BY <1>2, <1>3, <1>4 DEF RepliesNext

LEMMA RepliesInvInit == RepliesInit => RepliesInv
<1> SUFFICES ASSUME RepliesInit PROVE RepliesInv
  OBVIOUS
<1>1. /\ NoHandler \in HandlerState /\ NoEvent \notin Events
      /\ NoHandler.event = NoEvent /\ NoHandler.at = "idle"
  BY EventsAssumption DEF NoHandler, HandlerState
<1>2. /\ labels \in [Events -> LabelSets] /\ plan \in [goal : {"sequence"}, steps : StepsLeft]
      /\ blocked = {} /\ recorded = [e \in Events |-> NoLabel] /\ byHand = {} /\ reread = {}
      /\ handler = [w \in Workers |-> NoHandler]
      /\ \A e \in Events : status[e] = "none"
      /\ \A w \in Workers : worker[w].event = NoEvent
  BY DEF RepliesInit, Init, Free
<1>3. RepliesTyped
  BY <1>1, <1>2, RepliesAssumption DEF RepliesTyped
<1>4. \A w \in Workers : AtWork(w)
  BY <1>2 DEF AtWork
<1>5. Counting
  BY <1>1, <1>2 DEF Counting, RecordedIsClosed
<1>6. Wishes
  BY <1>1, <1>2 DEF Wishes, Done, Handled
<1>7. HollowIsOwned
  BY <1>2, RepliesAssumption DEF HollowIsOwned, Hollow
<1> QED
  BY <1>3, <1>4, <1>5, <1>6, <1>7 DEF RepliesInv

LEMMA RepliesInvNext ==
  RepliesInv /\ TypeOK /\ HoldersOK /\ [RepliesNext]_all => RepliesInv'
<1> SUFFICES ASSUME RepliesInv, TypeOK, HoldersOK, [RepliesNext]_all PROVE RepliesInv'
  OBVIOUS
<1>1. ASSUME NEW e \in Events, Beside(Emit(e)) \/ Beside(ReapStaleEvent(e)) \/ Beside(RetryEvent(e))
      PROVE  RepliesInv'
  BY <1>1, OutboxStepKeeps DEF Beside
<1>2. ASSUME NEW w \in Workers, Beside(MarkEvent(w)) \/ \E S \in SUBSET Events : ClaimReplies(w, S)
      PROVE  RepliesInv'
  BY <1>2, OutboxStepKeeps DEF Beside, ClaimReplies
<1>3. ASSUME NEW w \in Workers, LoseHandler(w) PROVE RepliesInv'
  BY <1>3, LeavingKeeps DEF LoseHandler
<1>4. ASSUME NEW w \in Workers, HandleReply(w) PROVE RepliesInv'
  <2>1. ASSUME NEW e \in Events, SkipReply(w, e) PROVE RepliesInv'
    <3>1. /\ handler' = [handler EXCEPT ![w] = NoHandler] /\ UNCHANGED <<wish, record, reread>>
          /\ HandleEvent(w, e, "returned") /\ Handled(e)
      BY <2>1 DEF SkipReply, Recorded, Handled, RepliesInv, RepliesTyped
    <3> QED
      BY <3>1, LeavingKeeps
  <2>2. ASSUME NEW r \in {"error", "permanent"}, RaiseInHandler(w, r) PROVE RepliesInv'
    <3>1. handler[w].event \in Events
      BY <2>2, EventOf DEF RaiseInHandler
    <3> QED
      BY <2>2, <3>1, LeavingKeeps DEF RaiseInHandler
  <2> QED
    BY <1>4, <2>1, <2>2, ReadReplyKeeps, StopForReplyKeeps, TryBookKeeps, PlanForLaterKeeps,
       CheckReplyGateKeeps, SendReplyKeeps, PlanFollowUpKeeps, BlockContactKeeps, CancelChannelKeeps,
       StopIfEmptyKeeps, RecordHandlingKeeps DEF HandleReply
<1>5. CASE UNCHANGED all
  BY <1>5, OutboxStepKeeps DEF all, outbox, vars
<1> QED
  BY <1>1, <1>2, <1>3, <1>4, <1>5 DEF RepliesNext, Work

LEMMA RepliesHold == RepliesSpec => [](RepliesInv /\ Invariant /\ HandledOnce)
<1>1. RepliesInit => RepliesInv /\ Invariant /\ HandledOnce
  <2>1. Init => HandledOnce
    BY EventsAssumption DEF Init, HandledOnce
  <2> QED
    BY <2>1, RepliesInvInit, TypesInit, HoldersInit DEF RepliesInit, Invariant
<1>2. RepliesInv /\ Invariant /\ HandledOnce /\ [RepliesNext]_all => (RepliesInv /\ Invariant /\ HandledOnce)'
  BY RepliesStep, RepliesInvNext, TypesNext, HoldersNext, OnceNext, OnceRuns DEF Invariant
<1> QED
  BY <1>1, <1>2, PTL DEF RepliesSpec

(* Every behaviour of the outbox under handle_reply is one of the outbox, so   *)
(* it keeps the promise of Delivery whatever the handler does.                 *)
THEOREM RepliesKeepThePromise == RepliesSpec => Spec /\ KeepsPromise
<1>1. RepliesInv /\ [RepliesNext]_all => [Next]_vars
  BY RepliesStep
<1>2. RepliesSpec => []RepliesInv
  BY RepliesHold, PTL
<1>3. RepliesInit => Init
  BY DEF RepliesInit
<1> QED
  BY <1>1, <1>2, <1>3, ImplementsDelivery, PTL DEF RepliesSpec, Spec

(* What the row of a message says was done about it is done.                   *)
THEOREM RecordsAreTrue == RepliesSpec => []RecordIsTrue
<1>1. RepliesInv => RecordIsTrue
  <2> SUFFICES ASSUME RepliesInv, NEW e \in Events
               PROVE  /\ status[e] = "done" => Handled(e)
                      /\ recorded[e] \in MustStop => plan.goal # "sequence"
                      /\ recorded[e] \in Suppressing \union Refusing /\ e \notin byHand =>
                           BlockOf(recorded[e]) \subseteq blocked
                      /\ plan.goal = "sequence" /\ Handled(e) /\ e \notin byHand =>
                           plan.steps \intersect ChannelEnded(recorded[e]) = {}
    BY DEF RecordIsTrue
  <2>1. status[e] = "done" => Handled(e)
    BY DEF RepliesInv, Counting
  <2>2. recorded[e] \in MustStop \union Suppressing \union Refusing => Handled(e)
    BY RepliesAssumption DEF Handled, MustStop, Suppressing, Refusing, ByRules, ByModel
  <2>3. Handled(e) => Stopped(recorded[e]) /\ (e \notin byHand => Barred(recorded[e]) /\ Pruned(recorded[e]))
    BY DEF RepliesInv, Wishes
  <2>4. recorded[e] \in MustStop => recorded[e] \notin KeepsPlan
    BY DEF MustStop, KeepsPlan
  <2> QED
    BY <2>1, <2>2, <2>3, <2>4 DEF Stopped, Barred, Pruned
<1> QED
  BY <1>1, RepliesHold, PTL

(* A plan that lost its last step is stopped by whoever took it, unless two    *)
(* handlers read that message or a person has it.                              *)
THEOREM HollowPlansAreStopped == RepliesSpec => []HollowPlanIsStopped
<1>1. RepliesInv => HollowPlanIsStopped
  BY DEF RepliesInv, HollowIsOwned, Hollow, Closes, HollowPlanIsStopped
<1> QED
  BY <1>1, RepliesHold, PTL

(* Nobody handles a message whose handling is recorded, unless two handlers    *)
(* had read it before.                                                         *)
THEOREM RecordedStaysClosed == RepliesSpec => []RecordedIsClosed
<1>1. RepliesInv => RecordedIsClosed
  BY DEF RepliesInv, Counting
<1> QED
  BY <1>1, RepliesHold, PTL
=============================================================================
