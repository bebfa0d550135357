--------------------------- MODULE OutreachProofs ---------------------------
(***************************************************************************)
(* Proofs about Outreach and Campaigns for any number of contacts, plans,  *)
(* tasks, workers and campaigns.  The invariant is built in four layers,   *)
(* each inductive given the ones before it: types, stops, claims and       *)
(* opt-outs; the campaigns come last, over the same plans.                 *)
(***************************************************************************)
EXTENDS Campaigns, TLAPS

Typed == TypeOK /\ BatchOK
Stopped == StopsAreOpen /\ StoppedPlanIsQuiet
Claimed == HolderOwnsRow /\ ClaimIsExclusive
OptedOut == LateTouchSpendsGate /\ OneLateTouchPerWorker

-----------------------------------------------------------------------------
(* Types.                                                                  *)

LEMMA TypedInit == Init => Typed
  BY OutreachAssumption DEF Init, Typed, TypeOK, BatchOK, WorkerState, Idle, TaskStatus

LEMMA IdleType == Idle \in WorkerState
  BY DEF Idle, WorkerState

(* Only the record of one worker changes in a step of the dispatcher, and it *)
(* changes to a well-formed one.                                             *)
LEMMA WorkerUpdate ==
  ASSUME worker \in [Workers -> WorkerState], BatchOK,
         NEW w \in Workers, NEW r \in WorkerState,
         r.pc \in {"gated", "run", "refund", "record"} => r.task \in r.batch,
         worker' = [worker EXCEPT ![w] = r]
  PROVE  worker' \in [Workers -> WorkerState] /\ BatchOK'
  BY DEF BatchOK

LEMMA TypedNext == Typed /\ [Next]_vars => Typed'
<1> SUFFICES ASSUME Typed, [Next]_vars PROVE Typed'
  OBVIOUS
<1> USE OutreachAssumption DEF Typed
<1>1. ASSUME NEW w \in Workers, NEW S \in SUBSET Tasks, ClaimDueTasks(w, S) PROVE Typed'
  <2>1. [Idle EXCEPT !.pc = "next", !.batch = S] \in WorkerState
    BY DEF Idle, WorkerState
  <2>2. worker' \in [Workers -> WorkerState] /\ BatchOK'
    BY <1>1, <2>1, WorkerUpdate DEF ClaimDueTasks, TypeOK, Idle
  <2> QED
    BY <1>1, <2>2 DEF ClaimDueTasks, TypeOK, TaskStatus, Live, history
<1>2. ASSUME NEW w \in Workers, NEW t \in Tasks, NEW a \in {"go", "cancelled", "scheduled"},
             CheckGate(w, t, a)
      PROVE Typed'
  <2> DEFINE r == IF a = "go" THEN [worker[w] EXCEPT !.pc = "gated", !.task = t]
                  ELSE [worker[w] EXCEPT !.pc = "record", !.task = t, !.verdict = a]
  <2>1. r \in WorkerState /\ r.task = t /\ r.batch = worker[w].batch
    <3>1. worker[w] \in WorkerState
      BY DEF TypeOK
    <3>2. CASE a = "go"
      BY <3>1, <3>2 DEF WorkerState
    <3>3. CASE a # "go"
      BY <3>1, <3>3 DEF WorkerState, Verdicts, Final
    <3> QED
      BY <3>2, <3>3
  <2>2. worker' = [worker EXCEPT ![w] = r] /\ t \in worker[w].batch
    BY <1>2 DEF CheckGate, Holds, TypeOK
  <2> HIDE DEF r
  <2>3. worker' \in [Workers -> WorkerState] /\ BatchOK'
    BY <2>1, <2>2, WorkerUpdate DEF TypeOK
  <2> QED
    BY <1>2, <2>3 DEF CheckGate, TypeOK, rowVars, history
<1>3. ASSUME NEW w \in Workers, MarkTaskAttempt(w) PROVE Typed'
  <2> DEFINE t == worker[w].task
  <2>1. t \in Tasks
    BY <1>3 DEF MarkTaskAttempt, BatchOK, TypeOK, WorkerState
  <2>2. CASE status[t] = "erased"
    <3>1. worker' \in [Workers -> WorkerState] /\ BatchOK'
      BY <1>3, <2>2, IdleType, WorkerUpdate DEF MarkTaskAttempt, TypeOK, Idle
    <3> QED
      BY <1>3, <2>2, <3>1 DEF MarkTaskAttempt, TypeOK
  <2>3. CASE status[t] # "erased"
    <3> DEFINE last == attempts[t] + 1 >= MaxAttempts
               r == [worker[w] EXCEPT !.pc = "run", !.last = last]
    <3>1. r \in WorkerState /\ r.task \in r.batch
      <4>1. worker[w] \in WorkerState /\ t \in worker[w].batch
        BY <1>3 DEF MarkTaskAttempt, TypeOK, BatchOK
      <4>2. last \in BOOLEAN
        OBVIOUS
      <4> HIDE DEF last
      <4> QED
        BY <4>1, <4>2 DEF WorkerState
    <3>2. worker' = [worker EXCEPT ![w] = r]
      BY <1>3, <2>3 DEF MarkTaskAttempt, TypeOK, WorkerState
    <3> HIDE DEF r
    <3>3. worker' \in [Workers -> WorkerState] /\ BatchOK'
      BY <3>1, <3>2, WorkerUpdate DEF TypeOK
    <3>4. attempts' \in [Tasks -> Nat]
      BY <1>3, <2>1, <2>3 DEF MarkTaskAttempt, TypeOK
    <3> QED
      BY <1>3, <2>3, <3>3, <3>4 DEF MarkTaskAttempt, TypeOK
  <2> QED
    BY <2>2, <2>3
<1>4. ASSUME NEW w \in Workers, NEW v \in Verdicts, NEW touch \in BOOLEAN, Execute(w, v, touch)
      PROVE Typed'
  <2> DEFINE r == [worker[w] EXCEPT !.pc = "record", !.verdict = v]
  <2>1. r \in WorkerState /\ r.task \in r.batch
    BY <1>4 DEF Execute, TypeOK, WorkerState, BatchOK
  <2>2. worker' = [worker EXCEPT ![w] = r]
    BY <1>4 DEF Execute, TypeOK, WorkerState
  <2> HIDE DEF r
  <2>3. worker' \in [Workers -> WorkerState] /\ BatchOK'
    BY <2>1, <2>2, WorkerUpdate DEF TypeOK
  <2>4. worker[w].task \in Tasks
    BY <1>4 DEF Execute, BatchOK, TypeOK, WorkerState
  <2>5. lateTouches' \in [Contacts -> [Workers -> Nat]] /\ parked' \subseteq Tasks
    BY <1>4, <2>4 DEF Execute, TypeOK, ContactOfTask
  <2> QED
    BY <1>4, <2>3, <2>5 DEF Execute, TypeOK, rowVars
<1>5. ASSUME NEW w \in Workers, DeferExecution(w) PROVE Typed'
  <2> DEFINE r == [worker[w] EXCEPT !.pc = "refund", !.verdict = "scheduled"]
  <2>1. r \in WorkerState /\ r.task \in r.batch
    BY <1>5 DEF DeferExecution, TypeOK, WorkerState, Verdicts, BatchOK
  <2>2. worker' = [worker EXCEPT ![w] = r]
    BY <1>5 DEF DeferExecution, TypeOK, WorkerState
  <2> HIDE DEF r
  <2>3. worker' \in [Workers -> WorkerState] /\ BatchOK'
    BY <2>1, <2>2, WorkerUpdate DEF TypeOK
  <2> QED
    BY <1>5, <2>3 DEF DeferExecution, TypeOK, rowVars, history
<1>6. ASSUME NEW w \in Workers, RefundAttempt(w) PROVE Typed'
  <2> DEFINE r == [worker[w] EXCEPT !.pc = "record"]
  <2>1. r \in WorkerState /\ r.task \in r.batch
    BY <1>6 DEF RefundAttempt, TypeOK, WorkerState, BatchOK
  <2>2. worker' = [worker EXCEPT ![w] = r]
    BY <1>6 DEF RefundAttempt, TypeOK, WorkerState
  <2> HIDE DEF r
  <2>3. worker' \in [Workers -> WorkerState] /\ BatchOK'
    BY <2>1, <2>2, WorkerUpdate DEF TypeOK
  <2>4. attempts' \in [Tasks -> Nat]
    <3>1. worker[w].task \in Tasks
      BY <1>6 DEF RefundAttempt, TypeOK, WorkerState, BatchOK
    <3> QED
      BY <1>6, <3>1 DEF RefundAttempt, Refunded, TypeOK
  <2> QED
    BY <1>6, <2>3, <2>4 DEF RefundAttempt, TypeOK, history
<1>7. ASSUME NEW w \in Workers, RecordVerdict(w) PROVE Typed'
  <2>1. AfterTask(w) \in WorkerState /\ AfterTask(w).pc \in {"idle", "next"}
    BY DEF AfterTask, Idle, WorkerState, TypeOK
  <2>2. worker' \in [Workers -> WorkerState] /\ BatchOK'
    BY <1>7, <2>1, WorkerUpdate DEF RecordVerdict, TypeOK
  <2>3. worker[w].task \in Tasks /\ worker[w].verdict \in TaskStatus
    BY <1>7 DEF RecordVerdict, TypeOK, WorkerState, BatchOK, Verdicts, TaskStatus, Live, Final
  <2>4. status' \in [Tasks -> TaskStatus]
    BY <1>7, <2>3 DEF RecordVerdict, Written, TypeOK
  <2> QED
    BY <1>7, <2>2, <2>3, <2>4 DEF RecordVerdict, TypeOK
<1>8. ASSUME NEW w \in Workers, LoseWorker(w) PROVE Typed'
  <2>1. worker' \in [Workers -> WorkerState] /\ BatchOK'
    BY <1>8, IdleType, WorkerUpdate DEF LoseWorker, TypeOK, Idle
  <2> QED
    BY <1>8, <2>1 DEF LoseWorker, TypeOK, rowVars
<1>9. ASSUME NEW t \in Tasks, ReapStaleTask(t) PROVE Typed'
  BY <1>9 DEF ReapStaleTask, TypeOK, TaskStatus, Live, BatchOK
<1>10. ASSUME NEW t \in Tasks, NEW v \in Verdicts, NEW b \in BOOLEAN, SettleParked(t, v, b)
       PROVE Typed'
  <2>1. status' \in [Tasks -> TaskStatus] /\ attempts' \in [Tasks -> Nat]
    BY <1>10 DEF SettleParked, Written, Refunded, TypeOK, Verdicts, TaskStatus, Live, Final
  <2> QED
    BY <1>10, <2>1 DEF SettleParked, TypeOK, BatchOK
<1>11. ASSUME NEW t \in Tasks, RetryTask(t) PROVE Typed'
  BY <1>11 DEF RetryTask, TypeOK, TaskStatus, Live, BatchOK
<1>12. ASSUME NEW t \in Tasks, DismissTask(t) PROVE Typed'
  BY <1>12 DEF DismissTask, TypeOK, TaskStatus, Final, BatchOK, history
<1>13. ASSUME NEW p \in Plans, NEW T \in SUBSET Tasks, CreatePlan(p, T) PROVE Typed'
  BY <1>13 DEF CreatePlan, TypeOK, TaskStatus, Live, BatchOK, history
<1>14. ASSUME NEW p \in Plans, BeginStop(p) PROVE Typed'
  <2>1. locked' \subseteq Tasks /\ stopping' \subseteq Plans
    BY <1>14 DEF BeginStop, Opened, LiveTasks, TasksOf, TypeOK
  <2> QED
    BY <1>14, <2>1 DEF BeginStop, TypeOK, BatchOK, history
<1>15. ASSUME NEW p \in Plans, CommitStop(p) PROVE Typed'
  BY <1>15 DEF CommitStop, Committed, TypeOK, TaskStatus, Final, BatchOK, history
<1>16. ASSUME NEW c \in Contacts, NEW isCall \in BOOLEAN, CancelChannelTasks(c, isCall)
       PROVE Typed'
  BY <1>16 DEF CancelChannelTasks, TypeOK, TaskStatus, Final, BatchOK, history
<1>17. ASSUME NEW c \in Contacts, OptOut(c) PROVE Typed'
  BY <1>17 DEF OptOut, TypeOK, BatchOK, rowVars, history
<1>18. ASSUME NEW c \in Contacts, ErasePlans(c) PROVE Typed'
  BY <1>18 DEF ErasePlans, TypeOK, TaskStatus, BatchOK, history
<1>19. ASSUME NEW c \in Contacts, LiftOptOut(c)
      PROVE  Typed'
  BY <1>19 DEF LiftOptOut, TypeOK, BatchOK, rowVars
<1>20. CASE UNCHANGED vars
  BY <1>20 DEF vars, rowVars, history, TypeOK, BatchOK
<1> QED
  BY <1>1, <1>2, <1>3, <1>4, <1>5, <1>6, <1>7, <1>8, <1>9, <1>10, <1>11, <1>12, <1>13, <1>14,
     <1>15, <1>16, <1>17, <1>18, <1>19, <1>20
  DEF Next, Dispatch, BeginStopIfEmpty

(* Every reachable state is well typed: the counters stay natural numbers      *)
(* whatever is refunded, and a worker only ever works on a task it holds.      *)
THEOREM TypeCorrect == Spec => []TypeOK
<1>1. Spec => []Typed
  BY TypedInit, TypedNext, PTL DEF Spec
<1>2. Typed => TypeOK
  BY DEF Typed
<1> QED
  BY <1>1, <1>2, PTL
-----------------------------------------------------------------------------
(* Stops.                                                                  *)

LEMMA StoppedInit == Init => Stopped
  BY OutreachAssumption DEF Init, Stopped, StopsAreOpen, StoppedPlanIsQuiet, Live

LEMMA StoppedNext == Typed /\ Stopped /\ [Next]_vars => Stopped'
<1> SUFFICES ASSUME TypeOK, BatchOK, StopsAreOpen, StoppedPlanIsQuiet, [Next]_vars
             PROVE  StopsAreOpen' /\ StoppedPlanIsQuiet'
  BY DEF Typed, Stopped
<1> USE OutreachAssumption
<1>1. ASSUME NEW w \in Workers, NEW S \in SUBSET Tasks, ClaimDueTasks(w, S)
      PROVE  StopsAreOpen' /\ StoppedPlanIsQuiet'
  BY <1>1 DEF ClaimDueTasks, Claimable, StopsAreOpen, StoppedPlanIsQuiet, TypeOK, Live, history
<1>2. ASSUME NEW w \in Workers, NEW t \in Tasks, NEW a \in {"go", "cancelled", "scheduled"},
             CheckGate(w, t, a)
      PROVE  StopsAreOpen' /\ StoppedPlanIsQuiet'
  BY <1>2 DEF CheckGate, rowVars, history, StopsAreOpen, StoppedPlanIsQuiet, TypeOK, Live
<1>3. ASSUME NEW w \in Workers, MarkTaskAttempt(w)
      PROVE  StopsAreOpen' /\ StoppedPlanIsQuiet'
  BY <1>3 DEF MarkTaskAttempt, StopsAreOpen, StoppedPlanIsQuiet, TypeOK, Live
<1>4. ASSUME NEW w \in Workers, NEW v \in Verdicts, NEW touch \in BOOLEAN, Execute(w, v, touch)
      PROVE  StopsAreOpen' /\ StoppedPlanIsQuiet'
  BY <1>4 DEF Execute, rowVars, StopsAreOpen, StoppedPlanIsQuiet, TypeOK, Live
<1>5. ASSUME NEW w \in Workers, DeferExecution(w)
      PROVE  StopsAreOpen' /\ StoppedPlanIsQuiet'
  BY <1>5 DEF DeferExecution, rowVars, history, StopsAreOpen, StoppedPlanIsQuiet, TypeOK, Live
<1>6. ASSUME NEW w \in Workers, RefundAttempt(w)
      PROVE  StopsAreOpen' /\ StoppedPlanIsQuiet'
  BY <1>6 DEF RefundAttempt, history, StopsAreOpen, StoppedPlanIsQuiet, TypeOK, Live
<1>7. ASSUME NEW w \in Workers, RecordVerdict(w)
      PROVE  StopsAreOpen' /\ StoppedPlanIsQuiet'
  BY <1>7 DEF RecordVerdict, Written, Settleable, StopsAreOpen, StoppedPlanIsQuiet, TypeOK, Live
<1>8. ASSUME NEW w \in Workers, LoseWorker(w)
      PROVE  StopsAreOpen' /\ StoppedPlanIsQuiet'
  BY <1>8 DEF LoseWorker, rowVars, StopsAreOpen, StoppedPlanIsQuiet, TypeOK, Live
<1>9. ASSUME NEW t \in Tasks, ReapStaleTask(t)
      PROVE  StopsAreOpen' /\ StoppedPlanIsQuiet'
  BY <1>9 DEF ReapStaleTask, Expirable, StopsAreOpen, StoppedPlanIsQuiet, TypeOK, Live
<1>10. ASSUME NEW t \in Tasks, NEW v \in Verdicts, NEW b \in BOOLEAN, SettleParked(t, v, b)
      PROVE  StopsAreOpen' /\ StoppedPlanIsQuiet'
  BY <1>10 DEF SettleParked, Written, Settleable, StopsAreOpen, StoppedPlanIsQuiet, TypeOK, Live
<1>11. ASSUME NEW t \in Tasks, RetryTask(t)
      PROVE  StopsAreOpen' /\ StoppedPlanIsQuiet'
  BY <1>11 DEF RetryTask, StopsAreOpen, StoppedPlanIsQuiet, TypeOK, Live
<1>12. ASSUME NEW t \in Tasks, DismissTask(t)
      PROVE  StopsAreOpen' /\ StoppedPlanIsQuiet'
  BY <1>12 DEF DismissTask, history, StopsAreOpen, StoppedPlanIsQuiet, TypeOK, Live
<1>13. ASSUME NEW p \in Plans, NEW T \in SUBSET Tasks, CreatePlan(p, T)
      PROVE  StopsAreOpen' /\ StoppedPlanIsQuiet'
  BY <1>13 DEF CreatePlan, TasksOf, history, StopsAreOpen, StoppedPlanIsQuiet, TypeOK, Live
<1>14. ASSUME NEW p \in Plans, BeginStop(p)
      PROVE  StopsAreOpen' /\ StoppedPlanIsQuiet'
  BY <1>14 DEF BeginStop, Opened, LiveTasks, TasksOf, history, StopsAreOpen, StoppedPlanIsQuiet,
     TypeOK, Live
<1>15. ASSUME NEW p \in Plans, CommitStop(p)
      PROVE  StopsAreOpen' /\ StoppedPlanIsQuiet'
  BY <1>15 DEF CommitStop, Committed, history, StopsAreOpen, StoppedPlanIsQuiet, TypeOK, Live
<1>16. ASSUME NEW c \in Contacts, NEW isCall \in BOOLEAN, CancelChannelTasks(c, isCall)
      PROVE  StopsAreOpen' /\ StoppedPlanIsQuiet'
  BY <1>16 DEF CancelChannelTasks, history, StopsAreOpen, StoppedPlanIsQuiet, TypeOK, Live
<1>17. ASSUME NEW c \in Contacts, OptOut(c)
      PROVE  StopsAreOpen' /\ StoppedPlanIsQuiet'
  BY <1>17 DEF OptOut, rowVars, history, StopsAreOpen, StoppedPlanIsQuiet, TypeOK, Live
<1>18. ASSUME NEW c \in Contacts, ErasePlans(c)
      PROVE  StopsAreOpen' /\ StoppedPlanIsQuiet'
  BY <1>18 DEF ErasePlans, history, StopsAreOpen, StoppedPlanIsQuiet, TypeOK, Live
<1>19. ASSUME NEW c \in Contacts, LiftOptOut(c)
      PROVE  StopsAreOpen' /\ StoppedPlanIsQuiet'
  BY <1>19 DEF LiftOptOut, rowVars, StopsAreOpen, StoppedPlanIsQuiet, TypeOK, Live
<1>20. CASE UNCHANGED vars
  BY <1>20 DEF vars, rowVars, history, StopsAreOpen, StoppedPlanIsQuiet, TypeOK, Live
<1> QED
  BY <1>1, <1>2, <1>3, <1>4, <1>5, <1>6, <1>7, <1>8, <1>9, <1>10,
     <1>11, <1>12, <1>13, <1>14, <1>15, <1>16, <1>17, <1>18, <1>19, <1>20
  DEF Next, Dispatch, BeginStopIfEmpty

-----------------------------------------------------------------------------
(* Claims.                                                                 *)

LEMMA ClaimedInit == Init => Claimed
  BY DEF Init, Claimed, HolderOwnsRow, ClaimIsExclusive, Holds, Idle

LEMMA ClaimedNext == Typed /\ Stopped /\ Claimed /\ [Next]_vars => Claimed'
<1> SUFFICES ASSUME TypeOK, BatchOK, StopsAreOpen, HolderOwnsRow, ClaimIsExclusive, [Next]_vars
             PROVE  HolderOwnsRow' /\ ClaimIsExclusive'
  BY DEF Typed, Stopped, Claimed
<1> USE OutreachAssumption
<1>1. ASSUME NEW w \in Workers, NEW S \in SUBSET Tasks, ClaimDueTasks(w, S)
      PROVE  HolderOwnsRow' /\ ClaimIsExclusive'
  BY <1>1 DEF ClaimDueTasks, Claimable, history, Idle, WorkerState, HolderOwnsRow,
     ClaimIsExclusive, Holds, TypeOK
<1>2. ASSUME NEW w \in Workers, NEW t \in Tasks, NEW a \in {"go", "cancelled", "scheduled"},
             CheckGate(w, t, a)
      PROVE  HolderOwnsRow' /\ ClaimIsExclusive'
  BY <1>2 DEF CheckGate, rowVars, history, WorkerState, HolderOwnsRow, ClaimIsExclusive, Holds,
     TypeOK
<1>3. ASSUME NEW w \in Workers, MarkTaskAttempt(w)
      PROVE  HolderOwnsRow' /\ ClaimIsExclusive'
  <2>1. CASE status[worker[w].task] = "erased"
    <3>1. /\ worker'[w].batch = {}
          /\ \A v \in Workers \ {w} : worker'[v] = worker[v]
          /\ contested' = {x \in contested : HeldBeside(w, x)}
          /\ status' = status
      BY <1>3, <2>1 DEF MarkTaskAttempt, Idle, TypeOK
    <3>2. ASSUME NEW v \in Workers, NEW x \in Tasks, x \in worker'[v].batch
          PROVE  x \in worker[v].batch /\ v # w /\ (x \in contested => x \in contested')
      BY <3>1, <3>2 DEF HeldBeside, Holds
    <3> QED
      BY <3>1, <3>2 DEF HolderOwnsRow, ClaimIsExclusive, Holds
  <2>2. CASE status[worker[w].task] # "erased"
    <3>1. \A v \in Workers : worker'[v].batch = worker[v].batch
      BY <1>3, <2>2 DEF MarkTaskAttempt, TypeOK, WorkerState
    <3> QED
      BY <1>3, <2>2, <3>1 DEF MarkTaskAttempt, HolderOwnsRow, ClaimIsExclusive, Holds
  <2> QED
    BY <2>1, <2>2
<1>4. ASSUME NEW w \in Workers, NEW v \in Verdicts, NEW touch \in BOOLEAN, Execute(w, v, touch)
      PROVE  HolderOwnsRow' /\ ClaimIsExclusive'
  BY <1>4 DEF Execute, rowVars, WorkerState, HolderOwnsRow, ClaimIsExclusive, Holds, TypeOK
<1>5. ASSUME NEW w \in Workers, DeferExecution(w)
      PROVE  HolderOwnsRow' /\ ClaimIsExclusive'
  BY <1>5 DEF DeferExecution, rowVars, history, WorkerState, HolderOwnsRow, ClaimIsExclusive,
     Holds, TypeOK
<1>6. ASSUME NEW w \in Workers, RefundAttempt(w)
      PROVE  HolderOwnsRow' /\ ClaimIsExclusive'
  BY <1>6 DEF RefundAttempt, history, WorkerState, HolderOwnsRow, ClaimIsExclusive, Holds, TypeOK
<1>7. ASSUME NEW w \in Workers, RecordVerdict(w)
      PROVE  HolderOwnsRow' /\ ClaimIsExclusive'
  <2> DEFINE t == worker[w].task
  <2>1. worker'[w].batch = worker[w].batch \ {t} /\ \A v \in Workers \ {w} : worker'[v] = worker[v]
    BY <1>7 DEF RecordVerdict, AfterTask, Idle, TypeOK, WorkerState
  <2>2. \A s \in Tasks : s # t => (s \in contested' <=> s \in contested) /\ status'[s] = status[s]
    BY <1>7 DEF RecordVerdict, Written, TypeOK
  <2>3. \A v \in Workers \ {w} : t \in worker[v].batch => t \in contested'
    BY <1>7 DEF RecordVerdict, HeldBeside, Holds
  <2> HIDE DEF t
  <2>4. ASSUME NEW v \in Workers, NEW s \in Tasks, s \in worker'[v].batch
        PROVE  s \in worker[v].batch /\ (s = t => s \in contested')
    <3>1. CASE v = w
      BY <2>1, <2>4, <3>1
    <3>2. CASE v # w
      BY <2>1, <2>3, <2>4, <3>2
    <3> QED
      BY <3>1, <3>2
  <2>5. HolderOwnsRow'
    BY <2>2, <2>4 DEF HolderOwnsRow, Holds
  <2> QED
    BY <2>2, <2>4, <2>5 DEF ClaimIsExclusive, Holds
<1>8. ASSUME NEW w \in Workers, LoseWorker(w)
      PROVE  HolderOwnsRow' /\ ClaimIsExclusive'
  BY <1>8 DEF LoseWorker, rowVars, HeldBeside, Idle, WorkerState, HolderOwnsRow,
     ClaimIsExclusive, Holds, TypeOK
<1>9. ASSUME NEW t \in Tasks, ReapStaleTask(t)
      PROVE  HolderOwnsRow' /\ ClaimIsExclusive'
  BY <1>9 DEF ReapStaleTask, Held, HolderOwnsRow, ClaimIsExclusive, Holds, TypeOK
<1>10. ASSUME NEW t \in Tasks, NEW v \in Verdicts, NEW b \in BOOLEAN, SettleParked(t, v, b)
      PROVE  HolderOwnsRow' /\ ClaimIsExclusive'
  BY <1>10 DEF SettleParked, Written, Held, HolderOwnsRow, ClaimIsExclusive, Holds, TypeOK
<1>11. ASSUME NEW t \in Tasks, RetryTask(t)
      PROVE  HolderOwnsRow' /\ ClaimIsExclusive'
  BY <1>11 DEF RetryTask, HolderOwnsRow, ClaimIsExclusive, Holds, TypeOK
<1>12. ASSUME NEW t \in Tasks, DismissTask(t)
      PROVE  HolderOwnsRow' /\ ClaimIsExclusive'
  BY <1>12 DEF DismissTask, history, HolderOwnsRow, ClaimIsExclusive, Holds, TypeOK
<1>13. ASSUME NEW p \in Plans, NEW T \in SUBSET Tasks, CreatePlan(p, T)
      PROVE  HolderOwnsRow' /\ ClaimIsExclusive'
  BY <1>13 DEF CreatePlan, TasksOf, StopsAreOpen, history, HolderOwnsRow, ClaimIsExclusive,
     Holds, TypeOK
<1>14. ASSUME NEW p \in Plans, BeginStop(p)
      PROVE  HolderOwnsRow' /\ ClaimIsExclusive'
  BY <1>14 DEF BeginStop, history, HolderOwnsRow, ClaimIsExclusive, Holds, TypeOK
<1>15. ASSUME NEW p \in Plans, CommitStop(p)
      PROVE  HolderOwnsRow' /\ ClaimIsExclusive'
  BY <1>15 DEF CommitStop, Committed, history, HolderOwnsRow, ClaimIsExclusive, Holds, TypeOK
<1>16. ASSUME NEW c \in Contacts, NEW isCall \in BOOLEAN, CancelChannelTasks(c, isCall)
      PROVE  HolderOwnsRow' /\ ClaimIsExclusive'
  BY <1>16 DEF CancelChannelTasks, history, HolderOwnsRow, ClaimIsExclusive, Holds, TypeOK
<1>17. ASSUME NEW c \in Contacts, OptOut(c)
      PROVE  HolderOwnsRow' /\ ClaimIsExclusive'
  BY <1>17 DEF OptOut, rowVars, history, HolderOwnsRow, ClaimIsExclusive, Holds, TypeOK
<1>18. ASSUME NEW c \in Contacts, ErasePlans(c)
      PROVE  HolderOwnsRow' /\ ClaimIsExclusive'
  BY <1>18 DEF ErasePlans, history, HolderOwnsRow, ClaimIsExclusive, Holds, TypeOK
<1>19. ASSUME NEW c \in Contacts, LiftOptOut(c)
      PROVE  HolderOwnsRow' /\ ClaimIsExclusive'
  BY <1>19 DEF LiftOptOut, rowVars, HolderOwnsRow, ClaimIsExclusive, Holds, TypeOK
<1>20. CASE UNCHANGED vars
  BY <1>20 DEF vars, rowVars, history, HolderOwnsRow, ClaimIsExclusive, Holds, TypeOK
<1> QED
  BY <1>1, <1>2, <1>3, <1>4, <1>5, <1>6, <1>7, <1>8, <1>9, <1>10,
     <1>11, <1>12, <1>13, <1>14, <1>15, <1>16, <1>17, <1>18, <1>19, <1>20
  DEF Next, Dispatch, BeginStopIfEmpty

-----------------------------------------------------------------------------
(* Opt-outs.                                                               *)

LEMMA OptedOutInit == Init => OptedOut
  BY DEF Init, OptedOut, LateTouchSpendsGate, OneLateTouchPerWorker, PastGate, Idle

LEMMA OptedOutNext == Typed /\ OptedOut /\ [Next]_vars => OptedOut'
<1> SUFFICES ASSUME TypeOK, BatchOK, LateTouchSpendsGate, OneLateTouchPerWorker, [Next]_vars
             PROVE  LateTouchSpendsGate' /\ OneLateTouchPerWorker'
  BY DEF Typed, OptedOut
<1> USE OutreachAssumption
<1>1. ASSUME NEW w \in Workers, NEW S \in SUBSET Tasks, ClaimDueTasks(w, S)
      PROVE  LateTouchSpendsGate' /\ OneLateTouchPerWorker'
  BY <1>1 DEF ClaimDueTasks, history, Idle, WorkerState, ContactOfTask, LateTouchSpendsGate,
     OneLateTouchPerWorker, PastGate, TypeOK
<1>2. ASSUME NEW w \in Workers, NEW t \in Tasks, NEW a \in {"go", "cancelled", "scheduled"},
             CheckGate(w, t, a)
      PROVE  LateTouchSpendsGate' /\ OneLateTouchPerWorker'
  BY <1>2 DEF CheckGate, GateAnswers, rowVars, history, WorkerState, ContactOfTask,
     LateTouchSpendsGate, OneLateTouchPerWorker, PastGate, TypeOK
<1>3. ASSUME NEW w \in Workers, MarkTaskAttempt(w)
      PROVE  LateTouchSpendsGate' /\ OneLateTouchPerWorker'
  <2>1. /\ \A v \in Workers : PastGate(v)' => PastGate(v) /\ worker'[v].task = worker[v].task
        /\ UNCHANGED <<suppressed, lateTouches>>
    <3>1. UNCHANGED <<suppressed, lateTouches>>
      BY <1>3 DEF MarkTaskAttempt
    <3>2. CASE status[worker[w].task] = "erased"
      BY <1>3, <3>1, <3>2 DEF MarkTaskAttempt, Idle, PastGate, TypeOK
    <3>3. CASE status[worker[w].task] # "erased"
      <4>1. PastGate(w) /\ worker'[w].task = worker[w].task
        BY <1>3, <3>3 DEF MarkTaskAttempt, PastGate, TypeOK, WorkerState
      <4>2. \A v \in Workers \ {w} : worker'[v] = worker[v]
        BY <1>3, <3>3 DEF MarkTaskAttempt, TypeOK
      <4> QED
        BY <3>1, <4>1, <4>2 DEF PastGate
    <3> QED
      BY <3>2, <3>3
  <2> QED
    BY <2>1 DEF LateTouchSpendsGate, OneLateTouchPerWorker, ContactOfTask
<1>4. ASSUME NEW w \in Workers, NEW v \in Verdicts, NEW touch \in BOOLEAN, Execute(w, v, touch)
      PROVE  LateTouchSpendsGate' /\ OneLateTouchPerWorker'
  <2> DEFINE c == ContactOfTask(worker[w].task)
  <2>1. worker[w].task \in Tasks /\ PastGate(w)
    BY <1>4 DEF Execute, BatchOK, PastGate, TypeOK, WorkerState
  <2>2. c \in Contacts
    BY <2>1 DEF ContactOfTask
  <2>3. /\ ~PastGate(w)'
        /\ \A x \in Workers \ {w} : worker'[x] = worker[x]
        /\ suppressed' = suppressed
    BY <1>4 DEF Execute, PastGate, TypeOK, WorkerState
  <2>4. lateTouches[c][w] = 0
    <3>1. lateTouches[c][w] \in Nat
      BY <2>2 DEF TypeOK
    <3>2. lateTouches[c][w] <= 1 /\ lateTouches[c][w] # 1
      BY <2>1, <2>2 DEF LateTouchSpendsGate, OneLateTouchPerWorker
    <3> QED
      BY <3>1, <3>2
  <2>5. \/ lateTouches' = lateTouches
        \/ c \in suppressed /\ lateTouches' = [lateTouches EXCEPT ![c][w] = 1]
    BY <1>4, <2>2, <2>4 DEF Execute, TypeOK
  <2>6. \A d \in Contacts, x \in Workers :
          \/ lateTouches'[d][x] = lateTouches[d][x]
          \/ d = c /\ x = w /\ d \in suppressed /\ lateTouches'[d][x] = 1
    BY <2>2, <2>5 DEF TypeOK
  <2> HIDE DEF c
  <2>7. OneLateTouchPerWorker'
    BY <2>6 DEF OneLateTouchPerWorker, TypeOK
  <2>8. ASSUME NEW d \in Contacts, NEW x \in Workers
        PROVE  /\ d \notin suppressed' => lateTouches'[d][x] = 0
               /\ lateTouches'[d][x] = 1 => ~(PastGate(x)' /\ ContactOfTask(worker'[x].task) = d)
    <3>1. CASE x = w
      BY <2>3, <2>6, <3>1 DEF LateTouchSpendsGate
    <3>2. CASE x # w
      BY <2>3, <2>6, <3>2 DEF LateTouchSpendsGate, PastGate
    <3> QED
      BY <3>1, <3>2
  <2> QED
    BY <2>7, <2>8 DEF LateTouchSpendsGate, ContactOfTask
<1>5. ASSUME NEW w \in Workers, DeferExecution(w)
      PROVE  LateTouchSpendsGate' /\ OneLateTouchPerWorker'
  BY <1>5 DEF DeferExecution, rowVars, history, WorkerState, ContactOfTask, LateTouchSpendsGate,
     OneLateTouchPerWorker, PastGate, TypeOK
<1>6. ASSUME NEW w \in Workers, RefundAttempt(w)
      PROVE  LateTouchSpendsGate' /\ OneLateTouchPerWorker'
  BY <1>6 DEF RefundAttempt, history, WorkerState, ContactOfTask, LateTouchSpendsGate,
     OneLateTouchPerWorker, PastGate, TypeOK
<1>7. ASSUME NEW w \in Workers, RecordVerdict(w)
      PROVE  LateTouchSpendsGate' /\ OneLateTouchPerWorker'
  BY <1>7 DEF RecordVerdict, AfterTask, Idle, WorkerState, ContactOfTask, LateTouchSpendsGate,
     OneLateTouchPerWorker, PastGate, TypeOK
<1>8. ASSUME NEW w \in Workers, LoseWorker(w)
      PROVE  LateTouchSpendsGate' /\ OneLateTouchPerWorker'
  BY <1>8 DEF LoseWorker, rowVars, Idle, WorkerState, ContactOfTask, LateTouchSpendsGate,
     OneLateTouchPerWorker, PastGate, TypeOK
<1>9. ASSUME NEW t \in Tasks, ReapStaleTask(t)
      PROVE  LateTouchSpendsGate' /\ OneLateTouchPerWorker'
  BY <1>9 DEF ReapStaleTask, history, rowVars, ContactOfTask, LateTouchSpendsGate,
     OneLateTouchPerWorker, PastGate, TypeOK
<1>10. ASSUME NEW t \in Tasks, NEW v \in Verdicts, NEW b \in BOOLEAN, SettleParked(t, v, b)
      PROVE  LateTouchSpendsGate' /\ OneLateTouchPerWorker'
  BY <1>10 DEF SettleParked, history, rowVars, ContactOfTask, LateTouchSpendsGate,
     OneLateTouchPerWorker, PastGate, TypeOK
<1>11. ASSUME NEW t \in Tasks, RetryTask(t)
      PROVE  LateTouchSpendsGate' /\ OneLateTouchPerWorker'
  BY <1>11 DEF RetryTask, history, rowVars, ContactOfTask, LateTouchSpendsGate,
     OneLateTouchPerWorker, PastGate, TypeOK
<1>12. ASSUME NEW t \in Tasks, DismissTask(t)
      PROVE  LateTouchSpendsGate' /\ OneLateTouchPerWorker'
  BY <1>12 DEF DismissTask, history, rowVars, ContactOfTask, LateTouchSpendsGate,
     OneLateTouchPerWorker, PastGate, TypeOK
<1>13. ASSUME NEW p \in Plans, NEW T \in SUBSET Tasks, CreatePlan(p, T)
      PROVE  LateTouchSpendsGate' /\ OneLateTouchPerWorker'
  BY <1>13 DEF CreatePlan, history, rowVars, ContactOfTask, LateTouchSpendsGate,
     OneLateTouchPerWorker, PastGate, TypeOK
<1>14. ASSUME NEW p \in Plans, BeginStop(p)
      PROVE  LateTouchSpendsGate' /\ OneLateTouchPerWorker'
  BY <1>14 DEF BeginStop, history, rowVars, ContactOfTask, LateTouchSpendsGate,
     OneLateTouchPerWorker, PastGate, TypeOK
<1>15. ASSUME NEW p \in Plans, CommitStop(p)
      PROVE  LateTouchSpendsGate' /\ OneLateTouchPerWorker'
  BY <1>15 DEF CommitStop, history, rowVars, ContactOfTask, LateTouchSpendsGate,
     OneLateTouchPerWorker, PastGate, TypeOK
<1>16. ASSUME NEW c \in Contacts, NEW isCall \in BOOLEAN, CancelChannelTasks(c, isCall)
      PROVE  LateTouchSpendsGate' /\ OneLateTouchPerWorker'
  BY <1>16 DEF CancelChannelTasks, history, rowVars, ContactOfTask, LateTouchSpendsGate,
     OneLateTouchPerWorker, PastGate, TypeOK
<1>17. ASSUME NEW c \in Contacts, OptOut(c)
      PROVE  LateTouchSpendsGate' /\ OneLateTouchPerWorker'
  BY <1>17 DEF OptOut, history, rowVars, ContactOfTask, LateTouchSpendsGate,
     OneLateTouchPerWorker, PastGate, TypeOK
<1>18. ASSUME NEW c \in Contacts, ErasePlans(c)
      PROVE  LateTouchSpendsGate' /\ OneLateTouchPerWorker'
  BY <1>18 DEF ErasePlans, history, rowVars, ContactOfTask, LateTouchSpendsGate,
     OneLateTouchPerWorker, PastGate, TypeOK
<1>19. ASSUME NEW c \in Contacts, LiftOptOut(c)
      PROVE  LateTouchSpendsGate' /\ OneLateTouchPerWorker'
  BY <1>19 DEF LiftOptOut, rowVars, ContactOfTask, LateTouchSpendsGate, OneLateTouchPerWorker,
     PastGate, TypeOK
<1>20. CASE UNCHANGED vars
  BY <1>20 DEF vars, rowVars, history, ContactOfTask, LateTouchSpendsGate,
     OneLateTouchPerWorker, PastGate, TypeOK
<1> QED
  BY <1>1, <1>2, <1>3, <1>4, <1>5, <1>6, <1>7, <1>8, <1>9, <1>10,
     <1>11, <1>12, <1>13, <1>14, <1>15, <1>16, <1>17, <1>18, <1>19, <1>20
  DEF Next, Dispatch, BeginStopIfEmpty
-----------------------------------------------------------------------------
(* The invariant and what follows from it.                                 *)

Invariant == Typed /\ Stopped /\ Claimed /\ OptedOut

THEOREM InvariantHolds == Spec => []Invariant
<1>1. Init => Invariant
  BY TypedInit, StoppedInit, ClaimedInit, OptedOutInit DEF Invariant
<1>2. Invariant /\ [Next]_vars => Invariant'
  BY TypedNext, StoppedNext, ClaimedNext, OptedOutNext DEF Invariant
<1> QED
  BY <1>1, <1>2, PTL DEF Spec

(* A plan that is no longer active keeps no live step, except a step an admin  *)
(* retried while the stop was committing.                                      *)
THEOREM StoppedPlansAreQuiet == Spec => []StoppedPlanIsQuiet
<1>1. Invariant => StoppedPlanIsQuiet
  BY DEF Invariant, Stopped
<1> QED
  BY <1>1, InvariantHolds, PTL

(* However many workers claim, two of them hold one task only after the row    *)
(* was taken from a worker that was still running it.                          *)
THEOREM ClaimsAreExclusive == Spec => []ClaimIsExclusive
<1>1. Invariant => ClaimIsExclusive
  BY DEF Invariant, Claimed
<1> QED
  BY <1>1, InvariantHolds, PTL

(* After an opt-out every worker reaches the contact at most once more, so a   *)
(* tenant's contact gets at most as many late touches as there are workers.    *)
THEOREM LateTouchesAreBounded == Spec => []OneLateTouchPerWorker
<1>1. Invariant => OneLateTouchPerWorker
  BY DEF Invariant, OptedOut
<1> QED
  BY <1>1, InvariantHolds, PTL

(* No step leaves a completed or cancelled task changed, and a failed one is   *)
(* only revived with fresh attempts or dismissed.                              *)
LEMMA SettledStep ==
  Typed /\ Stopped /\ [Next]_vars => \A t \in Tasks : Settled(t)
<1> SUFFICES ASSUME TypeOK, BatchOK, StopsAreOpen, [Next]_vars, NEW u \in Tasks
             PROVE  Settled(u)
  BY DEF Typed, Stopped
<1> USE OutreachAssumption
<1>1. ASSUME NEW w \in Workers, NEW S \in SUBSET Tasks, ClaimDueTasks(w, S)
      PROVE  Settled(u)
  BY <1>1 DEF ClaimDueTasks, Claimable, Settled, TypeOK
<1>2. ASSUME NEW w \in Workers, NEW t \in Tasks, NEW a \in {"go", "cancelled", "scheduled"},
             CheckGate(w, t, a)
      PROVE  Settled(u)
  BY <1>2 DEF CheckGate, rowVars, Settled, TypeOK
<1>3. ASSUME NEW w \in Workers, MarkTaskAttempt(w)
      PROVE  Settled(u)
  BY <1>3 DEF MarkTaskAttempt, Settled, TypeOK
<1>4. ASSUME NEW w \in Workers, NEW v \in Verdicts, NEW touch \in BOOLEAN, Execute(w, v, touch)
      PROVE  Settled(u)
  BY <1>4 DEF Execute, rowVars, Settled, TypeOK
<1>5. ASSUME NEW w \in Workers, DeferExecution(w)
      PROVE  Settled(u)
  BY <1>5 DEF DeferExecution, rowVars, Settled, TypeOK
<1>6. ASSUME NEW w \in Workers, RefundAttempt(w)
      PROVE  Settled(u)
  BY <1>6 DEF RefundAttempt, Settled, TypeOK
<1>7. ASSUME NEW w \in Workers, RecordVerdict(w)
      PROVE  Settled(u)
  BY <1>7 DEF RecordVerdict, Written, Settleable, Settled, TypeOK
<1>8. ASSUME NEW w \in Workers, LoseWorker(w)
      PROVE  Settled(u)
  BY <1>8 DEF LoseWorker, rowVars, Settled, TypeOK
<1>9. ASSUME NEW t \in Tasks, ReapStaleTask(t)
      PROVE  Settled(u)
  BY <1>9 DEF ReapStaleTask, Expirable, Settled, TypeOK
<1>10. ASSUME NEW t \in Tasks, NEW v \in Verdicts, NEW b \in BOOLEAN, SettleParked(t, v, b)
      PROVE  Settled(u)
  BY <1>10 DEF SettleParked, Written, Settleable, Settled, TypeOK
<1>11. ASSUME NEW t \in Tasks, RetryTask(t)
      PROVE  Settled(u)
  BY <1>11 DEF RetryTask, Settled, TypeOK
<1>12. ASSUME NEW t \in Tasks, DismissTask(t)
      PROVE  Settled(u)
  BY <1>12 DEF DismissTask, Settled, TypeOK
<1>13. ASSUME NEW p \in Plans, NEW T \in SUBSET Tasks, CreatePlan(p, T)
      PROVE  Settled(u)
  BY <1>13 DEF CreatePlan, TasksOf, StopsAreOpen, Settled, TypeOK
<1>14. ASSUME NEW p \in Plans, BeginStop(p)
      PROVE  Settled(u)
  BY <1>14 DEF BeginStop, Settled, TypeOK
<1>15. ASSUME NEW p \in Plans, CommitStop(p)
      PROVE  Settled(u)
  BY <1>15 DEF CommitStop, Committed, StopsAreOpen, Live, Settled, TypeOK
<1>16. ASSUME NEW c \in Contacts, NEW isCall \in BOOLEAN, CancelChannelTasks(c, isCall)
      PROVE  Settled(u)
  BY <1>16 DEF CancelChannelTasks, Settled, TypeOK
<1>17. ASSUME NEW c \in Contacts, OptOut(c)
      PROVE  Settled(u)
  BY <1>17 DEF OptOut, rowVars, Settled, TypeOK
<1>18. ASSUME NEW c \in Contacts, ErasePlans(c)
      PROVE  Settled(u)
  BY <1>18 DEF ErasePlans, Settled, TypeOK
<1>19. ASSUME NEW c \in Contacts, LiftOptOut(c)
      PROVE  Settled(u)
  BY <1>19 DEF LiftOptOut, rowVars, Settled, TypeOK
<1>20. CASE UNCHANGED vars
  BY <1>20 DEF vars, rowVars, Settled
<1> QED
  BY <1>1, <1>2, <1>3, <1>4, <1>5, <1>6, <1>7, <1>8, <1>9, <1>10,
     <1>11, <1>12, <1>13, <1>14, <1>15, <1>16, <1>17, <1>18, <1>19, <1>20
  DEF Next, Dispatch, BeginStopIfEmpty

THEOREM FinalTasksStayFinal == Spec => FinalIsFinal
<1>1. Invariant /\ [Next]_vars => [\A t \in Tasks : Settled(t)]_vars
  BY SettledStep DEF Invariant
<1> QED
  BY <1>1, InvariantHolds, PTL DEF Spec, FinalIsFinal

-----------------------------------------------------------------------------
(* Campaigns.  Plans and tasks keep their invariant although a campaign's      *)
(* transaction stops several plans at once, or rolls back.                     *)

CampaignTypes ==
  /\ campaign \in [Campaign -> {"none", "active", "cancelled", "completed"}]
  /\ closing \in [Campaign -> {"no", "stop", "end"}]

(* While the transaction of a campaign is open, the plans it will stop are all  *)
(* the active ones but the late ones, and it alone can let go of them.          *)
ClosingTakesAll ==
  \A p \in Plans :
    closing[CampaignOf[p]] # "no" /\ plan[p] = "active" => p \in stopping \union late

CampaignInv == CampaignTypes /\ ClosingTakesAll /\ StoppedCampaignIsQuiet

LEMMA InvariantInit == Init => Invariant
  BY TypedInit, StoppedInit, ClaimedInit, OptedOutInit DEF Invariant

LEMMA InvariantNext == Invariant /\ [Next]_vars => Invariant'
  BY TypedNext, StoppedNext, ClaimedNext, OptedOutNext DEF Invariant

(* Claims and opt-outs do not see plans, stops or locks.                       *)
LEMMA ClaimsAside ==
  ASSUME Typed, Claimed, OptedOut,
         UNCHANGED <<worker, contested, suppressed, lateTouches>>,
         \A t \in Tasks : status'[t] \in {status[t], "cancelled"}
  PROVE  Claimed' /\ OptedOut'
  BY DEF Typed, TypeOK, Claimed, OptedOut, HolderOwnsRow, ClaimIsExclusive, Holds,
         LateTouchSpendsGate, OneLateTouchPerWorker, PastGate, ContactOfTask

LEMMA OpenedKeeps ==
  ASSUME Invariant, NEW P \in SUBSET Plans, \A p \in P : plan[p] = "active", Opened(P),
         UNCHANGED <<plan, status, attempts, parked, suppressed, worker, history>>
  PROVE  Invariant'
<1> USE OutreachAssumption DEF Invariant
<1>1. Typed'
  BY DEF Typed, TypeOK, BatchOK, Opened, LiveTasks, TasksOf, history
<1>2. Stopped'
  BY DEF Typed, TypeOK, Stopped, StopsAreOpen, StoppedPlanIsQuiet, Opened, LiveTasks, TasksOf,
         history
<1>3. Claimed' /\ OptedOut'
  BY ClaimsAside DEF history, Typed, TypeOK
<1> QED
  BY <1>1, <1>2, <1>3

LEMMA CommittedKeeps ==
  ASSUME Invariant, NEW P \in SUBSET stopping, Committed(P),
         UNCHANGED <<attempts, parked, suppressed, worker, history>>
  PROVE  Invariant'
<1> USE OutreachAssumption DEF Invariant
<1>1. Typed'
  BY DEF Typed, TypeOK, BatchOK, Committed, TaskStatus, Final, history
<1>2. Stopped'
  <2> USE DEF Typed, TypeOK, Stopped
  <2>1. \A t \in Tasks : status'[t] \in Live =>
          /\ status[t] = status'[t]
          /\ ~(t \in locked /\ PlanOf[t] \in P)
    BY DEF Committed, Live
  <2>2. StopsAreOpen'
    BY <2>1 DEF StopsAreOpen, Committed, Live, history
  <2>3. ASSUME NEW t \in Tasks, status'[t] \in Live, plan'[PlanOf[t]] # "active"
        PROVE  t \in revived
    <3>1. CASE PlanOf[t] \in P
      BY <2>1, <2>3, <3>1 DEF StopsAreOpen
    <3>2. CASE PlanOf[t] \notin P
      BY <2>1, <2>3, <3>2 DEF StoppedPlanIsQuiet, Committed
    <3> QED
      BY <3>1, <3>2
  <2> QED
    BY <2>2, <2>3 DEF StoppedPlanIsQuiet, history
<1>3. Claimed' /\ OptedOut'
  BY ClaimsAside DEF history, Typed, TypeOK, Committed
<1> QED
  BY <1>1, <1>2, <1>3

LEMMA RolledBackKeeps ==
  ASSUME Invariant, NEW P \in SUBSET Plans,
         stopping' = stopping \ P, locked' = {t \in locked : PlanOf[t] \notin P},
         UNCHANGED <<plan, status, attempts, parked, suppressed, worker, history>>
  PROVE  Invariant'
<1> USE OutreachAssumption DEF Invariant
<1>1. Typed'
  BY DEF Typed, TypeOK, BatchOK, history
<1>2. Stopped'
  BY DEF Typed, TypeOK, Stopped, StopsAreOpen, StoppedPlanIsQuiet, history
<1>3. Claimed' /\ OptedOut'
  BY ClaimsAside DEF history, Typed, TypeOK
<1> QED
  BY <1>1, <1>2, <1>3

LEMMA InvariantOfCampaigns == Invariant /\ [CNext]_allVars => Invariant'
<1> SUFFICES ASSUME Invariant, [CNext]_allVars PROVE Invariant'
  OBVIOUS
<1>1. CASE OutreachStep
  <2>1. Next
    BY <1>1 DEF OutreachStep, Next, CommitPlanStop
  <2> QED
    BY <2>1, InvariantNext
<1>2. ASSUME NEW p \in Plans, NEW T \in SUBSET Tasks, PlanInCampaign(p, T) PROVE Invariant'
  <2>1. Next
    BY <1>2 DEF PlanInCampaign, Next
  <2> QED
    BY <2>1, InvariantNext
<1>3. ASSUME NEW k \in Campaign, NEW how \in {"stop", "end"}, BeginClosing(k, how)
      PROVE  Invariant'
  BY <1>3, OpenedKeeps DEF BeginClosing, PlansToStop
<1>4. ASSUME NEW k \in Campaign, CommitClosing(k) PROVE Invariant'
  <2>1. ClosedBy(k) \in SUBSET stopping
    BY DEF ClosedBy
  <2> QED
    BY <1>4, <2>1, CommittedKeeps DEF CommitClosing
<1>5. CASE LoseHousekeeping
  <2> DEFINE P == UNION {ClosedBy(k) : k \in {j \in Campaign : closing[j] = "end"}}
  <2>1. P \in SUBSET Plans
    BY DEF ClosedBy, Invariant, Typed, TypeOK
  <2>2. stopping' = stopping \ P /\ locked' = {t \in locked : PlanOf[t] \notin P}
    BY <1>5 DEF LoseHousekeeping
  <2> HIDE DEF P
  <2> QED
    BY <1>5, <2>1, <2>2, RolledBackKeeps DEF LoseHousekeeping
<1>6. CASE UNCHANGED vars
  BY <1>6, InvariantNext
<1> QED
  BY <1>1, <1>2, <1>3, <1>4, <1>5, <1>6
  DEF CNext, CreateCampaign, ReachEnd, MoveEnd, BeginStopCampaign, BeginEndCampaign, MarkEnded,
      allVars

(* What an action of the plans' own leaves of a campaign: it makes no plan      *)
(* active, and lets go of a plan being stopped only with the campaign at rest.  *)
PlanKept(p) ==
  plan'[p] = "active" =>
    plan[p] = "active" /\ (p \in stopping /\ closing[CampaignOf[p]] # "no" => p \in stopping')

LEMMA OutreachStepKeeps ==
  ASSUME Typed, OutreachStep, NEW q \in Plans
  PROVE  PlanKept(q)
<1>0. UNCHANGED <<plan, stopping>> => PlanKept(q)
  BY DEF PlanKept
<1>1. ASSUME NEW w \in Workers, Dispatch(w) PROVE PlanKept(q)
  BY <1>0, <1>1 DEF Dispatch, ClaimDueTasks, CheckGate, MarkTaskAttempt, Execute, DeferExecution,
     RefundAttempt, RecordVerdict, LoseWorker, rowVars
<1>2. ASSUME NEW t \in Tasks, ReapStaleTask(t) \/ RetryTask(t) \/ DismissTask(t)
      PROVE  PlanKept(q)
  BY <1>0, <1>2 DEF ReapStaleTask, RetryTask, DismissTask
<1>3. ASSUME NEW t \in Tasks, NEW v \in Verdicts, NEW b \in BOOLEAN, SettleParked(t, v, b)
      PROVE  PlanKept(q)
  BY <1>0, <1>3 DEF SettleParked
<1>4. ASSUME NEW p \in Plans, BeginStop(p) PROVE PlanKept(q)
  BY <1>4 DEF BeginStop, Opened, PlanKept
<1>5. ASSUME NEW p \in Plans, CommitPlanStop(p) PROVE PlanKept(q)
  BY <1>5 DEF CommitPlanStop, CommitStop, Committed, PlanKept
<1>6. ASSUME NEW c \in Contacts, NEW b \in BOOLEAN, CancelChannelTasks(c, b) PROVE PlanKept(q)
  BY <1>0, <1>6 DEF CancelChannelTasks
<1>7. ASSUME NEW c \in Contacts, OptOut(c) \/ LiftOptOut(c) \/ ErasePlans(c) PROVE PlanKept(q)
  BY <1>0, <1>7 DEF OptOut, LiftOptOut, ErasePlans, rowVars, PlanKept
<1> QED
  BY <1>1, <1>2, <1>3, <1>4, <1>5, <1>6, <1>7, ZenonT(30) DEF OutreachStep, BeginStopIfEmpty

LEMMA CampaignInvNext ==
  Invariant /\ CampaignInv /\ [CNext]_allVars => CampaignInv'
<1> SUFFICES ASSUME Invariant, CampaignInv, [CNext]_allVars PROVE CampaignInv'
  OBVIOUS
<1> USE OutreachAssumption, CampaignAssumption
    DEF CampaignInv, CampaignTypes, ClosingTakesAll, StoppedCampaignIsQuiet
<1>0. Typed /\ plan \in [Plans -> {"none", "active", "stopped", "erased"}] /\ stopping \subseteq Plans
  BY DEF Invariant, Typed, TypeOK
<1>1. CASE OutreachStep /\ UNCHANGED campaignVars
  <2>1. \A q \in Plans : PlanKept(q)
    BY <1>0, <1>1, OutreachStepKeeps
  <2> QED
    BY <1>1, <2>1 DEF PlanKept, campaignVars
<1>2. ASSUME NEW p \in Plans, NEW T \in SUBSET Tasks, PlanInCampaign(p, T)
      PROVE  CampaignInv'
  BY <1>0, <1>2 DEF PlanInCampaign, CreatePlan
<1>3. ASSUME NEW k \in Campaign, NEW how \in {"stop", "end"}, BeginClosing(k, how)
      PROVE  CampaignInv'
  BY <1>0, <1>3 DEF BeginClosing, PlansToStop, Opened
<1>4. ASSUME NEW k \in Campaign, CommitClosing(k) PROVE CampaignInv'
  BY <1>0, <1>4 DEF CommitClosing, ClosedBy, Committed
<1>5. CASE LoseHousekeeping
  BY <1>0, <1>5 DEF LoseHousekeeping, ClosedBy
<1>6. ASSUME NEW k \in Campaign, CreateCampaign(k) \/ ReachEnd(k) \/ MoveEnd(k)
      PROVE  CampaignInv'
  BY <1>0, <1>6 DEF CreateCampaign, ReachEnd, MoveEnd, vars, rowVars
<1>7. CASE MarkEnded
  BY <1>0, <1>7 DEF MarkEnded, Overdue, vars, rowVars
<1>8. CASE UNCHANGED allVars
  BY <1>8 DEF allVars, vars, rowVars, campaignVars
<1> QED
  BY <1>1, <1>2, <1>3, <1>4, <1>5, <1>6, <1>7, <1>8
  DEF CNext, BeginStopCampaign, BeginEndCampaign

THEOREM CampaignInvariantHolds == CSpec => [](Invariant /\ CampaignInv)
<1>1. CInit => Invariant /\ CampaignInv
  BY InvariantInit
  DEF CInit, Init, CampaignInv, CampaignTypes, ClosingTakesAll, StoppedCampaignIsQuiet
<1> QED
  BY <1>1, InvariantOfCampaigns, CampaignInvNext, PTL DEF CSpec

(* However launches, follow-ups, stops and the housekeeping overlap, a stopped *)
(* campaign keeps no active plan but those added while or after it stopped.    *)
THEOREM StoppedCampaignsAreQuiet == CSpec => []StoppedCampaignIsQuiet
<1>1. CampaignInv => StoppedCampaignIsQuiet
  BY DEF CampaignInv
<1> QED
  BY <1>1, CampaignInvariantHolds, PTL

(* What is proved of plans and claims still holds where campaigns stop many    *)
(* plans in one transaction, or roll that transaction back.                    *)
THEOREM PlansKeepTheirPromises ==
  CSpec => [](StoppedPlanIsQuiet /\ ClaimIsExclusive /\ OneLateTouchPerWorker)
<1>1. Invariant => StoppedPlanIsQuiet /\ ClaimIsExclusive /\ OneLateTouchPerWorker
  BY DEF Invariant, Stopped, Claimed, OptedOut
<1> QED
  BY <1>1, CampaignInvariantHolds, PTL
=============================================================================
