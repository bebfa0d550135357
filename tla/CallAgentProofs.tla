--------------------------- MODULE CallAgentProofs ---------------------------
(***************************************************************************)
(* Proofs about CallAgent for any number of tasks, sessions, dispatchers   *)
(* and webhooks: every reachable state is well typed, and the cap holds.   *)
(* Types, what each process works on, and the order in which the fields of *)
(* a session change are proved together (Invariant); then that a call is   *)
(* up only under a live session (LinesOK), and the cap from both.          *)
(***************************************************************************)
EXTENDS CallAgent, FiniteSetTheorems, TLAPS

Invariant == TypeOK /\ WorkersOK /\ HooksOK /\ SessionsOK

Steps == {"idle", "gate", "create", "dial", "verdict"}

-----------------------------------------------------------------------------
(* Building blocks.                                                        *)

LEMMA IdleTypes == Idle \in WorkerState /\ Done \in HookState
  BY CallAssumption DEF Idle, WorkerState, Done, HookState, Outcomes

LEMMA CountedTypes ==
  ASSUME NEW n \in 0..MaxAttempts
  PROVE  Counted(n) \in 0..MaxAttempts /\ Refunded(n) \in 0..MaxAttempts
  BY CallAssumption DEF Counted, Refunded

(* What a worker writes down before it concludes.                          *)
LEMMA ConcludesKeeps ==
  ASSUME Invariant, NEW w \in Workers, NEW v \in TaskStatus, worker[w].at # "idle",
         Concludes(w, v)
  PROVE  /\ worker' \in [Workers -> WorkerState]
         /\ worker'[w].at = "verdict" /\ worker'[w].verdict = v
         /\ worker'[w].task = worker[w].task
         /\ \A u \in Workers \ {w} : worker'[u] = worker[u]
<1> DEFINE r == [worker[w] EXCEPT !.at = "verdict", !.verdict = v, !.tries = 0, !.call = NoCall]
<1>1. worker[w] \in WorkerState
  BY DEF Invariant, TypeOK
<1>2. r \in WorkerState
  <2>1. 0 \in 0..MaxAttempts
    BY CallAssumption
  <2> QED
    BY <1>1, <2>1 DEF WorkerState
<1>4. r.at = "verdict" /\ r.verdict = v /\ r.task = worker[w].task
  BY <1>1 DEF WorkerState
<1>3. worker' = [worker EXCEPT ![w] = r]
  BY <1>1 DEF Concludes, WorkerState
<1> HIDE DEF r
<1> QED
  BY <1>2, <1>3, <1>4 DEF Invariant, TypeOK

(* A session once made is not unmade, and keeps its task.                  *)
Kept ==
  \A c \in Calls : call[c].status # "none" =>
    call'[c].status # "none" /\ call'[c].task = call[c].task

(* A step that leaves the sessions and their lines alone.                  *)
LEMMA SameSessions ==
  ASSUME Invariant, UNCHANGED <<call, line>>
  PROVE  Kept /\ SessionsOK'
  BY DEF Invariant, SessionsOK, Kept

(* A step of one worker, of one webhook, or of neither.                    *)
LEMMA OneWorker ==
  ASSUME Invariant, Kept, NEW w \in Workers,
         \A u \in Workers \ {w} : worker'[u] = worker[u],
         worker'[w].at # "idle" => worker'[w].task \in Tasks,
         worker'[w].at = "dial" =>
           worker'[w].call \in Calls /\ call'[worker'[w].call].status # "none",
         worker'[w].at = "verdict" => worker'[w].verdict \in TaskStatus
  PROVE  WorkersOK'
  BY DEF Invariant, WorkersOK, Kept, TaskStatus

LEMMA OneHook ==
  ASSUME Invariant, Kept, NEW h \in Hooks,
         \A k \in Hooks \ {h} : hook'[k] = hook[k],
         hook'[h].at # "idle" =>
           hook'[h].call \in Calls /\ call'[hook'[h].call].status # "none",
         hook'[h].at \in {"settle", "lost"} => call'[hook'[h].call].task # NoTask
  PROVE  HooksOK'
  BY DEF Invariant, HooksOK, Kept

LEMMA SameWorkers ==
  ASSUME Invariant, Kept, UNCHANGED worker
  PROVE  WorkersOK'
  BY DEF Invariant, WorkersOK, Kept, TaskStatus

LEMMA SameHooks ==
  ASSUME Invariant, Kept, UNCHANGED hook
  PROVE  HooksOK'
  BY DEF Invariant, HooksOK, Kept

(* A step of one session, which exists when it is over.                     *)
LEMMA OneSession ==
  ASSUME Invariant, NEW c \in Calls, NEW s \in Session, call' = [call EXCEPT ![c] = s],
         s.status # "none", s.status = "closed" => s.ended,
         call[c].status # "none" => s.task = call[c].task,
         \A d \in Calls \ {c} : line'[d] = line[d]
  PROVE  Kept /\ SessionsOK' /\ call' \in [Calls -> Session] /\ call'[c] = s
<1>1. call \in [Calls -> Session] /\ SessionsOK
  BY DEF Invariant, TypeOK
<1>2. call' \in [Calls -> Session] /\ call'[c] = s /\ \A d \in Calls \ {c} : call'[d] = call[d]
  BY <1>1
<1> QED
  BY <1>1, <1>2 DEF SessionsOK, Kept

-----------------------------------------------------------------------------
(* One lemma for each action of a dispatcher.                              *)

LEMMA ClaimStep ==
  ASSUME Invariant, NEW w \in Workers, NEW t \in Tasks, Claim(w, t)
  PROVE  Invariant' /\ Kept
<1> DEFINE r == [worker[w] EXCEPT !.at = "gate", !.task = t]
<1>1. worker[w] \in WorkerState
  BY DEF Invariant, TypeOK
<1>2. r \in WorkerState /\ r.at = "gate" /\ r.task = t
  BY <1>1 DEF WorkerState
<1>3. worker' = [worker EXCEPT ![w] = r]
  BY <1>1 DEF Claim, WorkerState
<1> HIDE DEF r
<1>4. TypeOK'
  <2>1. task' \in [Tasks -> TaskStatus]
    BY DEF Claim, Invariant, TypeOK, TaskStatus
  <2>2. worker' \in [Workers -> WorkerState]
    BY <1>2, <1>3 DEF Invariant, TypeOK
  <2> QED
    BY <2>1, <2>2 DEF Claim, Invariant, TypeOK, history
<1>5. Kept /\ SessionsOK'
  BY SameSessions DEF Claim
<1>6. WorkersOK'
  BY <1>2, <1>3, <1>5, OneWorker DEF Invariant, TypeOK
<1>7. HooksOK'
  BY <1>5, SameHooks DEF Claim
<1> QED
  BY <1>4, <1>5, <1>6, <1>7 DEF Invariant

LEMMA CheckGateStep ==
  ASSUME Invariant, NEW w \in Workers, NEW a \in {"passed", "deferred", "refused"},
         CheckGate(w, a)
  PROVE  Invariant' /\ Kept
<1> DEFINE t == worker[w].task
<1>1. worker[w] \in WorkerState /\ t \in Tasks /\ worker[w].at = "gate"
  BY DEF Invariant, TypeOK, WorkersOK, CheckGate
<1>2. Kept /\ SessionsOK'
  BY SameSessions DEF CheckGate
<1>3. HooksOK'
  BY <1>2, SameHooks DEF CheckGate
<1>4. CASE \E v \in {"cancelled", "scheduled"} : Concludes(w, v) /\ UNCHANGED attempts
  <2>1. PICK v \in {"cancelled", "scheduled"} : Concludes(w, v) /\ UNCHANGED attempts
    BY <1>4
  <2>2. v \in TaskStatus
    BY DEF TaskStatus
  <2>3. /\ worker' \in [Workers -> WorkerState]
        /\ worker'[w].at = "verdict" /\ worker'[w].verdict = v /\ worker'[w].task = t
        /\ \A u \in Workers \ {w} : worker'[u] = worker[u]
    BY <1>1, <2>1, <2>2, ConcludesKeeps
  <2>4. TypeOK'
    BY <2>1, <2>3 DEF CheckGate, Invariant, TypeOK, history
  <2>5. WorkersOK'
    BY <1>1, <1>2, <2>2, <2>3, OneWorker
  <2> QED
    BY <1>2, <1>3, <2>4, <2>5 DEF Invariant
<1>5. CASE /\ attempts' = [attempts EXCEPT ![t] = Counted(@)]
           /\ worker' = [worker EXCEPT ![w].at = "create", ![w].tries = attempts'[t]]
  <2> DEFINE n == Counted(attempts[t])
             r == [worker[w] EXCEPT !.at = "create", !.tries = n]
  <2>1. n \in 0..MaxAttempts /\ attempts' \in [Tasks -> 0..MaxAttempts] /\ attempts'[t] = n
    BY <1>1, <1>5, CountedTypes DEF Invariant, TypeOK
  <2> HIDE DEF n
  <2>2. r \in WorkerState /\ r.at = "create" /\ r.task = t
    BY <1>1, <2>1 DEF WorkerState
  <2>3. worker' = [worker EXCEPT ![w] = r]
    BY <1>1, <1>5, <2>1 DEF WorkerState
  <2> HIDE DEF r
  <2>4. TypeOK'
    BY <2>1, <2>2, <2>3 DEF CheckGate, Invariant, TypeOK, history
  <2>5. WorkersOK'
    BY <1>1, <1>2, <2>2, <2>3, OneWorker DEF Invariant, TypeOK
  <2> QED
    BY <1>2, <1>3, <2>4, <2>5 DEF Invariant
<1> QED
  BY <1>4, <1>5 DEF CheckGate

LEMMA CreateSessionStep ==
  ASSUME Invariant, NEW w \in Workers, NEW c \in Calls, CreateSession(w, c)
  PROVE  Invariant' /\ Kept
<1> DEFINE t == worker[w].task
<1>1. worker[w] \in WorkerState /\ t \in Tasks /\ worker[w].at = "create"
  BY DEF Invariant, TypeOK, WorkersOK, CreateSession
<1>2. CASE HasRoom
  <2> DEFINE s == [call[c] EXCEPT !.status = "dialing", !.task = t]
             r == [worker[w] EXCEPT !.at = "dial", !.call = c]
  <2>1. call[c] \in Session /\ call[c].status = "none"
    <3>1. call[c] \in Session
      BY DEF Invariant, TypeOK
    <3>2. call[c] = NoSession
      BY DEF CreateSession
    <3>3. NoSession.status = "none"
      BY DEF NoSession
    <3> QED
      BY <3>1, <3>2, <3>3
  <2>2. s \in Session /\ s.status = "dialing"
    BY <1>1, <2>1 DEF Session, Live
  <2>3. r \in WorkerState /\ r.at = "dial" /\ r.task = t /\ r.call = c
    BY <1>1 DEF WorkerState
  <2>4. call' = [call EXCEPT ![c] = s] /\ worker' = [worker EXCEPT ![w] = r]
    BY <1>1, <1>2, <2>1 DEF CreateSession, Session, WorkerState
  <2> HIDE DEF s, r
  <2>5. Kept /\ SessionsOK' /\ call' \in [Calls -> Session] /\ call'[c] = s
    BY <2>1, <2>2, <2>4, OneSession DEF CreateSession
  <2>6. TypeOK'
    BY <1>2, <2>3, <2>4, <2>5 DEF CreateSession, Invariant, TypeOK, history
  <2>7. WorkersOK'
    BY <1>1, <2>2, <2>3, <2>4, <2>5, OneWorker DEF Invariant, TypeOK
  <2>8. HooksOK'
    BY <2>5, SameHooks DEF CreateSession
  <2> QED
    BY <2>5, <2>6, <2>7, <2>8 DEF Invariant
<1>3. CASE ~HasRoom
  <2>1. Kept /\ SessionsOK'
    BY <1>3, SameSessions DEF CreateSession
  <2>2. "scheduled" \in TaskStatus
    BY DEF TaskStatus
  <2>3. /\ worker' \in [Workers -> WorkerState]
        /\ worker'[w].at = "verdict" /\ worker'[w].verdict = "scheduled" /\ worker'[w].task = t
        /\ \A u \in Workers \ {w} : worker'[u] = worker[u]
    BY <1>1, <1>3, <2>2, ConcludesKeeps DEF CreateSession
  <2>4. attempts' \in [Tasks -> 0..MaxAttempts]
    BY <1>1, <1>3, CountedTypes DEF CreateSession, Invariant, TypeOK
  <2>5. TypeOK'
    BY <1>3, <2>3, <2>4 DEF CreateSession, Invariant, TypeOK, history
  <2>6. WorkersOK'
    BY <1>1, <2>1, <2>2, <2>3, OneWorker
  <2>7. HooksOK'
    BY <2>1, SameHooks DEF CreateSession
  <2> QED
    BY <2>1, <2>5, <2>6, <2>7 DEF Invariant
<1> QED
  BY <1>2, <1>3

LEMMA RefuseCallStep ==
  ASSUME Invariant, NEW w \in Workers, RefuseCall(w)
  PROVE  Invariant' /\ Kept
<1>1. worker[w].at = "create" /\ worker[w].task \in Tasks /\ "failed" \in TaskStatus
  BY DEF Invariant, WorkersOK, RefuseCall, TaskStatus
<1>2. Kept /\ SessionsOK'
  BY SameSessions DEF RefuseCall
<1>3. /\ worker' \in [Workers -> WorkerState]
      /\ worker'[w].at = "verdict" /\ worker'[w].verdict = "failed"
      /\ worker'[w].task = worker[w].task
      /\ \A u \in Workers \ {w} : worker'[u] = worker[u]
  BY <1>1, ConcludesKeeps DEF RefuseCall
<1>4. TypeOK'
  BY <1>3 DEF RefuseCall, Invariant, TypeOK, tasks, history
<1>5. WorkersOK'
  BY <1>1, <1>2, <1>3, OneWorker
<1>6. HooksOK'
  BY <1>2, SameHooks DEF RefuseCall
<1> QED
  BY <1>2, <1>4, <1>5, <1>6 DEF Invariant

LEMMA DialStep ==
  ASSUME Invariant, NEW w \in Workers, NEW a \in {"placed", "refused", "lost", "broken"},
         Dial(w, a)
  PROVE  Invariant' /\ Kept
<1> DEFINE c == worker[w].call
           v == CASE a = "placed" -> "pending" [] a = "refused" -> "failed"
                  [] OTHER -> RetryVerdict(w)
<1>1. /\ worker[w].at = "dial" /\ worker[w].task \in Tasks
      /\ c \in Calls /\ call[c] \in Session /\ call[c].status # "none"
  BY DEF Invariant, TypeOK, WorkersOK, Dial
<1>2. v \in TaskStatus
  BY DEF TaskStatus, RetryVerdict
<1>3. Concludes(w, v)
  BY DEF Dial
<1> HIDE DEF v
<1>4. /\ worker' \in [Workers -> WorkerState]
      /\ worker'[w].at = "verdict" /\ worker'[w].verdict = v
      /\ worker'[w].task = worker[w].task
      /\ \A u \in Workers \ {w} : worker'[u] = worker[u]
  BY <1>1, <1>2, <1>3, ConcludesKeeps
<1>5. /\ line' \in [Calls -> {"idle", "up", "down"}]
      /\ \A d \in Calls \ {c} : line'[d] = line[d]
  BY <1>1 DEF Dial, Invariant, TypeOK
<1>6. Kept /\ SessionsOK' /\ call' \in [Calls -> Session]
  <2>1. CASE UNCHANGED call
    BY <1>1, <1>5, <2>1 DEF Kept, Invariant, SessionsOK, TypeOK
  <2>2. CASE call' = [call EXCEPT ![c].status = "closed", ![c].outcome = "missed",
                                  ![c].ended = TRUE]
    <3> DEFINE s == [call[c] EXCEPT !.status = "closed", !.outcome = "missed", !.ended = TRUE]
    <3>1. s \in Session /\ s.status = "closed" /\ s.ended /\ s.task = call[c].task
      BY <1>1 DEF Session, Outcomes
    <3>2. call' = [call EXCEPT ![c] = s]
      BY <1>1, <2>2 DEF Session
    <3> HIDE DEF s
    <3> QED
      BY <1>1, <1>5, <3>1, <3>2, OneSession
  <2> QED
    BY <2>1, <2>2 DEF Dial
<1>7. TypeOK'
  <2>1. strays' \subseteq Calls
    BY <1>1 DEF Dial, Invariant, TypeOK
  <2> QED
    BY <1>4, <1>5, <1>6, <2>1 DEF Dial, Invariant, TypeOK, tasks
<1>8. WorkersOK'
  BY <1>1, <1>2, <1>4, <1>6, OneWorker
<1>9. HooksOK'
  BY <1>6, SameHooks DEF Dial
<1> QED
  BY <1>6, <1>7, <1>8, <1>9 DEF Invariant

LEMMA ConcludeStep ==
  ASSUME Invariant, NEW w \in Workers, Conclude(w)
  PROVE  Invariant' /\ Kept
<1>1. worker[w].task \in Tasks /\ worker[w].verdict \in TaskStatus
  BY DEF Invariant, WorkersOK, Conclude
<1>2. Kept /\ SessionsOK'
  BY SameSessions DEF Conclude
<1>3. worker' \in [Workers -> WorkerState] /\ worker'[w].at = "idle"
      /\ \A u \in Workers \ {w} : worker'[u] = worker[u]
  <2>1. Idle \in WorkerState /\ Idle.at = "idle"
    BY IdleTypes DEF Idle
  <2> QED
    BY <2>1 DEF Conclude, Invariant, TypeOK
<1>4. task' \in [Tasks -> TaskStatus]
  BY <1>1 DEF Conclude, Written, Invariant, TypeOK
<1>5. TypeOK'
  BY <1>3, <1>4 DEF Conclude, Invariant, TypeOK, history
<1>6. WorkersOK'
  BY <1>2, <1>3, OneWorker
<1>7. HooksOK'
  BY <1>2, SameHooks DEF Conclude
<1> QED
  BY <1>2, <1>5, <1>6, <1>7 DEF Invariant

LEMMA LoseWorkerStep ==
  ASSUME Invariant, NEW w \in Workers, LoseWorker(w)
  PROVE  Invariant' /\ Kept
<1>1. Kept /\ SessionsOK'
  BY SameSessions DEF LoseWorker
<1>2. worker' \in [Workers -> WorkerState] /\ worker'[w].at = "idle"
      /\ \A u \in Workers \ {w} : worker'[u] = worker[u]
  <2>1. Idle \in WorkerState /\ Idle.at = "idle"
    BY IdleTypes DEF Idle
  <2> QED
    BY <2>1 DEF LoseWorker, Invariant, TypeOK
<1>3. faults' \in 0..FaultBound
  BY CallAssumption DEF LoseWorker, Invariant, TypeOK
<1>4. TypeOK'
  BY <1>2, <1>3 DEF LoseWorker, Invariant, TypeOK, tasks
<1>5. WorkersOK'
  BY <1>1, <1>2, OneWorker
<1>6. HooksOK'
  BY <1>1, SameHooks DEF LoseWorker
<1> QED
  BY <1>1, <1>4, <1>5, <1>6 DEF Invariant

-----------------------------------------------------------------------------
(* The calls and their webhooks.                                           *)

LEMMA AnswerInboundStep ==
  ASSUME Invariant, NEW c \in Calls, AnswerInbound(c)
  PROVE  Invariant' /\ Kept
<1> DEFINE s == [call[c] EXCEPT !.status = "in_progress", !.answered = TRUE]
<1>1. call[c] \in Session
  BY DEF Invariant, TypeOK
<1>2. call[c].status = "none"
  BY DEF AnswerInbound, NoSession
<1>3. s \in Session /\ s.status = "in_progress"
  BY <1>1 DEF Session, Live
<1>4. call' = [call EXCEPT ![c] = s]
  BY <1>1 DEF AnswerInbound, Session
<1> HIDE DEF s
<1>5. line' \in [Calls -> {"idle", "up", "down"}] /\ \A d \in Calls \ {c} : line'[d] = line[d]
  BY DEF AnswerInbound, Invariant, TypeOK
<1>6. Kept /\ SessionsOK' /\ call' \in [Calls -> Session]
  BY <1>2, <1>3, <1>4, <1>5, OneSession
<1>7. TypeOK'
  BY <1>5, <1>6 DEF AnswerInbound, Invariant, TypeOK, tasks, history
<1>8. WorkersOK' /\ HooksOK'
  BY <1>6, SameWorkers, SameHooks DEF AnswerInbound
<1> QED
  BY <1>6, <1>7, <1>8 DEF Invariant

LEMMA LineEndsStep ==
  ASSUME Invariant, NEW c \in Calls, LineEnds(c)
  PROVE  Invariant' /\ Kept
<1>1. Kept /\ SessionsOK'
  BY DEF LineEnds, Invariant, SessionsOK, Kept, TypeOK
<1>2. TypeOK'
  BY DEF LineEnds, Invariant, TypeOK, tasks, history
<1>3. WorkersOK' /\ HooksOK'
  BY <1>1, SameWorkers, SameHooks DEF LineEnds
<1> QED
  BY <1>1, <1>2, <1>3 DEF Invariant

(* A webhook starts on a session that exists and leaves it alone.          *)
LEMMA BeginsStep ==
  ASSUME Invariant, NEW h \in Hooks, NEW c \in Calls, NEW step \in {"answer", "turn", "hangup"},
         NEW o \in Outcomes, Begins(h, c, step, o), UNCHANGED call, call[c].status # "none"
  PROVE  Invariant' /\ Kept
<1> DEFINE r == [at |-> step, call |-> c, outcome |-> o]
<1>1. r \in HookState /\ r.at = step /\ r.call = c
  BY DEF HookState
<1>2. hook' = [hook EXCEPT ![h] = r]
  BY DEF Begins
<1> HIDE DEF r
<1>3. Kept /\ SessionsOK'
  BY SameSessions DEF Begins
<1>4. TypeOK'
  BY <1>1, <1>2 DEF Begins, Invariant, TypeOK, tasks, history
<1>5. WorkersOK'
  BY <1>3, SameWorkers DEF Begins
<1>6. HooksOK'
  BY <1>1, <1>2, <1>3, OneHook DEF Invariant, TypeOK
<1> QED
  BY <1>3, <1>4, <1>5, <1>6 DEF Invariant

LEMMA ArriveStep ==
  ASSUME Invariant, NEW h \in Hooks, NEW c \in Calls, Arrive(h, c)
  PROVE  Invariant' /\ Kept
<1>1. "none" \in Outcomes /\ (call[c].status # "none" => HangupOutcome(call[c]) \in Outcomes)
  BY DEF Outcomes, HangupOutcome, Invariant, TypeOK, Session
<1>2. CASE StartAnswer(h, c)
  BY <1>1, <1>2, BeginsStep DEF StartAnswer, Invariant, SessionsOK
<1>3. CASE StartTurn(h, c)
  BY <1>1, <1>3, BeginsStep DEF StartTurn, Invariant, SessionsOK
<1>4. CASE StartHangup(h, c)
  BY <1>1, <1>4, BeginsStep DEF StartHangup
<1> QED
  BY <1>2, <1>3, <1>4 DEF Arrive

(* The webhook is over: it is about no session.                            *)
LEMMA EndsKeeps ==
  ASSUME Invariant, NEW h \in Hooks, Ends(h)
  PROVE  /\ hook' \in [Hooks -> HookState] /\ hook'[h].at = "idle"
         /\ \A k \in Hooks \ {h} : hook'[k] = hook[k]
<1>1. Done \in HookState /\ Done.at = "idle"
  BY IdleTypes DEF Done
<1> QED
  BY <1>1 DEF Ends, Invariant, TypeOK

LEMMA AnswerStep ==
  ASSUME Invariant, NEW h \in Hooks, Answer(h)
  PROVE  Invariant' /\ Kept
<1> DEFINE c == hook[h].call
           s == [call[c] EXCEPT !.status = "in_progress", !.answered = TRUE]
<1>1. c \in Calls /\ call[c] \in Session
  BY DEF Invariant, TypeOK, HooksOK, Answer
<1>2. s \in Session /\ s.status = "in_progress" /\ s.task = call[c].task
  BY <1>1 DEF Session, Live
<1>3. call' = [call EXCEPT ![c] = s]
  BY <1>1 DEF Answer, Session
<1> HIDE DEF s
<1>4. Kept /\ SessionsOK' /\ call' \in [Calls -> Session]
  BY <1>1, <1>2, <1>3, OneSession DEF Answer
<1>5. /\ hook' \in [Hooks -> HookState] /\ hook'[h].at = "idle"
      /\ \A k \in Hooks \ {h} : hook'[k] = hook[k]
  BY EndsKeeps DEF Answer
<1>6. TypeOK'
  BY <1>1, <1>4, <1>5 DEF Answer, Invariant, TypeOK, tasks
<1>7. WorkersOK' /\ HooksOK'
  BY <1>4, <1>5, SameWorkers, OneHook DEF Answer
<1> QED
  BY <1>4, <1>6, <1>7 DEF Invariant

LEMMA TurnStep ==
  ASSUME Invariant, NEW h \in Hooks, NEW o \in Outcomes, NEW b \in BOOLEAN, Turn(h, o, b)
  PROVE  Invariant' /\ Kept
<1> DEFINE c == hook[h].call
           newOutcome == IF o = "none" THEN call[c].outcome ELSE o
           newStatus == IF b THEN "transferring" ELSE call[c].status
           s == [call[c] EXCEPT !.outcome = newOutcome, !.status = newStatus]
<1>1. c \in Calls /\ call[c] \in Session /\ call[c].status # "none"
  BY DEF Invariant, TypeOK, HooksOK, Turn
<1>2. newOutcome \in Outcomes /\ newStatus \in Live \union {"closed"}
      /\ (newStatus = "closed" => call[c].ended)
  BY <1>1 DEF Session, Live, Invariant, SessionsOK
<1>3. call' = [call EXCEPT ![c] = s]
  BY <1>1 DEF Turn, Session
<1> HIDE DEF newOutcome, newStatus
<1>4. s \in Session /\ s.status # "none" /\ s.task = call[c].task
      /\ (s.status = "closed" => s.ended)
  BY <1>1, <1>2 DEF Session, Live
<1> HIDE DEF s
<1>5. Kept /\ SessionsOK' /\ call' \in [Calls -> Session]
  BY <1>1, <1>3, <1>4, OneSession DEF Turn
<1>6. /\ hook' \in [Hooks -> HookState] /\ hook'[h].at = "idle"
      /\ \A k \in Hooks \ {h} : hook'[k] = hook[k]
  BY EndsKeeps DEF Turn
<1>7. TypeOK'
  BY <1>1, <1>5, <1>6 DEF Turn, Invariant, TypeOK, tasks
<1>8. WorkersOK' /\ HooksOK'
  BY <1>5, <1>6, SameWorkers, OneHook DEF Turn
<1> QED
  BY <1>5, <1>7, <1>8 DEF Invariant

LEMMA EndSessionStep ==
  ASSUME Invariant, NEW h \in Hooks, EndSession(h)
  PROVE  Invariant' /\ Kept
<1> DEFINE c == hook[h].call
           next == IF call[c].task = NoTask THEN "emit" ELSE "settle"
           s == [call[c] EXCEPT !.status = "closed", !.ended = TRUE, !.outcome = hook[h].outcome]
           r == [hook[h] EXCEPT !.at = next]
<1>1. /\ c \in Calls /\ call[c] \in Session /\ call[c].status # "none"
      /\ hook[h] \in HookState
  BY DEF Invariant, TypeOK, HooksOK, EndSession
<1>2. s \in Session /\ s.status = "closed" /\ s.ended /\ s.task = call[c].task
  BY <1>1 DEF Session, HookState
<1>3. call' = [call EXCEPT ![c] = s] /\ hook' = [hook EXCEPT ![h] = r]
  BY <1>1 DEF EndSession, Session, HookState
<1>4. next \in {"emit", "settle"} /\ (next = "settle" => call[c].task # NoTask)
  OBVIOUS
<1> HIDE DEF s, next
<1>5. r \in HookState /\ r.at = next /\ r.call = c
  BY <1>1, <1>4 DEF HookState
<1> HIDE DEF r
<1>6. Kept /\ SessionsOK' /\ call' \in [Calls -> Session] /\ call'[c] = s
  BY <1>1, <1>2, <1>3, OneSession DEF EndSession
<1>7. TypeOK'
  BY <1>3, <1>5, <1>6 DEF EndSession, Invariant, TypeOK, tasks, history
<1>8. HooksOK'
  BY <1>1, <1>2, <1>3, <1>4, <1>5, <1>6, OneHook DEF Invariant, TypeOK
<1>9. WorkersOK'
  BY <1>6, SameWorkers DEF EndSession
<1> QED
  BY <1>6, <1>7, <1>8, <1>9 DEF Invariant

(* The task of the call is settled, if it is still to be settled.          *)
LEMMA SettleAsTypes ==
  ASSUME Invariant, NEW t \in Tasks, NEW v \in TaskStatus, SettleAs(t, v)
  PROVE  task' \in [Tasks -> TaskStatus] /\ tomorrow' \subseteq Tasks
  BY DEF SettleAs, Written, Invariant, TypeOK

LEMMA SettleStep ==
  ASSUME Invariant, NEW h \in Hooks, Settle(h)
  PROVE  Invariant' /\ Kept
<1> DEFINE c == hook[h].call
           t == call[c].task
           o == hook[h].outcome
           v == IF o = "callback" THEN "scheduled"
                ELSE IF o = "missed" THEN AfterAttempt(t) ELSE "completed"
           r == [hook[h] EXCEPT !.at = "emit"]
<1>1. /\ c \in Calls /\ call[c] \in Session /\ call[c].status # "none" /\ t # NoTask
      /\ hook[h] \in HookState
  BY DEF Invariant, TypeOK, HooksOK, Settle
<1>2. t \in Tasks /\ v \in TaskStatus
  BY <1>1 DEF Session, AfterAttempt, TaskStatus
<1>3. SettleAs(t, v)
  BY DEF Settle
<1>4. attempts' \in [Tasks -> 0..MaxAttempts]
  BY <1>2, CountedTypes DEF Settle, Invariant, TypeOK
<1> HIDE DEF v, t
<1>5. task' \in [Tasks -> TaskStatus] /\ tomorrow' \subseteq Tasks
  BY <1>2, <1>3, SettleAsTypes
<1>6. r \in HookState /\ r.at = "emit" /\ r.call = c
  BY <1>1 DEF HookState
<1>7. hook' = [hook EXCEPT ![h] = r]
  BY <1>1 DEF Settle, HookState
<1> HIDE DEF r
<1>8. Kept /\ SessionsOK'
  BY SameSessions DEF Settle
<1>9. TypeOK'
  BY <1>4, <1>5, <1>6, <1>7 DEF Settle, Invariant, TypeOK, history
<1>10. HooksOK'
  BY <1>1, <1>6, <1>7, <1>8, OneHook DEF Settle, Invariant, TypeOK
<1>11. WorkersOK'
  BY <1>8, SameWorkers DEF Settle
<1> QED
  BY <1>8, <1>9, <1>10, <1>11 DEF Invariant

LEMMA EmitStep ==
  ASSUME Invariant, NEW h \in Hooks, Emit(h)
  PROVE  Invariant' /\ Kept
<1>1. Kept /\ SessionsOK'
  BY SameSessions DEF Emit
<1>2. /\ hook' \in [Hooks -> HookState] /\ hook'[h].at = "idle"
      /\ \A k \in Hooks \ {h} : hook'[k] = hook[k]
  BY EndsKeeps DEF Emit
<1>3. completed' \in [Calls -> 0..2]
  <2>1. completed \in [Calls -> 0..2] /\ hook[h].call \in Calls
    BY DEF Emit, Invariant, TypeOK, HooksOK
  <2>2. \A n \in 0..2 : (IF n < 2 THEN n + 1 ELSE n) \in 0..2
    OBVIOUS
  <2> QED
    BY <2>1, <2>2 DEF Emit
<1>4. TypeOK'
  BY <1>2, <1>3 DEF Emit, Invariant, TypeOK, tasks
<1>5. WorkersOK' /\ HooksOK'
  BY <1>1, <1>2, SameWorkers, OneHook DEF Emit
<1> QED
  BY <1>1, <1>4, <1>5 DEF Invariant

LEMMA ReapCallStep ==
  ASSUME Invariant, NEW h \in Hooks, NEW c \in Calls, ReapCall(h, c)
  PROVE  Invariant' /\ Kept
<1> DEFINE outcome == IF call[c].outcome = "none" THEN "missed" ELSE call[c].outcome
           s == [call[c] EXCEPT !.status = "closed", !.ended = TRUE, !.outcome = outcome]
           r == IF call[c].task = NoTask THEN Done
                ELSE [at |-> "lost", call |-> c, outcome |-> "none"]
<1>1. call[c] \in Session /\ call[c].status # "none"
  BY DEF Invariant, TypeOK, ReapCall, Reapable, Live
<1>2. outcome \in Outcomes
  BY <1>1 DEF Session, Outcomes
<1>3. call' = [call EXCEPT ![c] = s]
  BY <1>1 DEF ReapCall, Session
<1> HIDE DEF outcome
<1>4. s \in Session /\ s.status = "closed" /\ s.ended /\ s.task = call[c].task
  BY <1>1, <1>2 DEF Session
<1>5. hook' = [hook EXCEPT ![h] = r]
  BY DEF ReapCall
<1>6. /\ r \in HookState /\ r.at \in {"idle", "lost"}
      /\ r.at = "lost" => r.call = c /\ call[c].task # NoTask
  BY IdleTypes DEF HookState, Done, Outcomes
<1> HIDE DEF s, r
<1>7. Kept /\ SessionsOK' /\ call' \in [Calls -> Session] /\ call'[c] = s
  BY <1>1, <1>3, <1>4, OneSession DEF ReapCall
<1>8. TypeOK'
  BY <1>5, <1>6, <1>7 DEF ReapCall, Invariant, TypeOK, tasks, history
<1>9. HooksOK'
  BY <1>1, <1>4, <1>5, <1>6, <1>7, OneHook DEF Invariant, TypeOK
<1>10. WorkersOK'
  BY <1>7, SameWorkers DEF ReapCall
<1> QED
  BY <1>7, <1>8, <1>9, <1>10 DEF Invariant

LEMMA SettleLostStep ==
  ASSUME Invariant, NEW h \in Hooks, SettleLost(h)
  PROVE  Invariant' /\ Kept
<1> DEFINE t == call[hook[h].call].task
           v == AfterAttempt(t)
<1>1. t \in Tasks /\ v \in TaskStatus
  BY DEF SettleLost, Invariant, TypeOK, HooksOK, Session, AfterAttempt, TaskStatus
<1>2. SettleAs(t, v)
  BY DEF SettleLost
<1> HIDE DEF t, v
<1>3. task' \in [Tasks -> TaskStatus] /\ tomorrow' \subseteq Tasks
  BY <1>1, <1>2, SettleAsTypes
<1>4. /\ hook' \in [Hooks -> HookState] /\ hook'[h].at = "idle"
      /\ \A k \in Hooks \ {h} : hook'[k] = hook[k]
  BY EndsKeeps DEF SettleLost
<1>5. Kept /\ SessionsOK'
  BY SameSessions DEF SettleLost
<1>6. TypeOK'
  BY <1>3, <1>4 DEF SettleLost, Invariant, TypeOK, history
<1>7. WorkersOK' /\ HooksOK'
  BY <1>4, <1>5, SameWorkers, OneHook DEF SettleLost
<1> QED
  BY <1>5, <1>6, <1>7 DEF Invariant

LEMMA LoseHookStep ==
  ASSUME Invariant, NEW h \in Hooks, LoseHook(h)
  PROVE  Invariant' /\ Kept
<1>1. stranded' \subseteq Tasks
  <2>1. hook[h].at \in {"settle", "lost"} => call[hook[h].call].task \in Tasks
    BY DEF Invariant, TypeOK, HooksOK, Session
  <2> QED
    BY <2>1 DEF LoseHook, Invariant, TypeOK
<1>2. faults' \in 0..FaultBound
  BY CallAssumption DEF LoseHook, Invariant, TypeOK
<1>3. /\ hook' \in [Hooks -> HookState] /\ hook'[h].at = "idle"
      /\ \A k \in Hooks \ {h} : hook'[k] = hook[k]
  BY EndsKeeps DEF LoseHook
<1>4. Kept /\ SessionsOK'
  BY SameSessions DEF LoseHook
<1>5. TypeOK'
  BY <1>1, <1>2, <1>3 DEF LoseHook, Invariant, TypeOK, tasks
<1>6. WorkersOK' /\ HooksOK'
  BY <1>3, <1>4, SameWorkers, OneHook DEF LoseHook
<1> QED
  BY <1>4, <1>5, <1>6 DEF Invariant

(* What changes the row of a task and nothing else.                        *)
LEMMA TaskStep ==
  ASSUME Invariant, NEW t \in Tasks, ReapTask(t) \/ RetryTask(t) \/ StopTask(t) \/ NextDay(t)
  PROVE  Invariant' /\ Kept
<1>1. UNCHANGED <<call, line, worker, hook, history>>
  BY DEF ReapTask, RetryTask, StopTask, NextDay
<1>2. Kept /\ SessionsOK'
  BY <1>1, SameSessions
<1>3. WorkersOK' /\ HooksOK'
  BY <1>1, <1>2, SameWorkers, SameHooks
<1>4. /\ task' \in [Tasks -> TaskStatus] /\ tomorrow' \subseteq Tasks
      /\ attempts' \in [Tasks -> 0..MaxAttempts]
  BY CallAssumption
  DEF ReapTask, RetryTask, StopTask, NextDay, Invariant, TypeOK, TaskStatus
<1>5. TypeOK'
  BY <1>1, <1>4 DEF Invariant, TypeOK, history
<1> QED
  BY <1>2, <1>3, <1>5 DEF Invariant

-----------------------------------------------------------------------------
LEMMA InvariantInit == Init => Invariant
<1> SUFFICES ASSUME Init PROVE Invariant
  OBVIOUS
<1>1. NoSession \in Session /\ NoSession.status = "none" /\ NoSession.task = NoTask
  BY DEF NoSession, Session, Outcomes
<1>2. Idle.at = "idle" /\ Done.at = "idle"
  BY DEF Idle, Done
<1>3. TypeOK
  BY <1>1, IdleTypes, CallAssumption DEF Init, TypeOK, TaskStatus
<1>4. WorkersOK /\ HooksOK /\ SessionsOK
  BY <1>1, <1>2 DEF Init, WorkersOK, HooksOK, SessionsOK
<1> QED
  BY <1>3, <1>4 DEF Invariant

LEMMA InvariantNext == Invariant /\ [Next]_vars => Invariant' /\ Kept
<1> SUFFICES ASSUME Invariant, [Next]_vars PROVE Invariant' /\ Kept
  OBVIOUS
<1>1. ASSUME NEW w \in Workers, Execute(w) PROVE Invariant' /\ Kept
  BY <1>1, CheckGateStep, CreateSessionStep, RefuseCallStep, DialStep, ConcludeStep DEF Execute
<1>2. ASSUME NEW h \in Hooks, Proceed(h) PROVE Invariant' /\ Kept
  BY <1>2, AnswerStep, TurnStep, EndSessionStep, SettleStep, EmitStep, SettleLostStep DEF Proceed
<1>3. CASE UNCHANGED vars
  <2>1. Kept /\ SessionsOK'
    BY <1>3, SameSessions DEF vars
  <2>2. WorkersOK' /\ HooksOK'
    BY <1>3, <2>1, SameWorkers, SameHooks DEF vars
  <2>3. TypeOK'
    BY <1>3 DEF vars, Invariant, TypeOK
  <2> QED
    BY <2>1, <2>2, <2>3 DEF Invariant
<1> QED
  BY <1>1, <1>2, <1>3, TaskStep, ClaimStep, LoseWorkerStep, AnswerInboundStep, LineEndsStep,
     LoseHookStep, ArriveStep, ReapCallStep
  DEF Next

(* Every reachable state is well typed: counters stay within the attempts of  *)
(* the task however often they are given back, and a process at work has the  *)
(* task or the session it works on.                                           *)
THEOREM TypeCorrect == Spec => []TypeOK
<1>1. Spec => []Invariant
  BY InvariantInit, InvariantNext, PTL DEF Spec
<1>2. Invariant => TypeOK
  BY DEF Invariant
<1> QED
  BY <1>1, <1>2, PTL

-----------------------------------------------------------------------------
(* A call is up only under a live session.                                 *)

(* A step of the dispatchers that takes nobody to the provider's door.     *)
LEMMA NobodyDials ==
  ASSUME LinesOK, UNCHANGED <<call, line, hook, strays>>,
         \A w \in Workers : worker'[w].at = "dial" => worker'[w] = worker[w]
  PROVE  LinesOK'
<1>1. LiveWhileUp' /\ HungUpIsDown'
  BY DEF LinesOK, LiveWhileUp, HungUpIsDown
<1>2. DialledAlone'
  BY DEF LinesOK, DialledAlone
<1> QED
  BY <1>1, <1>2 DEF LinesOK

(* A step of a webhook at work on a session, which it may write.           *)
LEMMA WebhookGoesOn ==
  ASSUME Invariant, LinesOK, NEW h \in Hooks, hook[h].at # "idle" \/ UNCHANGED call,
         UNCHANGED <<line, worker>>,
         \A k \in Hooks \ {h} : hook'[k] = hook[k],
         hook'[h].at # "hangup",
         hook'[h].at # "idle" => hook[h].at # "idle" /\ hook'[h].call = hook[h].call,
         strays \subseteq strays',
         \A c \in Calls : c # hook[h].call => call'[c] = call[c],
         \A c \in Calls \ strays' :
           line[c] = "up" /\ call[c].status \in Live => call'[c].status \in Live
  PROVE  LinesOK'
<1>1. LiveWhileUp'
  BY DEF LinesOK, LiveWhileUp
<1>2. HungUpIsDown'
  BY DEF LinesOK, HungUpIsDown
<1>3. \A w \in Workers : worker[w].at = "dial" => call'[worker[w].call] = call[worker[w].call]
  BY DEF LinesOK, DialledAlone, Invariant, WorkersOK
<1>4. \A k \in Hooks : hook'[k].at # "idle" => hook[k].at # "idle" /\ hook'[k].call = hook[k].call
  OBVIOUS
<1>5. DialledAlone'
  BY <1>3, <1>4 DEF LinesOK, DialledAlone
<1> QED
  BY <1>1, <1>2, <1>5 DEF LinesOK

LEMMA LinesDispatch ==
  ASSUME Invariant, LinesOK, NEW w \in Workers, Execute(w) \/ LoseWorker(w) \/ \E t \in Tasks : Claim(w, t)
  PROVE  LinesOK'
<1>1. worker \in [Workers -> WorkerState] /\ worker[w] \in WorkerState
  BY DEF Invariant, TypeOK
<1>2. ASSUME NEW v, Concludes(w, v), UNCHANGED <<call, line, hook, strays>>
      PROVE  LinesOK'
  <2>1. \A u \in Workers : worker'[u].at = "dial" => worker'[u] = worker[u]
    BY <1>1, <1>2 DEF Concludes, WorkerState
  <2> QED
    BY <1>2, <2>1, NobodyDials
<1>3. CASE LoseWorker(w) \/ Conclude(w)
  <2>1. Idle.at = "idle"
    BY DEF Idle
  <2>2. \A u \in Workers : worker'[u].at = "dial" => worker'[u] = worker[u]
    BY <1>1, <1>3, <2>1 DEF LoseWorker, Conclude
  <2> QED
    BY <1>3, <2>2, NobodyDials DEF LoseWorker, Conclude, history
<1>4. ASSUME NEW t \in Tasks, Claim(w, t) PROVE LinesOK'
  <2>1. \A u \in Workers : worker'[u].at = "dial" => worker'[u] = worker[u]
    BY <1>1, <1>4 DEF Claim, WorkerState
  <2> QED
    BY <1>4, <2>1, NobodyDials DEF Claim, history
<1>5. ASSUME NEW a \in {"passed", "deferred", "refused"}, CheckGate(w, a) PROVE LinesOK'
  <2>1. CASE \E v \in {"cancelled", "scheduled"} : Concludes(w, v)
    BY <1>2, <1>5, <2>1 DEF CheckGate, history
  <2>2. CASE \E n : worker' = [worker EXCEPT ![w].at = "create", ![w].tries = n]
    <3>1. \A u \in Workers : worker'[u].at = "dial" => worker'[u] = worker[u]
      BY <1>1, <2>2 DEF WorkerState
    <3> QED
      BY <1>5, <3>1, NobodyDials DEF CheckGate, history
  <2> QED
    BY <1>5, <2>1, <2>2 DEF CheckGate
<1>6. CASE RefuseCall(w)
  BY <1>2, <1>6 DEF RefuseCall, history
<1>7. ASSUME NEW c \in Calls, CreateSession(w, c) PROVE LinesOK'
  <2>1. CASE ~HasRoom
    BY <1>2, <1>7, <2>1 DEF CreateSession, history
  <2>2. CASE HasRoom
    <3>1. /\ call[c].status = "none" /\ line[c] = "idle" /\ UNCHANGED <<line, hook, strays>>
          /\ call'[c].status = "dialing" /\ \A d \in Calls \ {c} : call'[d] = call[d]
      BY <1>7, <2>2 DEF CreateSession, NoSession, Invariant, TypeOK, SessionsOK, Session, history
    <3>2. worker'[w].call = c /\ \A u \in Workers \ {w} : worker'[u] = worker[u]
      BY <1>1, <1>7, <2>2 DEF CreateSession, WorkerState
    <3>3. LiveWhileUp' /\ HungUpIsDown'
      BY <3>1 DEF LinesOK, LiveWhileUp, HungUpIsDown
    <3>4. /\ \A h \in Hooks : hook[h].at # "idle" => hook[h].call # c
          /\ \A u \in Workers : worker[u].at = "dial" => worker[u].call \in Calls \ {c}
      BY <3>1 DEF Invariant, HooksOK, WorkersOK
    <3>5. DialledAlone'
      BY <3>1, <3>2, <3>4 DEF LinesOK, DialledAlone
    <3> QED
      BY <3>3, <3>5 DEF LinesOK
  <2> QED
    BY <2>1, <2>2
<1>8. ASSUME NEW a \in {"placed", "refused", "lost", "broken"}, Dial(w, a) PROVE LinesOK'
  <2> DEFINE c == worker[w].call
  <2>1. /\ worker[w].at = "dial" /\ c \in Calls /\ call[c] \in Session
        /\ call[c].status = "dialing" /\ line[c] = "idle" /\ UNCHANGED hook
        /\ \A h \in Hooks : hook[h].at # "idle" => hook[h].call # c
        /\ \A u \in Workers \ {w} : worker[u].at = "dial" => worker[u].call # c
    BY <1>8 DEF Dial, LinesOK, DialledAlone, Invariant, WorkersOK, TypeOK
  <2>2. /\ worker'[w].at = "verdict" /\ \A u \in Workers \ {w} : worker'[u] = worker[u]
    <3>1. \E v : Concludes(w, v)
      BY <1>8 DEF Dial
    <3> QED
      BY <1>1, <3>1 DEF Concludes, WorkerState
  <2>3. /\ \A d \in Calls \ {c} : call'[d] = call[d] /\ line'[d] = line[d]
        /\ line'[c] \in {"idle", "up"} /\ strays \subseteq strays'
        /\ line'[c] = "up" => c \in strays' \/ call'[c] = call[c]
    BY <1>8, <2>1 DEF Dial, Invariant, TypeOK
  <2> HIDE DEF c
  <2>4. LiveWhileUp'
    BY <2>1, <2>3 DEF LinesOK, LiveWhileUp, Live
  <2>5. HungUpIsDown'
    BY <2>1, <2>3 DEF LinesOK, HungUpIsDown, Invariant, HooksOK
  <2>6. DialledAlone'
    BY <2>1, <2>2, <2>3 DEF LinesOK, DialledAlone, Invariant, WorkersOK
  <2> QED
    BY <2>4, <2>5, <2>6 DEF LinesOK
<1> QED
  BY <1>3, <1>4, <1>5, <1>6, <1>7, <1>8 DEF Execute

LEMMA LinesCalls ==
  ASSUME Invariant, LinesOK, NEW c \in Calls, AnswerInbound(c) \/ LineEnds(c)
  PROVE  LinesOK'
<1>1. /\ UNCHANGED <<worker, hook, strays>>
      /\ \A d \in Calls \ {c} : call'[d] = call[d] /\ line'[d] = line[d]
  BY DEF AnswerInbound, LineEnds, Invariant, TypeOK, history
<1>2. /\ call[c].status = "none" \/ line[c] = "up"
      /\ (line'[c] = "up" /\ call'[c].status = "in_progress") \/ line'[c] = "down"
  BY DEF AnswerInbound, LineEnds, NoSession, Invariant, TypeOK, Session
<1>3. LiveWhileUp'
  BY <1>1, <1>2 DEF LinesOK, LiveWhileUp, Live
<1>4. HungUpIsDown'
  BY <1>1, <1>2 DEF LinesOK, HungUpIsDown, Invariant, HooksOK
<1>5. DialledAlone'
  BY <1>1, <1>2 DEF LinesOK, DialledAlone, Invariant, WorkersOK
<1> QED
  BY <1>3, <1>4, <1>5 DEF LinesOK

LEMMA LinesArrive ==
  ASSUME Invariant, LinesOK, NEW h \in Hooks, NEW c \in Calls, Arrive(h, c)
  PROVE  LinesOK'
<1>1. /\ UNCHANGED <<call, line, worker, strays>> /\ line[c] # "idle"
      /\ \A k \in Hooks \ {h} : hook'[k] = hook[k]
      /\ hook'[h].call = c /\ (hook'[h].at = "hangup" => line[c] = "down")
  BY DEF Arrive, StartAnswer, StartTurn, StartHangup, Begins, Invariant, TypeOK, history
<1>2. LiveWhileUp' /\ HungUpIsDown'
  BY <1>1 DEF LinesOK, LiveWhileUp, HungUpIsDown
<1>3. DialledAlone'
  BY <1>1 DEF LinesOK, DialledAlone
<1> QED
  BY <1>2, <1>3 DEF LinesOK

LEMMA LinesProceed ==
  ASSUME Invariant, LinesOK, NEW h \in Hooks, Proceed(h) \/ LoseHook(h)
  PROVE  LinesOK'
<1>1. ASSUME Ends(h) PROVE hook'[h].at = "idle" /\ \A k \in Hooks \ {h} : hook'[k] = hook[k]
  BY <1>1, EndsKeeps
<1>2. CASE SettleLost(h) \/ Emit(h) \/ LoseHook(h)
  BY <1>1, <1>2, WebhookGoesOn DEF SettleLost, Emit, LoseHook, history
<1>3. CASE Settle(h)
  <2>1. /\ hook'[h].at = "emit" /\ hook'[h].call = hook[h].call
        /\ \A k \in Hooks \ {h} : hook'[k] = hook[k]
    BY <1>3 DEF Settle, Invariant, TypeOK, HookState
  <2> QED
    BY <1>3, <2>1, WebhookGoesOn DEF Settle, history
<1>4. CASE Answer(h)
  <2>1. /\ \A c \in Calls : c # hook[h].call => call'[c] = call[c]
        /\ call'[hook[h].call].status \in Live
    BY <1>4 DEF Answer, Live, Invariant, HooksOK, TypeOK, Session
  <2> QED
    BY <1>1, <1>4, <2>1, WebhookGoesOn DEF Answer
<1>5. ASSUME NEW o \in Outcomes, NEW b \in BOOLEAN, Turn(h, o, b) PROVE LinesOK'
  <2>1. /\ \A c \in Calls : c # hook[h].call => call'[c] = call[c]
        /\ call'[hook[h].call].status \in Live \union {call[hook[h].call].status}
    BY <1>5 DEF Turn, Live, Invariant, HooksOK, TypeOK, Session
  <2> QED
    BY <1>1, <1>5, <2>1, WebhookGoesOn DEF Turn
<1>6. CASE EndSession(h)
  <2>1. /\ hook'[h].at \in {"emit", "settle"} /\ hook'[h].call = hook[h].call
        /\ \A k \in Hooks \ {h} : hook'[k] = hook[k]
    BY <1>6 DEF EndSession, Invariant, TypeOK, HookState
  <2>2. /\ \A c \in Calls : c # hook[h].call => call'[c] = call[c]
        /\ line[hook[h].call] = "down"
    BY <1>6 DEF EndSession, Invariant, TypeOK, LinesOK, HungUpIsDown
  <2> QED
    BY <1>6, <2>1, <2>2, WebhookGoesOn DEF EndSession, history
<1> QED
  BY <1>2, <1>3, <1>4, <1>5, <1>6 DEF Proceed

LEMMA LinesReap ==
  ASSUME Invariant, LinesOK, NEW h \in Hooks, NEW c \in Calls, ReapCall(h, c)
  PROVE  LinesOK'
<1>1. /\ UNCHANGED <<line, worker, strays>> /\ line[c] # "up"
      /\ \A d \in Calls \ {c} : call'[d] = call[d]
      /\ \A k \in Hooks \ {h} : hook'[k] = hook[k]
      /\ \A w \in Workers : worker[w].call # c
  BY DEF ReapCall, Busy, Invariant, TypeOK, history
<1>2. hook'[h].at = "idle" \/ (hook'[h].at = "lost" /\ hook'[h].call = c)
  BY DEF ReapCall, Done, Invariant, TypeOK
<1>3. LiveWhileUp'
  BY <1>1 DEF LinesOK, LiveWhileUp
<1>4. HungUpIsDown'
  BY <1>1, <1>2 DEF LinesOK, HungUpIsDown
<1>5. DialledAlone'
  BY <1>1, <1>2 DEF LinesOK, DialledAlone, Invariant, WorkersOK
<1> QED
  BY <1>3, <1>4, <1>5 DEF LinesOK

LEMMA LinesNext == Invariant /\ LinesOK /\ [Next]_vars => LinesOK'
<1> SUFFICES ASSUME Invariant, LinesOK, [Next]_vars PROVE LinesOK'
  OBVIOUS
<1>1. CASE UNCHANGED vars
  BY <1>1, NobodyDials DEF vars
<1>2. ASSUME NEW t \in Tasks, ReapTask(t) \/ RetryTask(t) \/ StopTask(t) \/ NextDay(t)
      PROVE  LinesOK'
  BY <1>2, NobodyDials DEF ReapTask, RetryTask, StopTask, NextDay, history
<1> QED
  BY <1>1, <1>2, LinesDispatch, LinesCalls, LinesArrive, LinesProceed, LinesReap DEF Next

-----------------------------------------------------------------------------
(* The cap.  Only create_session adds a call to those on the line, and it has *)
(* counted at least those, the strays aside, under its lock.                  *)

Tracked == OnTheLine \ strays
Active == {c \in Calls : call[c].status \in Live}

LEMMA TrackedIsActive ==
  ASSUME LinesOK
  PROVE  /\ IsFiniteSet(Tracked) /\ Cardinality(Tracked) \in Nat /\ CountActive \in Nat
         /\ Cardinality(Tracked) <= CountActive
<1>1. Active \in SUBSET Calls /\ Tracked \in SUBSET Active
  BY DEF Active, Tracked, OnTheLine, LinesOK, LiveWhileUp
<1>2. IsFiniteSet(Active) /\ IsFiniteSet(Tracked)
  BY <1>1, FS_Subset, CallAssumption
<1>3. Cardinality(Active) \in Nat /\ Cardinality(Tracked) \in Nat
  BY <1>2, FS_CardinalityType
<1>4. Cardinality(Tracked) <= Cardinality(Active)
  BY <1>1, <1>2, FS_Subset
<1> QED
  BY <1>2, <1>3, <1>4 DEF Active, CountActive

(* Whoever else writes a session leaves it out of the count if it was: an     *)
(* answer or a turn that comes after the end makes the session a stray.       *)
LEMMA NobodyElseAdds ==
  ASSUME Invariant, LinesOK, [Next]_vars,
         ~\E w \in Workers, c \in Calls : CreateSession(w, c) /\ HasRoom
  PROVE  Tracked' \subseteq Tracked
<1>1. CASE UNCHANGED <<call, line, strays>>
  BY <1>1 DEF Tracked, OnTheLine
<1>2. ASSUME NEW w \in Workers, NEW a \in {"placed", "refused", "lost", "broken"}, Dial(w, a)
      PROVE  Tracked' \subseteq Tracked
  <2> DEFINE c == worker[w].call
  <2>1. c \in Calls /\ call[c] \in Session /\ call[c].status \in Live
    BY <1>2 DEF Dial, Live, LinesOK, DialledAlone, Invariant, TypeOK, WorkersOK
  <2>2. /\ \A d \in Calls \ {c} : call'[d] = call[d] /\ line'[d] = line[d]
        /\ call'[c].task = call[c].task /\ strays \subseteq strays'
    BY <1>2, <2>1 DEF Dial, Invariant, TypeOK, Session
  <2> QED
    BY <2>1, <2>2 DEF Tracked, OnTheLine
<1>3. ASSUME NEW c \in Calls, AnswerInbound(c) \/ LineEnds(c) PROVE Tracked' \subseteq Tracked
  <2>1. /\ UNCHANGED strays
        /\ \A d \in Calls \ {c} : call'[d] = call[d] /\ line'[d] = line[d]
        /\ call'[c].task = NoTask \/ (UNCHANGED call /\ line'[c] = "down")
    BY <1>3 DEF AnswerInbound, LineEnds, NoSession, Invariant, TypeOK, Session, history
  <2> QED
    BY <2>1 DEF Tracked, OnTheLine
<1>4. ASSUME NEW h \in Hooks, NEW c \in Calls, UNCHANGED line, strays \subseteq strays',
             \A d \in Calls \ {c} : call'[d] = call[d],
             call'[c].task = call[c].task,
             call'[c].status \in Live => call[c].status \in Live \/ c \in strays'
      PROVE  Tracked' \subseteq Tracked
  BY <1>4 DEF Tracked, OnTheLine
<1>5. ASSUME NEW h \in Hooks, Answer(h) \/ \E o \in Outcomes, b \in BOOLEAN : Turn(h, o, b)
      PROVE  Tracked' \subseteq Tracked
  <2> DEFINE c == hook[h].call
  <2>1. /\ c \in Calls /\ call[c] \in Session
        /\ call[c].status \in Live \/ call[c].ended
    BY <1>5 DEF Answer, Turn, Live, Invariant, TypeOK, HooksOK, SessionsOK, Session
  <2>2. /\ \A d \in Calls \ {c} : call'[d] = call[d]
        /\ call'[c].task = call[c].task /\ strays \subseteq strays' /\ UNCHANGED line
        /\ call'[c].status = call[c].status \/ call[c].status \in Live \/ c \in strays'
    <3>1. CASE Answer(h)
      BY <2>1, <3>1 DEF Answer, Invariant, TypeOK, Session
    <3>2. ASSUME NEW o \in Outcomes, NEW b \in BOOLEAN, Turn(h, o, b)
          PROVE  /\ \A d \in Calls \ {c} : call'[d] = call[d]
                 /\ call'[c].task = call[c].task /\ strays \subseteq strays' /\ UNCHANGED line
                 /\ \/ call'[c].status = call[c].status
                    \/ call[c].status \in Live \/ c \in strays'
      BY <2>1, <3>2 DEF Turn, Invariant, TypeOK, Session
    <3> QED
      BY <1>5, <3>1, <3>2
  <2> QED
    BY <1>4, <2>1, <2>2
<1>6. ASSUME NEW h \in Hooks, EndSession(h) PROVE Tracked' \subseteq Tracked
  <2> DEFINE c == hook[h].call
  <2>1. c \in Calls /\ call[c] \in Session
    BY <1>6 DEF EndSession, Invariant, TypeOK, HooksOK
  <2>2. /\ \A d \in Calls \ {c} : call'[d] = call[d]
        /\ call'[c].task = call[c].task /\ UNCHANGED <<line, strays>>
        /\ call'[c].status = "closed"
    BY <1>6, <2>1 DEF EndSession, Invariant, TypeOK, Session, history
  <2> QED
    BY <1>4, <2>1, <2>2 DEF Live
<1>7. ASSUME NEW h \in Hooks, NEW c \in Calls, ReapCall(h, c) PROVE Tracked' \subseteq Tracked
  <2>1. /\ \A d \in Calls \ {c} : call'[d] = call[d]
        /\ call'[c].task = call[c].task /\ UNCHANGED <<line, strays>>
        /\ call'[c].status = "closed"
    BY <1>7 DEF ReapCall, Invariant, TypeOK, Session, history
  <2> QED
    BY <1>4, <2>1 DEF Live
<1>8. \/ UNCHANGED <<call, line, strays>>
      \/ \E w \in Workers, a \in {"placed", "refused", "lost", "broken"} : Dial(w, a)
      \/ \E c \in Calls : AnswerInbound(c) \/ LineEnds(c)
      \/ \E h \in Hooks : Answer(h) \/ EndSession(h)
      \/ \E h \in Hooks, o \in Outcomes, b \in BOOLEAN : Turn(h, o, b)
      \/ \E h \in Hooks, c \in Calls : ReapCall(h, c)
  <2>1. CASE UNCHANGED vars
    BY <2>1 DEF vars
  <2>2. ASSUME NEW t \in Tasks, ReapTask(t) \/ RetryTask(t) \/ StopTask(t) \/ NextDay(t)
        PROVE  UNCHANGED <<call, line, strays>>
    BY <2>2 DEF ReapTask, RetryTask, StopTask, NextDay, history
  <2>3. ASSUME NEW w \in Workers, LoseWorker(w) \/ \E t \in Tasks : Claim(w, t)
        PROVE  UNCHANGED <<call, line, strays>>
    BY <2>3 DEF LoseWorker, Claim, history
  <2>4. ASSUME NEW w \in Workers, Execute(w)
        PROVE  \/ UNCHANGED <<call, line, strays>>
               \/ \E a \in {"placed", "refused", "lost", "broken"} : Dial(w, a)
    BY <2>4 DEF Execute, CheckGate, CreateSession, RefuseCall, Conclude, history
  <2>5. ASSUME NEW h \in Hooks, Proceed(h) \/ LoseHook(h)
        PROVE  \/ UNCHANGED <<call, line, strays>> \/ Answer(h) \/ EndSession(h)
               \/ \E o \in Outcomes, b \in BOOLEAN : Turn(h, o, b)
    BY <2>5 DEF Proceed, LoseHook, Settle, Emit, SettleLost, history
  <2>6. ASSUME NEW h \in Hooks, NEW c \in Calls, Arrive(h, c)
        PROVE  UNCHANGED <<call, line, strays>>
    BY <2>6 DEF Arrive, StartAnswer, StartTurn, StartHangup, Begins, history
  <2> QED
    BY <2>1, <2>2, <2>3, <2>4, <2>5, <2>6 DEF Next
<1> QED
  BY <1>1, <1>2, <1>3, <1>5, <1>6, <1>7, <1>8

LEMMA CapNext == Invariant /\ LinesOK /\ CapHolds /\ [Next]_vars => CapHolds'
<1> SUFFICES ASSUME Invariant, LinesOK, CapHolds, [Next]_vars PROVE CapHolds'
  OBVIOUS
<1>1. Limit \in Nat
  BY CallAssumption
<1>2. CASE \E w \in Workers, c \in Calls : CreateSession(w, c) /\ HasRoom
  <2>1. PICK w \in Workers, c \in Calls : CreateSession(w, c) /\ HasRoom
    BY <1>2
  <2>2. Tracked' \in SUBSET (Tracked \union {c})
    BY <2>1 DEF CreateSession, Tracked, OnTheLine, Invariant, TypeOK, history
  <2>3. /\ IsFiniteSet(Tracked \union {c})
        /\ Cardinality(Tracked \union {c}) \in Nat
        /\ Cardinality(Tracked \union {c}) <= Cardinality(Tracked) + 1
    <3> DEFINE grown == Tracked \union {c}
    <3>1. IsFiniteSet(Tracked) /\ Cardinality(Tracked) \in Nat
      BY TrackedIsActive
    <3>2. /\ IsFiniteSet(grown)
          /\ Cardinality(grown) = IF c \in Tracked THEN Cardinality(Tracked)
                                                   ELSE Cardinality(Tracked) + 1
      BY <3>1, FS_AddElement
    <3> HIDE DEF grown
    <3>3. /\ IsFiniteSet(grown)
          /\ Cardinality(grown) \in Nat
          /\ Cardinality(grown) <= Cardinality(Tracked) + 1
      BY <3>1, <3>2
    <3> QED
      BY <3>3 DEF grown
  <2>4. Cardinality(Tracked) < Limit /\ Cardinality(Tracked) \in Nat
    BY <1>1, <2>1, TrackedIsActive DEF HasRoom
  <2>5. Cardinality(Tracked') <= Cardinality(Tracked \union {c}) /\ Cardinality(Tracked') \in Nat
    BY <2>2, <2>3, FS_Subset, FS_CardinalityType
  <2>6. Cardinality(Tracked') <= Limit
    BY <1>1, <2>3, <2>4, <2>5
  <2> QED
    BY <2>6 DEF CapHolds, Tracked
<1>3. CASE ~\E w \in Workers, c \in Calls : CreateSession(w, c) /\ HasRoom
  <2>1. Tracked' \in SUBSET Tracked
    BY <1>3, NobodyElseAdds
  <2>2. Cardinality(Tracked') <= Cardinality(Tracked) /\ Cardinality(Tracked') \in Nat
    BY <2>1, TrackedIsActive, FS_Subset, FS_CardinalityType
  <2>3. Cardinality(Tracked) <= Limit /\ Cardinality(Tracked) \in Nat
    BY TrackedIsActive DEF CapHolds, Tracked
  <2>4. Cardinality(Tracked') <= Limit
    BY <1>1, <2>2, <2>3
  <2> QED
    BY <2>4 DEF CapHolds, Tracked
<1> QED
  BY <1>2, <1>3

(* max_concurrent_calls bounds the outbound calls that are up or live, for    *)
(* any number of dispatchers, sessions and webhooks, because the count and    *)
(* the insert of create_session are one step and no call is up without a live *)
(* session; but for the calls that rang although place_call raised, and the   *)
(* sessions a late webhook set live again.                                    *)
THEOREM CapIsKept == Spec => []CapHolds
<1>1. Init => CapHolds /\ LinesOK
  <2> SUFFICES ASSUME Init PROVE CapHolds /\ LinesOK
    OBVIOUS
  <2>1. NoSession.status = "none" /\ NoSession.task = NoTask /\ Idle.at = "idle" /\ Done.at = "idle"
    BY DEF NoSession, Idle, Done
  <2>2. OnTheLine \ strays = {}
    BY <2>1 DEF Init, OnTheLine, Live
  <2>3. CapHolds
    BY <2>2, FS_EmptySet, CallAssumption DEF CapHolds
  <2>4. LinesOK
    BY <2>1 DEF Init, LinesOK, LiveWhileUp, HungUpIsDown, DialledAlone
  <2> QED
    BY <2>3, <2>4
<1>2. Spec => [](Invariant /\ LinesOK /\ CapHolds)
  BY <1>1, InvariantInit, InvariantNext, LinesNext, CapNext, PTL DEF Spec
<1> QED
  BY <1>2, PTL
=============================================================================
