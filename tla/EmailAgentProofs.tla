-------------------------- MODULE EmailAgentProofs --------------------------
(***************************************************************************)
(* The e-mail channel sends one copy and never what was discarded, for any *)
(* number of steps, workers, staff and attempts: whoever approves, expires,*)
(* retries or dies in between, a step that nobody reaped has one process   *)
(* that may send it.                                                       *)
(***************************************************************************)
EXTENDS EmailAgent, TLAPS

(* A step in one of these statuses may be given to a worker again.            *)
Claimable == {"scheduled", "failed", "escalated"}

(* Whoever may send the step's message, or make the step claimable again.     *)
OnTheWay == {"gate", "prepare", "compose", "send", "sender", "deliver", "mark_sent", "record"}
Active(p, t) ==
  /\ process[p].task = t
  /\ \/ process[p].at \in OnTheWay
     \/ process[p].at = "verdict" /\ process[p].verdict \in Claimable

(* A process has a step in hand exactly while it is not idle.                 *)
Busy(s) == s.at # "idle" /\ s.task \in Tasks /\ (s.at = "verdict" => s.verdict \in TaskStatus)
ProcessesOK == \A p \in Processes : process[p] = Idle \/ Busy(process[p])

(* A message someone has found sendable is past its draft for good.           *)
Gone == {"approved", "sending", "sent", "failed"}
PastDraft ==
  \A p \in Processes, t \in Tasks :
    At(p, "sender", t) \/ At(p, "deliver", t) \/ At(p, "mark_sent", t) => message[t] \in Gone

(* Of a step that was not reaped, and whose provider always answered: one     *)
(* process is on the way, nobody else can set out while it is or while there  *)
(* is a draft, the message follows its sender, and once a copy is out the     *)
(* message says so, or will not be sent by anybody.                           *)
Follows(p, t) ==
  /\ At(p, "sender", t) => message[t] \in Sendable
  /\ At(p, "deliver", t) => message[t] = "sending"
  /\ At(p, "record", t) => message[t] = "sent"
CopyOut(t) ==
  \/ accepted[t] = 0
  \/ accepted[t] = 1 /\ message[t] = "sent"
  \/ /\ accepted[t] = 1 /\ message[t] = "sending" /\ task[t] \notin Claimable
     /\ \A p \in Processes : Active(p, t) => process[p].at = "mark_sent"
OneSender(t) ==
  /\ \A p, q \in Processes : Active(p, t) /\ Active(q, t) => p = q
  /\ \A p \in Processes : Active(p, t) => task[t] \notin Claimable /\ message[t] # "draft"
  /\ message[t] = "draft" => task[t] \notin Claimable
  /\ \A p \in Processes : Follows(p, t)
  /\ CopyOut(t)

Typed == TypeOK /\ ProcessesOK
Inv == Typed /\ PastDraft /\ \A t \in Tasks \ retried : OneSender(t)

-----------------------------------------------------------------------------
(* What a process becomes.                                                    *)

LEMMA IdleTyped == Idle \in ProcessState /\ Idle.at = "idle" /\ Idle.task = NoTask /\ Idle.verdict = "none"
  BY EmailAssumption DEF Idle, ProcessState, Step, TaskStatus

LEMMA GoesTo ==
  ASSUME TypeOK, NEW p \in Processes, NEW step \in Step, Goes(p, step)
  PROVE  /\ process' \in [Processes -> ProcessState]
         /\ process'[p] = [at |-> step, task |-> process[p].task,
                           verdict |-> process[p].verdict, tries |-> process[p].tries]
         /\ \A q \in Processes : q # p => process'[q] = process[q]
<1>1. process \in [Processes -> ProcessState] /\ process[p] \in ProcessState
  BY DEF TypeOK
<1>2. process' = [process EXCEPT ![p] = [process[p] EXCEPT !.at = step]]
  BY <1>1 DEF Goes
<1>3. [process[p] EXCEPT !.at = step] =
        [at |-> step, task |-> process[p].task,
         verdict |-> process[p].verdict, tries |-> process[p].tries]
  BY <1>1 DEF ProcessState
<1>4. [process[p] EXCEPT !.at = step] \in ProcessState
  BY <1>1 DEF ProcessState
<1> QED BY <1>1, <1>2, <1>3, <1>4

LEMMA ConcludedRecord ==
  ASSUME NEW s, s = [at |-> s.at, task |-> s.task, verdict |-> s.verdict, tries |-> s.tries],
         NEW v
  PROVE  [s EXCEPT !.at = "verdict", !.verdict = v, !.tries = 0] =
           [at |-> "verdict", task |-> s.task, verdict |-> v, tries |-> 0]
<1> DEFINE u == [at |-> "verdict", task |-> s.task, verdict |-> s.verdict, tries |-> s.tries]
           w == [at |-> "verdict", task |-> s.task, verdict |-> v, tries |-> s.tries]
<1>1. [s EXCEPT !.at = "verdict"] = u
  OBVIOUS
<1>2. [u EXCEPT !.verdict = v] = w
  OBVIOUS
<1>3. [w EXCEPT !.tries = 0] = [at |-> "verdict", task |-> s.task, verdict |-> v, tries |-> 0]
  OBVIOUS
<1> HIDE DEF u, w
<1> QED BY ONLY <1>1, <1>2, <1>3, Zenon

LEMMA StartedRecord ==
  ASSUME NEW step, NEW t
  PROVE  [Idle EXCEPT !.at = step, !.task = t] =
           [at |-> step, task |-> t, verdict |-> "none", tries |-> 0]
<1> DEFINE u == [at |-> step, task |-> NoTask, verdict |-> "none", tries |-> 0]
<1>1. [Idle EXCEPT !.at = step] = u
  BY DEF Idle
<1>2. [u EXCEPT !.task = t] = [at |-> step, task |-> t, verdict |-> "none", tries |-> 0]
  OBVIOUS
<1> HIDE DEF u
<1> QED BY ONLY <1>1, <1>2, Zenon

LEMMA ConcludesWith ==
  ASSUME TypeOK, NEW p \in Processes, NEW v \in TaskStatus, Concludes(p, v)
  PROVE  /\ process' \in [Processes -> ProcessState]
         /\ process'[p] = [at |-> "verdict", task |-> process[p].task, verdict |-> v, tries |-> 0]
         /\ \A q \in Processes : q # p => process'[q] = process[q]
<1>1. process \in [Processes -> ProcessState] /\ process[p] \in ProcessState
  BY DEF TypeOK
<1> DEFINE s == [at |-> "verdict", task |-> process[p].task, verdict |-> v, tries |-> 0]
<1>2. process' = [process EXCEPT ![p] = [process[p] EXCEPT !.at = "verdict", !.verdict = v, !.tries = 0]]
  BY <1>1 DEF Concludes
<1>6. process[p] = [at |-> process[p].at, task |-> process[p].task,
                    verdict |-> process[p].verdict, tries |-> process[p].tries]
  BY <1>1 DEF ProcessState
<1>3. [process[p] EXCEPT !.at = "verdict", !.verdict = v, !.tries = 0] = s
  BY <1>6, ConcludedRecord, Zenon
<1>4. s \in ProcessState
  BY <1>1, EmailAssumption DEF ProcessState, Step
<1> HIDE DEF s
<1>5. process' = [process EXCEPT ![p] = s]
  BY <1>2, <1>3
<1>7. process'[p] = s /\ process' \in [Processes -> ProcessState]
      /\ \A q \in Processes : q # p => process'[q] = process[q]
  BY <1>1, <1>4, <1>5
<1> QED BY <1>7 DEF s

LEMMA StartsAt ==
  ASSUME TypeOK, NEW p \in Processes, NEW t \in Tasks, NEW step \in Step,
         process[p] = Idle, Starts(p, t, step)
  PROVE  /\ process' \in [Processes -> ProcessState]
         /\ process'[p] = [at |-> step, task |-> t, verdict |-> "none", tries |-> 0]
         /\ \A q \in Processes : q # p => process'[q] = process[q]
<1>1. process \in [Processes -> ProcessState] /\ process[p] \in ProcessState
  BY DEF TypeOK
<1> DEFINE s == [at |-> step, task |-> t, verdict |-> "none", tries |-> 0]
<1>2. process' = [process EXCEPT ![p] = [Idle EXCEPT !.at = step, !.task = t]]
  BY <1>1 DEF Starts
<1>3. [Idle EXCEPT !.at = step, !.task = t] = s
  BY StartedRecord, Zenon
<1>4. s \in ProcessState
  BY EmailAssumption DEF ProcessState
<1> HIDE DEF s
<1>5. process' = [process EXCEPT ![p] = s]
  BY <1>2, <1>3
<1>7. process'[p] = s /\ process' \in [Processes -> ProcessState]
      /\ \A q \in Processes : q # p => process'[q] = process[q]
  BY <1>1, <1>4, <1>5
<1> QED BY <1>7 DEF s

LEMMA EndsIdle ==
  ASSUME TypeOK, NEW p \in Processes, Ends(p)
  PROVE  /\ process' \in [Processes -> ProcessState]
         /\ process'[p] = Idle
         /\ \A q \in Processes : q # p => process'[q] = process[q]
  BY IdleTyped DEF Ends, TypeOK

(* The same, field by field. *)
LEMMA WentTo ==
  ASSUME TypeOK, NEW p \in Processes, NEW step \in Step, Goes(p, step)
  PROVE  /\ process' \in [Processes -> ProcessState]
         /\ process'[p].at = step /\ process'[p].task = process[p].task
         /\ \A q \in Processes : q # p => process'[q] = process[q]
<1>1. /\ process' \in [Processes -> ProcessState]
      /\ process'[p] = [at |-> step, task |-> process[p].task,
                        verdict |-> process[p].verdict, tries |-> process[p].tries]
      /\ \A q \in Processes : q # p => process'[q] = process[q]
  BY GoesTo
<1> QED BY ONLY <1>1

LEMMA Concluded ==
  ASSUME TypeOK, NEW p \in Processes, NEW v \in TaskStatus, Concludes(p, v)
  PROVE  /\ process' \in [Processes -> ProcessState]
         /\ process'[p].at = "verdict" /\ process'[p].task = process[p].task
         /\ process'[p].verdict = v
         /\ \A q \in Processes : q # p => process'[q] = process[q]
<1>1. /\ process' \in [Processes -> ProcessState]
      /\ process'[p] = [at |-> "verdict", task |-> process[p].task, verdict |-> v, tries |-> 0]
      /\ \A q \in Processes : q # p => process'[q] = process[q]
  BY ConcludesWith
<1> QED BY ONLY <1>1

-----------------------------------------------------------------------------
(* One process takes one step for one task: the others and theirs stay as     *)
(* they are.                                                                  *)

LEMMA OtherTask ==
  ASSUME Typed, NEW p \in Processes, NEW u \in Tasks, OneSender(u),
         \A q \in Processes : q # p => process'[q] = process[q],
         process'[p].task # u,
         task'[u] = task[u], message'[u] = message[u], accepted'[u] = accepted[u]
  PROVE  OneSender(u)'
<1>1. \A q \in Processes :
        /\ Active(q, u)' => Active(q, u) /\ process'[q] = process[q]
        /\ At(q, "sender", u)' => At(q, "sender", u)
        /\ At(q, "deliver", u)' => At(q, "deliver", u)
        /\ At(q, "record", u)' => At(q, "record", u)
  BY DEF Active, At
<1>2. \A q \in Processes : Follows(q, u)'
  BY <1>1 DEF OneSender, Follows
<1>3. CopyOut(u)'
  BY <1>1 DEF OneSender, CopyOut
<1> QED BY <1>1, <1>2, <1>3 DEF OneSender

LEMMA StepInv ==
  ASSUME Inv, TypeOK', NEW p \in Processes, NEW t \in Tasks,
         \A q \in Processes : q # p => process'[q] = process[q],
         process'[p] = Idle \/ (Busy(process'[p]) /\ process'[p].task = t),
         \A u \in Tasks \ {t} :
           task'[u] = task[u] /\ message'[u] = message[u] /\ accepted'[u] = accepted[u],
         retried \subseteq retried',
         message[t] \in Gone => message'[t] \in Gone,
         process'[p].at \in {"sender", "deliver", "mark_sent"} => message'[t] \in Gone,
         t \notin retried' => OneSender(t)'
  PROVE  Inv'
<1>1. ProcessesOK'
  BY DEF Inv, Typed, ProcessesOK, Busy
<1>2. PastDraft'
  <2> SUFFICES ASSUME NEW q \in Processes, NEW u \in Tasks,
                      At(q, "sender", u)' \/ At(q, "deliver", u)' \/ At(q, "mark_sent", u)'
               PROVE  message'[u] \in Gone
    BY DEF PastDraft
  <2>1. CASE q = p
    <3>1. u = t
      BY <2>1, IdleTyped DEF At
    <3> QED BY <2>1, <3>1 DEF At
  <2>2. CASE q # p
    <3>1. At(q, "sender", u) \/ At(q, "deliver", u) \/ At(q, "mark_sent", u)
      BY <2>2 DEF At
    <3>2. message[u] \in Gone
      BY <3>1 DEF Inv, PastDraft
    <3>3. u # t => message'[u] = message[u]
      OBVIOUS
    <3> QED BY <3>2, <3>3
  <2> QED BY <2>1, <2>2
<1>3. ASSUME NEW u \in Tasks, u \notin retried' PROVE OneSender(u)'
  <2>1. CASE u = t
    BY <1>3, <2>1
  <2>2. CASE u # t
    <3>1. OneSender(u) /\ Typed
      BY <1>3 DEF Inv
    <3>2. process'[p].task # u
      BY <2>2, IdleTyped, EmailAssumption DEF Busy
    <3>3. task'[u] = task[u] /\ message'[u] = message[u] /\ accepted'[u] = accepted[u]
      BY <2>2
    <3> QED BY <3>1, <3>2, <3>3, OtherTask
  <2> QED BY <2>1, <2>2
<1> QED BY <1>1, <1>2, <1>3 DEF Inv, Typed

(* What a process in the middle of a step knows of it.                        *)
LEMMA InHand ==
  ASSUME Inv, NEW p \in Processes, NEW t \in Tasks, NEW step, At(p, step, t), step # "idle"
  PROVE  /\ process[p] \in ProcessState /\ Busy(process[p]) /\ process[p].task = t
         /\ process[p] # Idle
         /\ message \in [Tasks -> MessageStatus] /\ task \in [Tasks -> TaskStatus]
         /\ t \notin retried => OneSender(t)
  BY IdleTyped DEF Inv, Typed, TypeOK, ProcessesOK, At

-----------------------------------------------------------------------------
(* The worker.                                                                *)

LEMMA ClaimInv == ASSUME Inv, NEW w \in Workers, NEW t \in Tasks, Claim(w, t) PROVE Inv'
<1>1. /\ w \in Processes /\ TypeOK /\ "gate" \in Step /\ process[w] = Idle
      /\ task[t] = "scheduled" /\ task' = [task EXCEPT ![t] = "in_progress"]
      /\ UNCHANGED <<attempts, message, stopped, faults, accepted, retried, stranded>>
  BY DEF Claim, Inv, Typed, Processes, Step, history
<1>2. /\ process' \in [Processes -> ProcessState]
      /\ process'[w] = [at |-> "gate", task |-> t, verdict |-> "none", tries |-> 0]
      /\ \A q \in Processes : q # w => process'[q] = process[q]
  BY <1>1, StartsAt DEF Claim
<1>3. process'[w].at = "gate" /\ process'[w].task = t
  BY <1>2
<1>4. TypeOK'
  BY <1>1, <1>2 DEF TypeOK, TaskStatus
<1>5. task'[t] = "in_progress" /\ \A u \in Tasks \ {t} : task'[u] = task[u]
  BY <1>1 DEF TypeOK
<1>6. ASSUME t \notin retried' PROVE OneSender(t)'
  <2>1. OneSender(t) /\ t \notin retried
    BY <1>1, <1>6 DEF Inv
  <2>2. \A q \in Processes : ~Active(q, t)
    BY <1>1, <2>1 DEF OneSender, Claimable
  <2>3. \A q \in Processes : q # w => ~Active(q, t)' /\ Follows(q, t)'
    BY <1>1, <1>2, <2>1, <2>2 DEF Active, OneSender, Follows, At
  <2>7. task[t] \in Claimable
    BY <1>1 DEF Claimable
  <2>8. message[t] # "draft" /\ CopyOut(t)
    BY <2>1, <2>7 DEF OneSender
  <2>4. message[t] # "draft" /\ (accepted[t] = 0 \/ (accepted[t] = 1 /\ message[t] = "sent"))
    BY <2>7, <2>8 DEF CopyOut
  <2>5. Follows(w, t)'
    BY <1>3 DEF Follows, At
  <2>6. \A q \in Processes : Active(q, t)' => q = w
    BY <2>3
  <2> QED BY <1>1, <1>5, <2>3, <2>4, <2>5, <2>6 DEF OneSender, CopyOut, Claimable
<1>7. Busy(process'[w])
  BY <1>3 DEF Busy
<1> QED BY <1>1, <1>2, <1>3, <1>4, <1>5, <1>6, <1>7, StepInv

(* A process goes on, or stops, and writes no row. *)
LEMMA MovesOn ==
  ASSUME Inv, TypeOK', NEW p \in Processes, NEW t \in Tasks,
         \A q \in Processes : q # p => process'[q] = process[q],
         process'[p] = Idle \/ (Busy(process'[p]) /\ process'[p].task = t),
         UNCHANGED <<task, message, accepted, retried>>,
         process'[p].at \in {"sender", "deliver", "mark_sent"} => message[t] \in Gone,
         Active(p, t)' => Active(p, t) /\ process[p].at # "mark_sent",
         t \notin retried => Follows(p, t)'
  PROVE  Inv'
<1>1. ASSUME t \notin retried' PROVE OneSender(t)'
  <2>1. OneSender(t) /\ Follows(p, t)'
    BY <1>1 DEF Inv
  <2>2. \A q \in Processes : Active(q, t)' => Active(q, t)
    BY DEF Active
  <2>3. \A q \in Processes : Follows(q, t)'
    <3> SUFFICES ASSUME NEW q \in Processes, q # p PROVE Follows(q, t)'
      BY <2>1
    <3>1. Follows(q, t)
      BY <2>1 DEF OneSender
    <3> QED BY <3>1 DEF Follows, At
  <2>4. CopyOut(t)'
    <3>1. CopyOut(t)
      BY <2>1 DEF OneSender
    <3>2. \A q \in Processes : Active(q, t)' => q # p \/ process[p].at # "mark_sent"
      OBVIOUS
    <3>3. CASE accepted[t] = 0 \/ (accepted[t] = 1 /\ message[t] = "sent")
      BY <3>3 DEF CopyOut
    <3>4. CASE /\ accepted[t] = 1 /\ message[t] = "sending" /\ task[t] \notin Claimable
               /\ \A q \in Processes : Active(q, t) => process[q].at = "mark_sent"
      <4>1. ~Active(p, t)'
        BY <3>4
      <4>2. \A q \in Processes : Active(q, t)' => process'[q].at = "mark_sent"
        BY <2>2, <3>4, <4>1
      <4> QED BY <3>4, <4>2 DEF CopyOut
    <3> QED BY <3>1, <3>3, <3>4 DEF CopyOut
  <2>5. \A q, r \in Processes : Active(q, t)' /\ Active(r, t)' => q = r
    BY <2>1, <2>2 DEF OneSender
  <2>6. \A q \in Processes : Active(q, t)' => task'[t] \notin Claimable /\ message'[t] # "draft"
    BY <2>1, <2>2 DEF OneSender
  <2>7. message'[t] = "draft" => task'[t] \notin Claimable
    BY <2>1 DEF OneSender
  <2> QED BY <2>3, <2>4, <2>5, <2>6, <2>7 DEF OneSender
<1>2. \A u \in Tasks \ {t} :
        task'[u] = task[u] /\ message'[u] = message[u] /\ accepted'[u] = accepted[u]
  OBVIOUS
<1>3. /\ retried \subseteq retried' /\ (message[t] \in Gone => message'[t] \in Gone)
      /\ process'[p].at \in {"sender", "deliver", "mark_sent"} => message'[t] \in Gone
  OBVIOUS
<1> QED BY <1>1, <1>2, <1>3, StepInv

(* A verdict, or the end, of a process that was on the way. *)
LEMMA ConcludesInv ==
  ASSUME Inv, NEW p \in Processes, NEW t \in Tasks, NEW step \in OnTheWay \ {"mark_sent"},
         At(p, step, t), NEW v \in TaskStatus, Concludes(p, v),
         UNCHANGED <<task, message, accepted, retried, stopped>>,
         attempts' \in [Tasks -> 0..MaxAttempts], stranded' \subseteq Tasks,
         faults' \in 0..FaultBound
  PROVE  Inv'
<1>1. TypeOK /\ process[p].task = t /\ Active(p, t) /\ process[p].at # "mark_sent"
  BY DEF Inv, Typed, At, Active
<1>2. /\ process' \in [Processes -> ProcessState]
      /\ process'[p] = [at |-> "verdict", task |-> process[p].task, verdict |-> v, tries |-> 0]
      /\ \A q \in Processes : q # p => process'[q] = process[q]
  BY <1>1, ConcludesWith
<1>3. process'[p].at = "verdict" /\ process'[p].task = t /\ process'[p].verdict = v
  BY <1>1, <1>2
<1>4. TypeOK'
  BY <1>1, <1>2 DEF TypeOK
<1>5. Busy(process'[p]) /\ Follows(p, t)'
  BY <1>3 DEF Busy, Follows, At
<1>6. process'[p].at \notin {"sender", "deliver", "mark_sent"}
  BY <1>3
<1> QED BY <1>1, <1>2, <1>3, <1>4, <1>5, <1>6, MovesOn

LEMMA GoesInv ==
  ASSUME Inv, NEW p \in Processes, NEW t \in Tasks, NEW step \in OnTheWay \ {"mark_sent"},
         At(p, step, t), NEW next \in {"prepare", "compose", "send", "sender"}, Goes(p, next),
         next = "sender" => message[t] \in Sendable,
         UNCHANGED <<task, attempts, message, history>>
  PROVE  Inv'
<1>1. TypeOK /\ process[p].task = t /\ Active(p, t) /\ process[p].at # "mark_sent"
  BY DEF Inv, Typed, At, Active
<1>2. next \in Step
  BY DEF Step
<1>3. /\ process' \in [Processes -> ProcessState]
      /\ process'[p] = [at |-> next, task |-> process[p].task,
                        verdict |-> process[p].verdict, tries |-> process[p].tries]
      /\ \A q \in Processes : q # p => process'[q] = process[q]
  BY <1>1, <1>2, GoesTo
<1>4. process'[p].at = next /\ process'[p].task = t
  BY <1>1, <1>3
<1>5. TypeOK'
  BY <1>1, <1>3 DEF TypeOK, history
<1>6. Busy(process'[p]) /\ Follows(p, t)'
  BY <1>4 DEF Busy, Follows, At
<1>7. process'[p].at \in {"sender", "deliver", "mark_sent"} => message[t] \in Gone
  BY <1>4 DEF Sendable, Gone
<1> QED BY <1>1, <1>3, <1>4, <1>5, <1>6, <1>7, MovesOn DEF history

LEMMA CheckGateInv ==
  ASSUME Inv, NEW w \in Workers, NEW t \in Tasks, NEW answer, CheckGate(w, t, answer)
  PROVE  Inv'
<1>1. /\ w \in Processes /\ TypeOK /\ At(w, "gate", t) /\ UNCHANGED <<task, message, history>>
      /\ "gate" \in OnTheWay \ {"mark_sent"}
  BY DEF CheckGate, Inv, Typed, Processes, OnTheWay
<1>2. CASE \E v \in {"cancelled", "scheduled"} : Concludes(w, v) /\ UNCHANGED attempts
  <2>1. PICK v \in TaskStatus : Concludes(w, v)
    BY <1>2 DEF TaskStatus
  <2>2. /\ attempts' \in [Tasks -> 0..MaxAttempts] /\ stranded' \subseteq Tasks
        /\ faults' \in 0..FaultBound /\ UNCHANGED <<task, message, accepted, retried, stopped>>
    BY <1>1, <1>2 DEF TypeOK, history
  <2> QED BY <1>1, <2>1, <2>2, ConcludesInv
<1>3. CASE /\ attempts' = [attempts EXCEPT ![t] = Counted(@)]
           /\ process' = [process EXCEPT ![w].at = "prepare", ![w].tries = attempts'[t]]
  <2>1. attempts' \in [Tasks -> 0..MaxAttempts] /\ attempts'[t] \in 0..MaxAttempts
    BY <1>1, <1>3, EmailAssumption DEF TypeOK, Counted
  <2>2. process[w] \in ProcessState /\ process[w].task = t
    BY <1>1 DEF TypeOK, At
  <2> DEFINE s == [at |-> "prepare", task |-> t, verdict |-> process[w].verdict,
                   tries |-> attempts'[t]]
             u == [at |-> "prepare", task |-> t, verdict |-> process[w].verdict,
                   tries |-> process[w].tries]
  <2>3. [process[w] EXCEPT !.at = "prepare"] = u
    BY <2>2 DEF ProcessState
  <2>4. [u EXCEPT !.tries = attempts'[t]] = s
    OBVIOUS
  <2>5. s \in ProcessState
    BY <2>1, <2>2 DEF ProcessState, Step
  <2>6. s.at = "prepare" /\ s.task = t
    OBVIOUS
  <2> HIDE DEF s, u
  <2>7. process' = [process EXCEPT ![w] = [process[w] EXCEPT !.at = "prepare", !.tries = attempts'[t]]]
    BY <1>1, <1>3 DEF TypeOK
  <2>8. process' = [process EXCEPT ![w] = s]
    BY <2>3, <2>4, <2>7, Zenon
  <2>9. /\ process' \in [Processes -> ProcessState] /\ process'[w] = s
        /\ \A q \in Processes : q # w => process'[q] = process[q]
    BY <1>1, <2>5, <2>8 DEF TypeOK
  <2>10. TypeOK'
    BY <1>1, <2>1, <2>9 DEF TypeOK, history
  <2>11. Busy(process'[w]) /\ Follows(w, t)' /\ process'[w].task = t
    BY <2>6, <2>9 DEF Busy, Follows, At
  <2>12. process'[w].at \notin {"sender", "deliver", "mark_sent"}
    BY <2>6, <2>9
  <2>13. Active(w, t) /\ process[w].at # "mark_sent"
    BY <1>1 DEF Active, At, OnTheWay
  <2> QED BY <1>1, <2>2, <2>9, <2>10, <2>11, <2>12, <2>13, MovesOn DEF history
<1> QED BY <1>2, <1>3 DEF CheckGate

LEMMA PrepareInv ==
  ASSUME Inv, NEW w \in Workers, NEW t \in Tasks, Prepare(w, t) PROVE Inv'
<1>1. /\ w \in Processes /\ TypeOK /\ At(w, "prepare", t)
      /\ UNCHANGED <<task, attempts, message, history>>
      /\ "prepare" \in OnTheWay \ {"mark_sent"} /\ message[t] \in MessageStatus
  BY DEF Prepare, Inv, Typed, Processes, OnTheWay, TypeOK
<1>2. CASE message[t] = "none"
  <2>1. Goes(w, "compose")
    BY <1>2 DEF Prepare, Sendable
  <2> QED BY <1>1, <2>1, GoesInv
<1>3. CASE message[t] \in Sendable
  <2>1. Goes(w, "send")
    BY <1>3 DEF Prepare, Sendable
  <2> QED BY <1>1, <2>1, GoesInv
<1>4. CASE message[t] \notin Sendable \union {"none"}
  <2>1. Concludes(w, Prepared[message[t]])
    BY <1>4 DEF Prepare
  <2>2. Prepared[message[t]] \in TaskStatus
    BY <1>1, <1>4 DEF Prepared, MessageStatus, Sendable, TaskStatus
  <2>3. /\ attempts' \in [Tasks -> 0..MaxAttempts] /\ stranded' \subseteq Tasks
        /\ faults' \in 0..FaultBound /\ UNCHANGED <<task, message, accepted, retried, stopped>>
    BY <1>1 DEF TypeOK, history
  <2> QED BY <1>1, <2>1, <2>2, <2>3, ConcludesInv
<1> QED BY <1>2, <1>3, <1>4

-----------------------------------------------------------------------------
(* Whoever is on the way for a step that was not reaped is alone with it.     *)

LEMMA Alone ==
  ASSUME NEW p \in Processes, NEW t \in Tasks, OneSender(t), Active(p, t),
         \A q \in Processes : q # p => process'[q] = process[q]
  PROVE  /\ \A q \in Processes : q # p => ~Active(q, t)' /\ Follows(q, t)'
         /\ task[t] \notin Claimable /\ message[t] # "draft" /\ CopyOut(t)
<1>1. ASSUME NEW q \in Processes, q # p PROVE ~Active(q, t)' /\ Follows(q, t)'
  <2>1. ~Active(q, t)
    BY <1>1 DEF OneSender
  <2>2. ~Active(q, t)'
    BY <1>1, <2>1 DEF Active
  <2> QED BY <2>2 DEF Active, OnTheWay, Follows, At
<1> QED BY <1>1 DEF OneSender

LEMMA OneLeft ==
  ASSUME NEW p \in Processes, NEW t \in Tasks,
         \A q \in Processes : q # p => ~Active(q, t)' /\ Follows(q, t)',
         Active(p, t)' \/ message'[t] = "draft" => task'[t] \notin Claimable,
         Active(p, t)' => message'[t] # "draft",
         Follows(p, t)', CopyOut(t)'
  PROVE  OneSender(t)'
  BY DEF OneSender

LEMMA NothingOut ==
  ASSUME NEW p \in Processes, NEW t \in Tasks, CopyOut(t), Active(p, t),
         process[p].at # "mark_sent", message[t] # "sent"
  PROVE  accepted[t] = 0
  BY DEF CopyOut

LEMMA ComposeInv ==
  ASSUME Inv, NEW w \in Workers, NEW t \in Tasks, NEW outcome, Compose(w, t, outcome)
  PROVE  Inv'
<1>1. /\ w \in Processes /\ TypeOK /\ At(w, "compose", t)
      /\ UNCHANGED <<task, attempts, history>>
      /\ "compose" \in OnTheWay \ {"mark_sent"} /\ process[w].task = t
      /\ Active(w, t) /\ process[w].at # "mark_sent"
  BY DEF Compose, Inv, Typed, Processes, OnTheWay, At, Active
<1>2. CASE message' = message /\ \E v \in TaskStatus : Concludes(w, v)
  <2>1. PICK v \in TaskStatus : Concludes(w, v)
    BY <1>2
  <2>2. /\ attempts' \in [Tasks -> 0..MaxAttempts] /\ stranded' \subseteq Tasks
        /\ faults' \in 0..FaultBound /\ UNCHANGED <<task, message, accepted, retried, stopped>>
    BY <1>1, <1>2 DEF TypeOK, history
  <2> QED BY <1>1, <2>1, <2>2, ConcludesInv
<1>3. CASE /\ outcome \in {"draft", "approved"} /\ message[t] = "none"
           /\ message' = [message EXCEPT ![t] = outcome]
           /\ IF outcome = "draft" THEN Concludes(w, "pending") ELSE Goes(w, "send")
  <2>1. message'[t] = outcome /\ (\A u \in Tasks \ {t} : message'[u] = message[u])
        /\ message' \in [Tasks -> MessageStatus]
    BY <1>1, <1>3 DEF TypeOK, MessageStatus
  <2>2. /\ process' \in [Processes -> ProcessState]
        /\ \A q \in Processes : q # w => process'[q] = process[q]
        /\ process'[w].task = t
        /\ IF outcome = "draft" THEN process'[w].at = "verdict" /\ process'[w].verdict = "pending"
                                ELSE process'[w].at = "send"
    <3>1. CASE outcome = "draft"
      <4>1. Concludes(w, "pending") /\ "pending" \in TaskStatus
        BY <1>3, <3>1 DEF TaskStatus
      <4> QED BY <1>1, <3>1, <4>1, Concluded
    <3>2. CASE outcome # "draft"
      <4>1. Goes(w, "send") /\ "send" \in Step
        BY <1>3, <3>2 DEF Step
      <4> QED BY <1>1, <3>2, <4>1, WentTo
    <3> QED BY <3>1, <3>2
  <2>3. Busy(process'[w]) /\ process'[w].at \notin {"sender", "deliver", "mark_sent", "record"}
    BY <2>2 DEF Busy, TaskStatus
  <2>4. TypeOK'
    BY <1>1, <2>1, <2>2 DEF TypeOK, history
  <2>5. ASSUME t \notin retried' PROVE OneSender(t)'
    <3>1. OneSender(t)
      BY <1>1, <2>5 DEF Inv, history
    <3>2. /\ \A q \in Processes : q # w => ~Active(q, t)' /\ Follows(q, t)'
          /\ task[t] \notin Claimable /\ CopyOut(t)
      BY <1>1, <2>2, <3>1, Alone
    <3>3. accepted[t] = 0
      BY <1>1, <1>3, <3>2, NothingOut
    <3>4. Follows(w, t)'
      BY <2>3 DEF Follows, At
    <3>5. task' = task /\ accepted' = accepted
      BY <1>1 DEF history
    <3>6. Active(w, t)' => message'[t] # "draft"
      BY <2>1, <2>2 DEF Active, OnTheWay, Claimable
    <3>7. CopyOut(t)' /\ task'[t] \notin Claimable
      BY <3>2, <3>3, <3>5 DEF CopyOut
    <3> QED BY <1>1, <3>2, <3>4, <3>6, <3>7, OneLeft
  <2>6. message[t] \notin Gone /\ retried \subseteq retried'
        /\ \A u \in Tasks \ {t} : task'[u] = task[u] /\ message'[u] = message[u]
                                  /\ accepted'[u] = accepted[u]
    BY <1>1, <1>3, <2>1 DEF Gone, history
  <2> QED BY <1>1, <2>2, <2>3, <2>4, <2>5, <2>6, StepInv
<1>4. RetryVerdict(w) \in TaskStatus /\ {"failed", "escalated"} \subseteq TaskStatus
  BY DEF RetryVerdict, TaskStatus
<1> QED BY <1>2, <1>3, <1>4 DEF Compose

-----------------------------------------------------------------------------
(* send_message.                                                              *)

(* A process stops: what it knew of its step goes with it. *)
LEMMA EndsInv ==
  ASSUME Inv, NEW p \in Processes, Ends(p),
         UNCHANGED <<task, attempts, message, accepted, retried, stopped>>,
         stranded' \subseteq Tasks, faults' \in 0..FaultBound, NEW t \in Tasks
  PROVE  Inv'
<1>1. TypeOK
  BY DEF Inv, Typed
<1>2. /\ process' \in [Processes -> ProcessState] /\ process'[p] = Idle
      /\ \A q \in Processes : q # p => process'[q] = process[q]
  BY <1>1, EndsIdle
<1>3. TypeOK'
  BY <1>1, <1>2 DEF TypeOK
<1>4. process'[p].at = "idle"
  BY <1>2, IdleTyped
<1>5. ~Active(p, t)' /\ Follows(p, t)'
  BY <1>4 DEF Active, OnTheWay, Follows, At
<1> QED BY <1>2, <1>3, <1>4, <1>5, MovesOn

LEMMA ReadMessageInv ==
  ASSUME Inv, NEW p \in Processes, NEW t \in Tasks, ReadMessage(p, t) PROVE Inv'
<1>1. /\ TypeOK /\ At(p, "send", t) /\ UNCHANGED <<task, attempts, message, history>>
      /\ "send" \in OnTheWay \ {"mark_sent"}
  BY DEF ReadMessage, Inv, Typed, OnTheWay
<1>2. /\ attempts' \in [Tasks -> 0..MaxAttempts] /\ stranded' \subseteq Tasks
      /\ faults' \in 0..FaultBound
      /\ UNCHANGED <<task, attempts, message, accepted, retried, stopped>>
  BY <1>1 DEF TypeOK, history
<1>3. CASE message[t] \in Sendable /\ Goes(p, "sender")
  BY <1>1, <1>3, GoesInv
<1>4. CASE Concludes(p, "failed")
  <2>1. "failed" \in TaskStatus
    BY DEF TaskStatus
  <2> QED BY <1>1, <1>2, <1>4, <2>1, ConcludesInv
<1>5. CASE Ends(p)
  BY <1>2, <1>5, EndsInv
<1> QED BY <1>3, <1>4, <1>5 DEF ReadMessage

(* The one process on the way writes the step's message or counts its copy. *)
LEMMA SenderWrites ==
  ASSUME Inv, TypeOK', NEW p \in Processes, NEW t \in Tasks, Active(p, t),
         \A q \in Processes : q # p => process'[q] = process[q],
         Busy(process'[p]), process'[p].task = t,
         \A u \in Tasks \ {t} : message'[u] = message[u] /\ accepted'[u] = accepted[u],
         task' = task, retried \subseteq retried',
         message[t] \in Gone => message'[t] \in Gone,
         process'[p].at \in {"sender", "deliver", "mark_sent"} => message'[t] \in Gone,
         t \notin retried' /\ OneSender(t) =>
           message'[t] # "draft" /\ Follows(p, t)' /\ CopyOut(t)'
  PROVE  Inv'
<1>1. ASSUME t \notin retried' PROVE OneSender(t)'
  <2>1. OneSender(t)
    BY <1>1 DEF Inv
  <2>2. /\ \A q \in Processes : q # p => ~Active(q, t)' /\ Follows(q, t)'
        /\ task[t] \notin Claimable
    BY <2>1, Alone
  <2>3. message'[t] # "draft" /\ Follows(p, t)' /\ CopyOut(t)' /\ task'[t] \notin Claimable
    BY <1>1, <2>1, <2>2
  <2> QED BY <2>2, <2>3, OneLeft
<1>2. \A u \in Tasks \ {t} :
        task'[u] = task[u] /\ message'[u] = message[u] /\ accepted'[u] = accepted[u]
  OBVIOUS
<1> QED BY <1>1, <1>2, StepInv

LEMMA CheckSenderInv ==
  ASSUME Inv, NEW p \in Processes, NEW t \in Tasks, NEW ready \in BOOLEAN,
         CheckSender(p, t, ready)
  PROVE  Inv'
<1>1. /\ TypeOK /\ At(p, "sender", t) /\ UNCHANGED <<task, attempts, history>>
      /\ Active(p, t) /\ process[p].at = "sender" /\ process[p].task = t
  BY DEF CheckSender, Inv, Typed, OnTheWay, At, Active
<1> DEFINE to == IF ready THEN "sending" ELSE "failed"
<1>2. to \in Gone /\ to \in MessageStatus /\ to \in {"sending", "failed"}
  BY DEF Gone, MessageStatus
<1>3. message' = IF message[t] \in Sendable THEN [message EXCEPT ![t] = to] ELSE message
  BY DEF CheckSender, Set
<1>4. /\ message' \in [Tasks -> MessageStatus]
      /\ message'[t] = IF message[t] \in Sendable THEN to ELSE message[t]
      /\ \A u \in Tasks \ {t} : message'[u] = message[u]
  BY <1>1, <1>2, <1>3 DEF TypeOK
<1>5. /\ process' \in [Processes -> ProcessState] /\ process'[p].task = t
      /\ process'[p].at \in {"deliver", "verdict"}
      /\ process'[p].at = "verdict" => process'[p].verdict = "failed"
      /\ process'[p].at = "deliver" => ready
      /\ \A q \in Processes : q # p => process'[q] = process[q]
  <2>1. CASE ready
    <3>1. Goes(p, "deliver") /\ "deliver" \in Step
      BY <2>1 DEF CheckSender, Step
    <3> QED BY <1>1, <2>1, <3>1, WentTo
  <2>2. CASE ~ready
    <3>1. Concludes(p, "failed") /\ "failed" \in TaskStatus
      BY <2>2 DEF CheckSender, TaskStatus
    <3> QED BY <1>1, <3>1, Concluded
  <2> QED BY <2>1, <2>2
<1>6. TypeOK' /\ Busy(process'[p])
  BY <1>1, <1>4, <1>5 DEF TypeOK, history, Busy, TaskStatus
<1>7. message[t] \in Gone /\ message'[t] \in Gone
  BY <1>1, <1>2, <1>4 DEF Inv, PastDraft
<1>8. ASSUME OneSender(t) PROVE message'[t] # "draft" /\ Follows(p, t)' /\ CopyOut(t)'
  <2>1. message[t] \in Sendable
    BY <1>1, <1>8 DEF OneSender, Follows
  <2>2. message'[t] = to
    BY <1>4, <2>1
  <2>3. accepted[t] = 0
    BY <1>1, <1>8, <2>1, NothingOut DEF OneSender, Sendable
  <2>4. Follows(p, t)'
    BY <1>5, <2>2 DEF Follows, At
  <2>5. accepted'[t] = 0
    BY <1>1, <2>3 DEF history
  <2> HIDE DEF to
  <2> QED BY <1>2, <2>2, <2>4, <2>5 DEF CopyOut
<1>9. retried \subseteq retried' /\ task' = task /\ accepted' = accepted
  BY <1>1 DEF history
<1> HIDE DEF to
<1>10. \A u \in Tasks \ {t} : message'[u] = message[u] /\ accepted'[u] = accepted[u]
  BY <1>4, <1>9
<1> QED BY <1>1, <1>5, <1>6, <1>7, <1>8, <1>9, <1>10, SenderWrites

LEMMA MarkSentInv ==
  ASSUME Inv, NEW p \in Processes, NEW t \in Tasks, MarkSent(p, t) PROVE Inv'
<1>1. /\ TypeOK /\ At(p, "mark_sent", t) /\ UNCHANGED <<task, attempts, history>>
      /\ Active(p, t) /\ process[p].task = t /\ Goes(p, "record") /\ "record" \in Step
      /\ message' = [message EXCEPT ![t] = "sent"]
  BY DEF MarkSent, Inv, Typed, OnTheWay, At, Active, Step
<1>2. /\ message' \in [Tasks -> MessageStatus] /\ message'[t] = "sent"
      /\ \A u \in Tasks \ {t} : message'[u] = message[u]
  BY <1>1 DEF TypeOK, MessageStatus
<1>3. /\ process' \in [Processes -> ProcessState] /\ process'[p].task = t
      /\ process'[p].at = "record"
      /\ \A q \in Processes : q # p => process'[q] = process[q]
  BY <1>1, WentTo
<1>4. TypeOK' /\ Busy(process'[p])
  BY <1>1, <1>2, <1>3 DEF TypeOK, history, Busy
<1>5. message'[t] \in Gone /\ retried \subseteq retried' /\ task' = task /\ accepted' = accepted
  BY <1>1, <1>2 DEF Gone, history
<1>6. ASSUME OneSender(t) PROVE message'[t] # "draft" /\ Follows(p, t)' /\ CopyOut(t)'
  <2>1. accepted[t] \in {0, 1}
    BY <1>6 DEF OneSender, CopyOut
  <2> QED BY <1>2, <1>3, <1>5, <2>1 DEF Follows, At, CopyOut
<1>7. \A u \in Tasks \ {t} : message'[u] = message[u] /\ accepted'[u] = accepted[u]
  BY <1>2, <1>5
<1> QED BY <1>1, <1>3, <1>4, <1>5, <1>6, <1>7, SenderWrites

LEMMA TakenCounts ==
  ASSUME TypeOK, NEW t \in Tasks, NEW n \in 0..1
  PROVE  /\ Taken(t, n) \in [Tasks -> 0..2]
         /\ accepted[t] = 0 => Taken(t, n)[t] = n
         /\ \A u \in Tasks \ {t} : Taken(t, n)[u] = accepted[u]
<1>1. accepted \in [Tasks -> 0..2] /\ accepted[t] \in 0..2
  BY DEF TypeOK
<1> DEFINE m == IF accepted[t] + n > 2 THEN 2 ELSE accepted[t] + n
<1>2. m \in 0..2 /\ (accepted[t] = 0 => m = n)
  BY <1>1
<1> HIDE DEF m
<1>3. Taken(t, n) = [accepted EXCEPT ![t] = m]
  BY DEF Taken, m
<1> QED BY <1>1, <1>2, <1>3

LEMMA DeliverInv ==
  ASSUME Inv, NEW p \in Processes, NEW t \in Tasks, NEW answer, Deliver(p, t, answer)
  PROVE  Inv'
<1>1. /\ TypeOK /\ At(p, "deliver", t) /\ UNCHANGED <<task, attempts, stopped, faults, stranded>>
      /\ Active(p, t) /\ process[p].at = "deliver" /\ process[p].task = t
      /\ {"mark_sent"} \subseteq Step /\ {"failed"} \subseteq TaskStatus
  BY DEF Deliver, Inv, Typed, OnTheWay, At, Active, Step, TaskStatus
<1>2. message[t] \in Gone
  BY <1>1 DEF Inv, PastDraft
<1>3. ASSUME OneSender(t) PROVE message[t] = "sending" /\ accepted[t] = 0 /\ task[t] \notin Claimable
  <2>1. message[t] = "sending"
    BY <1>1, <1>3 DEF OneSender, Follows
  <2> QED BY <1>1, <1>3, <2>1, NothingOut DEF OneSender
<1>4. CASE /\ accepted' = Taken(t, 1) /\ Goes(p, "mark_sent") /\ UNCHANGED <<message, retried>>
  <2>1. /\ process' \in [Processes -> ProcessState] /\ process'[p].task = t
        /\ process'[p].at = "mark_sent"
        /\ \A q \in Processes : q # p => process'[q] = process[q]
    BY <1>1, <1>4, WentTo
  <2>2. /\ accepted' \in [Tasks -> 0..2] /\ (accepted[t] = 0 => accepted'[t] = 1)
        /\ \A u \in Tasks \ {t} : accepted'[u] = accepted[u]
    BY <1>1, <1>4, TakenCounts
  <2>3. TypeOK' /\ Busy(process'[p])
    BY <1>1, <1>4, <2>1, <2>2 DEF TypeOK, Busy
  <2>4. ASSUME OneSender(t) PROVE message'[t] # "draft" /\ Follows(p, t)' /\ CopyOut(t)'
    <3>1. message'[t] = "sending" /\ accepted'[t] = 1 /\ task'[t] \notin Claimable
      BY <1>1, <1>3, <1>4, <2>2, <2>4
    <3>2. \A q \in Processes : Active(q, t)' => process'[q].at = "mark_sent"
      BY <1>1, <2>1, <2>4, Alone
    <3>3. CopyOut(t)'
      BY <3>1, <3>2 DEF CopyOut
    <3> QED BY <2>1, <3>1, <3>3 DEF Follows, At
  <2>5. message' = message /\ retried \subseteq retried' /\ task' = task
    BY <1>1, <1>4
  <2>6. \A u \in Tasks \ {t} : message'[u] = message[u] /\ accepted'[u] = accepted[u]
    BY <2>2, <2>5
  <2>7. (message[t] \in Gone => message'[t] \in Gone) /\ message'[t] \in Gone
    BY <1>2, <2>5
  <2> QED BY <1>1, <2>1, <2>3, <2>4, <2>5, <2>6, <2>7, SenderWrites
<1>5. CASE /\ message' = Set(t, {"sending"}, "failed") /\ Concludes(p, "failed")
           /\ UNCHANGED <<accepted, retried>>
  <2>1. /\ process' \in [Processes -> ProcessState] /\ process'[p].task = t
        /\ process'[p].at = "verdict" /\ process'[p].verdict = "failed"
        /\ \A q \in Processes : q # p => process'[q] = process[q]
    BY <1>1, <1>5, Concluded
  <2>2. /\ message' \in [Tasks -> MessageStatus]
        /\ message'[t] = IF message[t] = "sending" THEN "failed" ELSE message[t]
        /\ \A u \in Tasks \ {t} : message'[u] = message[u]
    BY <1>1, <1>5 DEF TypeOK, Set, MessageStatus
  <2>3. TypeOK' /\ Busy(process'[p])
    BY <1>1, <1>5, <2>1, <2>2 DEF TypeOK, Busy, TaskStatus
  <2>4. ASSUME OneSender(t) PROVE message'[t] # "draft" /\ Follows(p, t)' /\ CopyOut(t)'
    <3>1. message'[t] = "failed" /\ accepted'[t] = 0
      BY <1>3, <1>5, <2>2, <2>4
    <3> QED BY <2>1, <3>1 DEF Follows, At, CopyOut
  <2>5. accepted' = accepted /\ retried \subseteq retried' /\ task' = task /\ message'[t] \in Gone
    BY <1>1, <1>2, <1>5, <2>2 DEF Gone
  <2>6. \A u \in Tasks \ {t} : message'[u] = message[u] /\ accepted'[u] = accepted[u]
    BY <2>2, <2>5
  <2> QED BY <1>1, <2>1, <2>3, <2>4, <2>5, <2>6, SenderWrites
<1>6. CASE /\ \E n \in 0..1 : accepted' = Taken(t, n)
           /\ retried' = retried \union {t}
           /\ Concludes(p, RetryVerdict(p)) /\ UNCHANGED message
  <2>0. RetryVerdict(p) \in TaskStatus
    BY DEF RetryVerdict, TaskStatus
  <2>1. /\ process' \in [Processes -> ProcessState] /\ process'[p].task = t
        /\ process'[p].at = "verdict" /\ process'[p].verdict \in TaskStatus
        /\ \A q \in Processes : q # p => process'[q] = process[q]
    BY <1>1, <1>6, <2>0, Concluded
  <2>2. /\ accepted' \in [Tasks -> 0..2]
        /\ \A u \in Tasks \ {t} : accepted'[u] = accepted[u]
    BY <1>1, <1>6, TakenCounts
  <2>3. TypeOK' /\ Busy(process'[p])
    BY <1>1, <1>6, <2>1, <2>2 DEF TypeOK, Busy
  <2>4. /\ message' = message /\ retried \subseteq retried' /\ task' = task /\ t \in retried'
        /\ message'[t] \in Gone
    BY <1>1, <1>2, <1>6
  <2>5. \A u \in Tasks \ {t} : message'[u] = message[u] /\ accepted'[u] = accepted[u]
    BY <2>2, <2>4
  <2> QED BY <1>1, <2>1, <2>3, <2>4, <2>5, SenderWrites
<1> QED BY <1>4, <1>5, <1>6 DEF Deliver

LEMMA RecordInv ==
  ASSUME Inv, NEW p \in Processes, NEW t \in Tasks, NEW outcome, Record(p, t, outcome)
  PROVE  Inv'
<1>1. /\ TypeOK /\ At(p, "record", t)
      /\ UNCHANGED <<task, attempts, message, stopped, accepted, retried>>
      /\ "record" \in OnTheWay \ {"mark_sent"}
  BY DEF Record, Inv, Typed, OnTheWay
<1>2. /\ attempts' \in [Tasks -> 0..MaxAttempts] /\ stranded' \subseteq Tasks
      /\ faults' \in 0..FaultBound
  <2>1. faults' = faults \/ (faults < FaultBound /\ faults' = faults + 1)
    BY DEF Record
  <2>2. stranded' = stranded \/ stranded' = stranded \union {t}
    <3>1. CASE UNCHANGED <<faults, stranded>>
      BY <3>1
    <3>2. CASE stranded' = stranded \union {t}
      BY <3>2
    <3>3. CASE UNCHANGED stranded
      BY <3>3
    <3> QED BY <3>1, <3>2, <3>3, Zenon DEF Record
  <2>3. faults' \in 0..FaultBound
    BY <1>1, <2>1, EmailAssumption DEF TypeOK
  <2>4. attempts' \in [Tasks -> 0..MaxAttempts] /\ stranded' \subseteq Tasks
    BY <1>1, <2>2 DEF TypeOK
  <2> QED BY <2>3, <2>4
<1>3. CASE \E v \in TaskStatus : Concludes(p, v)
  <2>1. PICK v \in TaskStatus : Concludes(p, v)
    BY <1>3
  <2> QED BY <1>1, <1>2, <2>1, ConcludesInv
<1>4. CASE Ends(p)
  BY <1>1, <1>2, <1>4, EndsInv
<1>5. RetryVerdict(p) \in TaskStatus /\ {"failed", "completed"} \subseteq TaskStatus
  BY DEF RetryVerdict, TaskStatus
<1> QED BY <1>3, <1>4, <1>5 DEF Record

LEMMA ConcludeInv == ASSUME Inv, NEW p \in Processes, NEW t \in Tasks, Conclude(p, t) PROVE Inv'
<1>1. /\ TypeOK /\ At(p, "verdict", t) /\ UNCHANGED <<attempts, message, history>> /\ Ends(p)
      /\ process[p].task = t /\ process[p].at = "verdict" /\ process[p].verdict \in TaskStatus
  <2>1. At(p, "verdict", t) /\ "verdict" # "idle"
    BY DEF Conclude
  <2>2. process[p].verdict \in TaskStatus
    BY <2>1, InHand DEF Busy, At
  <2> QED BY <2>1, <2>2 DEF Conclude, Inv, Typed, At
<1>2. /\ process' \in [Processes -> ProcessState] /\ process'[p] = Idle
      /\ \A q \in Processes : q # p => process'[q] = process[q]
  BY <1>1, EndsIdle
<1>3. /\ task' \in [Tasks -> TaskStatus]
      /\ task'[t] = IF task[t] \in Settleable THEN process[p].verdict ELSE task[t]
      /\ \A u \in Tasks \ {t} : task'[u] = task[u]
  BY <1>1 DEF Conclude, TypeOK
<1>4. TypeOK'
  BY <1>1, <1>2, <1>3 DEF TypeOK, history
<1>5. process'[p].at = "idle" /\ ~Active(p, t)' /\ Follows(p, t)'
  BY <1>2, IdleTyped DEF Active, OnTheWay, Follows, At
<1>6. ASSUME t \notin retried' PROVE OneSender(t)'
  <2>1. OneSender(t)
    BY <1>1, <1>6 DEF Inv, history
  <2>2. message'[t] = message[t] /\ accepted'[t] = accepted[t]
    BY <1>1 DEF history
  <2>3. CASE Active(p, t)
    <3>1. /\ \A q \in Processes : q # p => ~Active(q, t)' /\ Follows(q, t)'
          /\ message[t] # "draft" /\ CopyOut(t)
      BY <1>2, <2>1, <2>3, Alone
    <3>2. CopyOut(t)'
      BY <1>1, <2>2, <2>3, <3>1 DEF CopyOut
    <3> QED BY <1>5, <2>2, <3>1, <3>2, OneLeft
  <2>4. CASE ~Active(p, t)
    <3>1. process[p].verdict \notin Claimable
      BY <1>1, <2>4 DEF Active
    <3>2. task[t] \notin Claimable => task'[t] \notin Claimable
      BY <1>3, <3>1
    <3>3. \A q \in Processes : Active(q, t)' => Active(q, t) /\ process'[q] = process[q]
      BY <1>2, <1>5 DEF Active
    <3>4. \A q \in Processes : Follows(q, t)'
      <4> SUFFICES ASSUME NEW q \in Processes, q # p PROVE Follows(q, t)'
        BY <1>5
      <4>1. Follows(q, t) /\ process'[q] = process[q]
        BY <1>2, <2>1 DEF OneSender
      <4> QED BY <2>2, <4>1 DEF Follows, At
    <3>5. CopyOut(t)'
      <4>1. CopyOut(t)
        BY <2>1 DEF OneSender
      <4> QED BY <2>2, <3>2, <3>3, <4>1 DEF CopyOut
    <3>6. \A q, r \in Processes : Active(q, t)' /\ Active(r, t)' => q = r
      BY <2>1, <3>3 DEF OneSender
    <3>7. \A q \in Processes : Active(q, t)' => task'[t] \notin Claimable /\ message'[t] # "draft"
      BY <2>1, <2>2, <3>2, <3>3 DEF OneSender
    <3>8. message'[t] = "draft" => task'[t] \notin Claimable
      BY <2>1, <2>2, <3>2 DEF OneSender
    <3> QED BY <3>4, <3>5, <3>6, <3>7, <3>8 DEF OneSender
  <2> QED BY <2>3, <2>4
<1>7. \A u \in Tasks \ {t} :
        task'[u] = task[u] /\ message'[u] = message[u] /\ accepted'[u] = accepted[u]
  BY <1>1, <1>3 DEF history
<1>8. retried \subseteq retried' /\ message' = message
  BY <1>1 DEF history
<1>9. process'[p].at \notin {"sender", "deliver", "mark_sent"}
  BY <1>5
<1> QED BY <1>2, <1>4, <1>6, <1>7, <1>8, <1>9, StepInv

-----------------------------------------------------------------------------
(* Staff, and the expiry of drafts.                                           *)

(* A request that is none of the senders of its step goes on, and writes no row. *)
LEMMA AsideInv ==
  ASSUME Inv, TypeOK', NEW r \in Processes, NEW t \in Tasks,
         \A q \in Processes : q # r => process'[q] = process[q],
         Busy(process'[r]), process'[r].task = t,
         process'[r].at \in {"recheck", "accept", "close", "reopen", "verdict"},
         process'[r].at = "verdict" => process'[r].verdict \notin Claimable,
         UNCHANGED <<task, message, accepted, retried>>
  PROVE  Inv'
<1>1. ~Active(r, t)' /\ Follows(r, t)' /\ process'[r].at \notin {"sender", "deliver", "mark_sent"}
  BY DEF Active, OnTheWay, Follows, At
<1> QED BY <1>1, MovesOn

LEMMA ReviewInv ==
  ASSUME Inv, NEW r \in Requests, NEW t \in Tasks, Approve(r, t) \/ Discard(r, t)
  PROVE  Inv'
<1>1. /\ r \in Processes /\ TypeOK /\ UNCHANGED <<task, attempts, message, history>>
      /\ process[r] = Idle /\ {"recheck", "close"} \subseteq Step
  BY DEF Approve, Discard, Inv, Typed, Processes, Step
<1>2. PICK step \in {"recheck", "close"} : Starts(r, t, step)
  BY DEF Approve, Discard
<1>3. /\ process' \in [Processes -> ProcessState]
      /\ process'[r] = [at |-> step, task |-> t, verdict |-> "none", tries |-> 0]
      /\ \A q \in Processes : q # r => process'[q] = process[q]
  BY <1>1, <1>2, StartsAt
<1>4. process'[r].at = step /\ process'[r].task = t
  BY <1>3
<1>5. TypeOK' /\ Busy(process'[r])
  BY <1>1, <1>3, <1>4 DEF TypeOK, history, Busy
<1> QED BY <1>1, <1>3, <1>4, <1>5, AsideInv DEF history

LEMMA RecheckInv ==
  ASSUME Inv, NEW r \in Requests, NEW t \in Tasks, NEW answer \in Answers, Recheck(r, t, answer)
  PROVE  Inv'
<1>1. /\ r \in Processes /\ TypeOK /\ UNCHANGED <<task, attempts, message, history>>
      /\ process[r].task = t /\ {"accept", "close"} \subseteq Step
  BY DEF Recheck, At, Inv, Typed, Processes, Step
<1>2. CASE \E step \in {"accept", "close"} : Goes(r, step)
  <2>1. PICK step \in {"accept", "close"} : Goes(r, step)
    BY <1>2
  <2>2. /\ process' \in [Processes -> ProcessState]
        /\ process'[r].at = step /\ process'[r].task = t
        /\ \A q \in Processes : q # r => process'[q] = process[q]
    BY <1>1, <2>1, WentTo
  <2>3. TypeOK' /\ Busy(process'[r])
    BY <1>1, <2>2 DEF TypeOK, history, Busy
  <2> QED BY <1>1, <2>2, <2>3, AsideInv DEF history
<1>3. CASE Ends(r)
  BY <1>1, <1>3, EndsInv DEF TypeOK, history
<1> QED BY <1>2, <1>3 DEF Recheck, Answers

(* While there is a draft nobody is on the way, and no copy is out. *)
LEMMA OnlyDraft ==
  ASSUME NEW t \in Tasks, OneSender(t), message[t] = "draft"
  PROVE  /\ \A q \in Processes : ~Active(q, t)
         /\ accepted[t] = 0 /\ task[t] \notin Claimable
  BY DEF OneSender, CopyOut

LEMMA AcceptInv == ASSUME Inv, NEW r \in Requests, NEW t \in Tasks, Accept(r, t) PROVE Inv'
<1>1. /\ r \in Processes /\ TypeOK /\ UNCHANGED <<task, attempts, history>>
      /\ process[r].task = t /\ "send" \in Step
  BY DEF Accept, At, Inv, Typed, Processes, Step
<1>2. CASE message[t] = "draft"
  <2>1. message' = [message EXCEPT ![t] = "approved"] /\ Goes(r, "send")
    BY <1>2 DEF Accept, Set
  <2>2. /\ message' \in [Tasks -> MessageStatus] /\ message'[t] = "approved"
        /\ \A u \in Tasks \ {t} : message'[u] = message[u]
    BY <1>1, <2>1 DEF TypeOK, MessageStatus
  <2>3. /\ process' \in [Processes -> ProcessState]
        /\ process'[r].at = "send" /\ process'[r].task = t
        /\ \A q \in Processes : q # r => process'[q] = process[q]
    BY <1>1, <2>1, WentTo
  <2>4. TypeOK' /\ Busy(process'[r])
    BY <1>1, <2>2, <2>3 DEF TypeOK, history, Busy
  <2>5. ASSUME t \notin retried' PROVE OneSender(t)'
    <3>1. OneSender(t) /\ task' = task /\ accepted' = accepted
      BY <1>1, <2>5 DEF Inv, history
    <3>2. (\A q \in Processes : ~Active(q, t)) /\ accepted[t] = 0 /\ task[t] \notin Claimable
      BY <1>2, <3>1, OnlyDraft
    <3>3. ASSUME NEW q \in Processes, q # r PROVE ~Active(q, t)' /\ Follows(q, t)'
      <4>1. ~Active(q, t)'
        BY <2>3, <3>2, <3>3 DEF Active
      <4> QED BY <4>1 DEF Active, OnTheWay, Follows, At
    <3>4. Follows(r, t)'
      BY <2>3 DEF Follows, At
    <3>5. CopyOut(t)' /\ task'[t] \notin Claimable /\ message'[t] # "draft"
      BY <2>2, <3>1, <3>2 DEF CopyOut
    <3> QED BY <1>1, <3>3, <3>4, <3>5, OneLeft
  <2>6. \A u \in Tasks \ {t} :
          task'[u] = task[u] /\ message'[u] = message[u] /\ accepted'[u] = accepted[u]
    BY <1>1, <2>2 DEF history
  <2>7. message'[t] \in Gone /\ retried \subseteq retried'
    BY <1>1, <2>2 DEF Gone, history
  <2> QED BY <1>1, <2>3, <2>4, <2>5, <2>6, <2>7, StepInv
<1>3. CASE message[t] # "draft"
  <2>1. message' = message /\ Ends(r)
    BY <1>3 DEF Accept, Set
  <2> QED BY <1>1, <2>1, EndsInv DEF TypeOK, history
<1> QED BY <1>2, <1>3

(* The draft is closed, by staff or because it is old, and its step with it. *)
LEMMA ClosesInv ==
  ASSUME Inv, TypeOK', NEW r \in Processes, NEW t \in Tasks,
         \A q \in Processes : q # r => process'[q] = process[q],
         process'[r].task = t, process'[r].at = "verdict", process'[r].verdict = "cancelled",
         message' = Set(t, {"draft"}, "discarded"), UNCHANGED <<task, accepted, retried>>
  PROVE  Inv'
<1>1. Busy(process'[r]) /\ process'[r].verdict \notin Claimable
  BY DEF Busy, TaskStatus, Claimable
<1>2. CASE message[t] # "draft"
  <2>1. message' = message
    BY <1>2 DEF Set
  <2> QED BY <1>1, <2>1, AsideInv
<1>3. CASE message[t] = "draft"
  <2>1. message'[t] = "discarded" /\ \A u \in Tasks \ {t} : message'[u] = message[u]
    BY <1>3 DEF Set, Inv, Typed, TypeOK
  <2>2. ~Active(r, t)' /\ Follows(r, t)'
    BY <1>1 DEF Active, OnTheWay, Follows, At
  <2>3. ASSUME t \notin retried' PROVE OneSender(t)'
    <3>1. OneSender(t)
      BY <2>3 DEF Inv
    <3>2. (\A q \in Processes : ~Active(q, t)) /\ accepted[t] = 0
      BY <1>3, <3>1, OnlyDraft
    <3>3. ASSUME NEW q \in Processes, q # r PROVE ~Active(q, t)' /\ Follows(q, t)'
      <4>1. ~Active(q, t)'
        BY <3>2, <3>3 DEF Active
      <4> QED BY <4>1 DEF Active, OnTheWay, Follows, At
    <3>4. CopyOut(t)' /\ message'[t] # "draft"
      BY <2>1, <3>2 DEF CopyOut
    <3> QED BY <2>2, <3>3, <3>4, OneLeft
  <2>4. \A u \in Tasks \ {t} :
          task'[u] = task[u] /\ message'[u] = message[u] /\ accepted'[u] = accepted[u]
    BY <2>1
  <2>5. message[t] \notin Gone /\ retried \subseteq retried'
    BY <1>3 DEF Gone
  <2> QED BY <1>1, <2>3, <2>4, <2>5, StepInv
<1> QED BY <1>2, <1>3

LEMMA SetTyped ==
  ASSUME TypeOK, NEW t \in Tasks, NEW from, NEW to \in MessageStatus
  PROVE  Set(t, from, to) \in [Tasks -> MessageStatus]
  BY DEF Set, TypeOK

LEMMA CloseInv == ASSUME Inv, NEW r \in Requests, NEW t \in Tasks, Close(r, t) PROVE Inv'
<1>1. /\ r \in Processes /\ TypeOK /\ UNCHANGED <<task, attempts, history>>
      /\ process[r].task = t /\ "cancelled" \in TaskStatus /\ "discarded" \in MessageStatus
      /\ message' = Set(t, {"draft"}, "discarded") /\ Concludes(r, "cancelled")
  BY DEF Close, At, Inv, Typed, Processes, TaskStatus, MessageStatus
<1>2. /\ process' \in [Processes -> ProcessState]
      /\ process'[r].at = "verdict" /\ process'[r].task = t /\ process'[r].verdict = "cancelled"
      /\ \A q \in Processes : q # r => process'[q] = process[q]
  BY <1>1, Concluded
<1>3. message' \in [Tasks -> MessageStatus]
  BY <1>1, SetTyped
<1>4. TypeOK'
  BY <1>1, <1>2, <1>3 DEF TypeOK, history
<1> QED BY <1>1, <1>2, <1>4, ClosesInv DEF history

LEMMA ExpireDraftInv ==
  ASSUME Inv, NEW r \in Requests, NEW t \in Tasks, ExpireDraft(r, t) PROVE Inv'
<1>1. /\ r \in Processes /\ TypeOK /\ UNCHANGED <<task, attempts, history>>
      /\ "cancelled" \in TaskStatus /\ "discarded" \in MessageStatus
      /\ message' = Set(t, {"draft"}, "discarded")
  BY DEF ExpireDraft, Set, Inv, Typed, Processes, TaskStatus, MessageStatus
<1> DEFINE s == [at |-> "verdict", task |-> t, verdict |-> "none", tries |-> 0]
           u == [at |-> "verdict", task |-> t, verdict |-> "cancelled", tries |-> 0]
<1>2. [Idle EXCEPT !.at = "verdict", !.task = t] = s
  BY StartedRecord, Zenon
<1>3. [s EXCEPT !.verdict = "cancelled"] = u
  OBVIOUS
<1>4. u \in ProcessState /\ u.at = "verdict" /\ u.task = t /\ u.verdict = "cancelled"
  BY <1>1, EmailAssumption DEF ProcessState, Step
<1> HIDE DEF s, u
<1>5. process' = [process EXCEPT ![r] = [Idle EXCEPT !.at = "verdict", !.task = t,
                                                     !.verdict = "cancelled"]]
  BY DEF ExpireDraft
<1>6. process' = [process EXCEPT ![r] = u]
  BY <1>2, <1>3, <1>5, Zenon
<1>7. /\ process' \in [Processes -> ProcessState] /\ process'[r] = u
      /\ \A q \in Processes : q # r => process'[q] = process[q]
  BY <1>1, <1>4, <1>6 DEF TypeOK
<1>8. message' \in [Tasks -> MessageStatus]
  BY <1>1, SetTyped
<1>9. TypeOK'
  BY <1>1, <1>7, <1>8 DEF TypeOK, history
<1> QED BY <1>1, <1>4, <1>7, <1>9, ClosesInv DEF history

LEMMA RetryTaskInv == ASSUME Inv, NEW r \in Requests, NEW t \in Tasks, RetryTask(r, t) PROVE Inv'
<1>1. /\ r \in Processes /\ TypeOK /\ UNCHANGED <<message, history>> /\ "reopen" \in Step
      /\ process[r] = Idle /\ Starts(r, t, "reopen") /\ task[t] \in {"failed", "escalated"}
  BY DEF RetryTask, Inv, Typed, Processes, Step
<1>2. /\ process' \in [Processes -> ProcessState]
      /\ process'[r] = [at |-> "reopen", task |-> t, verdict |-> "none", tries |-> 0]
      /\ \A q \in Processes : q # r => process'[q] = process[q]
  BY <1>1, StartsAt
<1>3. process'[r].at = "reopen" /\ process'[r].task = t
  BY <1>2
<1>4. /\ task' \in [Tasks -> TaskStatus] /\ \A u \in Tasks \ {t} : task'[u] = task[u]
      /\ attempts' \in [Tasks -> 0..MaxAttempts]
  BY <1>1, EmailAssumption DEF RetryTask, TypeOK, TaskStatus
<1>5. TypeOK' /\ Busy(process'[r])
  BY <1>1, <1>2, <1>3, <1>4 DEF TypeOK, history, Busy
<1>6. ASSUME t \notin retried' PROVE OneSender(t)'
  <2>1. OneSender(t) /\ task[t] \in Claimable /\ message' = message /\ accepted' = accepted
    BY <1>1, <1>6 DEF Inv, history, Claimable
  <2>2. (\A q \in Processes : ~Active(q, t)) /\ message[t] # "draft"
    BY <2>1 DEF OneSender
  <2>3. \A q \in Processes : ~Active(q, t)'
    BY <1>2, <1>3, <2>2 DEF Active, OnTheWay
  <2>4. \A q \in Processes : Follows(q, t)'
    BY <2>3 DEF Active, OnTheWay, Follows, At
  <2>5. CopyOut(t)
    BY <2>1 DEF OneSender
  <2>6. CopyOut(t)'
    BY <2>1, <2>5 DEF CopyOut
  <2> QED BY <2>1, <2>2, <2>3, <2>4, <2>6 DEF OneSender
<1>7. \A u \in Tasks \ {t} :
        task'[u] = task[u] /\ message'[u] = message[u] /\ accepted'[u] = accepted[u]
  BY <1>1, <1>4 DEF history
<1>8. retried \subseteq retried' /\ message' = message
  BY <1>1 DEF history
<1>9. process'[r].at \notin {"sender", "deliver", "mark_sent"}
  BY <1>3
<1> QED BY <1>1, <1>2, <1>3, <1>5, <1>6, <1>7, <1>8, <1>9, StepInv

LEMMA ReopenInv == ASSUME Inv, NEW r \in Requests, NEW t \in Tasks, Reopen(r, t) PROVE Inv'
<1>1. /\ r \in Processes /\ TypeOK /\ UNCHANGED <<task, attempts, history>>
      /\ Ends(r) /\ message' = Set(t, {"failed"}, "approved") /\ "approved" \in MessageStatus
  BY DEF Reopen, Inv, Typed, Processes, MessageStatus
<1>2. CASE message[t] # "failed"
  <2>1. message' = message
    BY <1>1, <1>2 DEF Set
  <2> QED BY <1>1, <2>1, EndsInv DEF TypeOK, history
<1>3. CASE message[t] = "failed"
  <2>1. /\ message' \in [Tasks -> MessageStatus] /\ message'[t] = "approved"
        /\ \A u \in Tasks \ {t} : message'[u] = message[u]
    BY <1>1, <1>3, SetTyped DEF Set, TypeOK
  <2>2. /\ process' \in [Processes -> ProcessState] /\ process'[r] = Idle
        /\ \A q \in Processes : q # r => process'[q] = process[q]
    BY <1>1, EndsIdle
  <2>3. TypeOK' /\ process'[r].at = "idle"
    BY <1>1, <2>1, <2>2, IdleTyped DEF TypeOK, history
  <2>4. ASSUME t \notin retried' PROVE OneSender(t)'
    <3>1. OneSender(t) /\ task' = task /\ accepted' = accepted
      BY <1>1, <2>4 DEF Inv, history
    <3>2. \A q \in Processes : Active(q, t)' => Active(q, t)
      BY <2>2, <2>3 DEF Active, OnTheWay
    <3>3. ASSUME NEW q \in Processes PROVE Follows(q, t)'
      <4>1. Follows(q, t)
        BY <3>1 DEF OneSender
      <4>2. ~At(q, "sender", t) /\ ~At(q, "deliver", t) /\ ~At(q, "record", t)
        BY <1>3, <4>1 DEF Follows, Sendable
      <4> QED BY <2>2, <2>3, <4>2 DEF Follows, At
    <3>4. accepted[t] = 0
      BY <1>3, <3>1 DEF OneSender, CopyOut
    <3>5. CopyOut(t)' /\ message'[t] # "draft"
      BY <2>1, <3>1, <3>4 DEF CopyOut
    <3>6. \A q, s \in Processes : Active(q, t)' /\ Active(s, t)' => q = s
      BY <3>1, <3>2 DEF OneSender
    <3>7. \A q \in Processes : Active(q, t)' => task'[t] \notin Claimable /\ message'[t] # "draft"
      BY <3>1, <3>2, <3>5 DEF OneSender
    <3> QED BY <3>3, <3>5, <3>6, <3>7 DEF OneSender
  <2>5. \A u \in Tasks \ {t} :
          task'[u] = task[u] /\ message'[u] = message[u] /\ accepted'[u] = accepted[u]
    BY <1>1, <2>1 DEF history
  <2>6. message'[t] \in Gone /\ retried \subseteq retried'
    BY <1>1, <2>1 DEF Gone, history
  <2> QED BY <1>1, <2>2, <2>3, <2>4, <2>5, <2>6, StepInv
<1> QED BY <1>2, <1>3

-----------------------------------------------------------------------------
(* What the rest of the system does to the step: only its own row changes.    *)

LEMMA TaskRowInv ==
  ASSUME Inv, TypeOK', NEW t \in Tasks,
         UNCHANGED <<message, process, accepted>>, retried \subseteq retried',
         \A u \in Tasks \ {t} : task'[u] = task[u],
         t \notin retried' => task'[t] = task[t] \/ task'[t] \notin Claimable
  PROVE  Inv'
<1>1. ProcessesOK' /\ PastDraft'
  BY DEF Inv, Typed, ProcessesOK, PastDraft, At
<1>2. ASSUME NEW u \in Tasks, u \notin retried' PROVE OneSender(u)'
  <2>1. OneSender(u)
    BY <1>2 DEF Inv
  <2>2. task[u] \notin Claimable => task'[u] \notin Claimable
    BY <1>2
  <2>3. \A q \in Processes : (Active(q, u)' <=> Active(q, u)) /\ (Follows(q, u)' <=> Follows(q, u))
    BY DEF Active, Follows, At
  <2>4. CopyOut(u)'
    BY <2>1, <2>2, <2>3 DEF OneSender, CopyOut
  <2> QED BY <2>1, <2>2, <2>3, <2>4 DEF OneSender
<1> QED BY <1>1, <1>2 DEF Inv, Typed

LEMMA OutsideInv ==
  ASSUME Inv, NEW t \in Tasks, ReapTask(t) \/ StopTask(t) \/ DismissTask(t)
  PROVE  Inv'
<1>1. TypeOK
  BY DEF Inv, Typed
<1>2. CASE ReapTask(t)
  <2>1. TypeOK'
    BY <1>1, <1>2 DEF ReapTask, TypeOK, TaskStatus
  <2>2. t \in retried' /\ retried \subseteq retried' /\ UNCHANGED <<message, process, accepted>>
        /\ \A u \in Tasks \ {t} : task'[u] = task[u]
    BY <1>1, <1>2 DEF ReapTask, TypeOK
  <2> QED BY <2>1, <2>2, TaskRowInv
<1>3. CASE StopTask(t)
  <2>1. TypeOK'
    BY <1>1, <1>3 DEF StopTask, TypeOK, TaskStatus
  <2>2. (task'[t] = task[t] \/ task'[t] = "cancelled")
        /\ \A u \in Tasks \ {t} : task'[u] = task[u]
    BY <1>1, <1>3 DEF StopTask, TypeOK
  <2>3. retried \subseteq retried' /\ UNCHANGED <<message, process, accepted>>
    BY <1>3 DEF StopTask
  <2> QED BY <2>1, <2>2, <2>3, TaskRowInv DEF Claimable
<1>4. CASE DismissTask(t)
  <2>1. TypeOK'
    BY <1>1, <1>4 DEF DismissTask, TypeOK, TaskStatus, history
  <2>2. task'[t] = "cancelled" /\ \A u \in Tasks \ {t} : task'[u] = task[u]
    BY <1>1, <1>4 DEF DismissTask, TypeOK
  <2>3. retried \subseteq retried' /\ UNCHANGED <<message, process, accepted>>
    BY <1>4 DEF DismissTask, history
  <2> QED BY <2>1, <2>2, <2>3, TaskRowInv DEF Claimable
<1> QED BY <1>2, <1>3, <1>4

LEMMA LoseProcessInv == ASSUME Inv, NEW p \in Processes, LoseProcess(p) PROVE Inv'
<1>1. TypeOK /\ Ends(p) /\ UNCHANGED <<task, attempts, message, stopped, accepted, retried>>
  BY DEF LoseProcess, Inv, Typed
<1>2. process[p].task \in Tasks
  BY DEF LoseProcess, Inv, Typed, ProcessesOK, Busy
<1>3. faults' \in 0..FaultBound
  BY <1>1, EmailAssumption DEF LoseProcess, TypeOK
<1>4. stranded' \subseteq Tasks
  BY <1>1, <1>2 DEF LoseProcess, TypeOK
<1> QED BY <1>1, <1>2, <1>3, <1>4, EndsInv

-----------------------------------------------------------------------------
LEMMA InitInv == Init => Inv
<1> SUFFICES ASSUME Init PROVE Inv
  OBVIOUS
<1>1. \A p \in Processes : process[p] = Idle
  BY DEF Init
<1>2. TypeOK
  BY IdleTyped, EmailAssumption DEF Init, TypeOK, TaskStatus, MessageStatus
<1>3. ProcessesOK
  BY <1>1 DEF ProcessesOK
<1>4. \A p \in Processes, t \in Tasks : ~Active(p, t) /\ Follows(p, t)
  BY <1>1, IdleTyped DEF Active, OnTheWay, Follows, At
<1>5. PastDraft
  BY <1>1, IdleTyped DEF PastDraft, At
<1>6. \A t \in Tasks : accepted[t] = 0 /\ message[t] = "none"
  BY DEF Init
<1>7. \A t \in Tasks : OneSender(t)
  BY <1>4, <1>6 DEF OneSender, CopyOut
<1> QED BY <1>2, <1>3, <1>5, <1>7 DEF Inv, Typed

LEMMA NextInv == Inv /\ [Next]_vars => Inv'
<1> SUFFICES ASSUME Inv, [Next]_vars PROVE Inv'
  OBVIOUS
<1>1. ASSUME NEW t \in Tasks, ReapTask(t) \/ StopTask(t) \/ DismissTask(t) PROVE Inv'
  BY <1>1, OutsideInv
<1>2. ASSUME NEW p \in Processes, LoseProcess(p) PROVE Inv'
  BY <1>2, LoseProcessInv
<1>3. ASSUME NEW t \in Tasks, NEW w \in Workers, Claim(w, t) \/ Run(w, t) PROVE Inv'
  <2>1. CASE Claim(w, t)
    BY <2>1, ClaimInv
  <2>2. CASE Prepare(w, t)
    BY <2>2, PrepareInv
  <2>3. CASE \E a \in Answers : CheckGate(w, t, a)
    BY <2>3, CheckGateInv
  <2>4. CASE \E o \in Outcomes : Compose(w, t, o)
    BY <2>4, ComposeInv
  <2> QED BY <1>3, <2>1, <2>2, <2>3, <2>4 DEF Run
<1>4. ASSUME NEW t \in Tasks, NEW p \in Processes, Send(p, t) PROVE Inv'
  <2>1. CASE ReadMessage(p, t)
    BY <2>1, ReadMessageInv
  <2>2. CASE MarkSent(p, t)
    BY <2>2, MarkSentInv
  <2>3. CASE Conclude(p, t)
    BY <2>3, ConcludeInv
  <2>4. CASE \E b \in BOOLEAN : CheckSender(p, t, b)
    BY <2>4, CheckSenderInv
  <2>5. CASE \E a \in {"accepted", "rejected", "lost"} : Deliver(p, t, a)
    BY <2>5, DeliverInv
  <2>6. CASE \E o \in {"recorded", "error"} : Record(p, t, o)
    BY <2>6, RecordInv
  <2> QED BY <1>4, <2>1, <2>2, <2>3, <2>4, <2>5, <2>6 DEF Send
<1>5. ASSUME NEW t \in Tasks, NEW r \in Requests, Asked(r, t) \/ Proceed(r, t) PROVE Inv'
  <2>1. CASE Approve(r, t) \/ Discard(r, t)
    BY <2>1, ReviewInv
  <2>2. CASE ExpireDraft(r, t)
    BY <2>2, ExpireDraftInv
  <2>3. CASE RetryTask(r, t)
    BY <2>3, RetryTaskInv
  <2>4. CASE \E a \in Answers : Recheck(r, t, a)
    BY <2>4, RecheckInv
  <2>5. CASE Accept(r, t)
    BY <2>5, AcceptInv
  <2>6. CASE Close(r, t)
    BY <2>6, CloseInv
  <2>7. CASE Reopen(r, t)
    BY <2>7, ReopenInv
  <2> QED BY <1>5, <2>1, <2>2, <2>3, <2>4, <2>5, <2>6, <2>7 DEF Asked, Proceed
<1>6. CASE UNCHANGED vars
  BY <1>6 DEF vars, Inv, Typed, TypeOK, ProcessesOK, PastDraft, At, OneSender, Active, Follows,
              CopyOut
<1> QED BY <1>1, <1>2, <1>3, <1>4, <1>5, <1>6 DEF Next

THEOREM InvAlways == Spec => []Inv
  BY InitInv, NextInv, PTL DEF Spec

(* The rows and the processes always hold what the code can write in them.    *)
THEOREM TypesHold == Spec => []TypeOK
  BY InvAlways, PTL DEF Inv, Typed

(* However many workers, approvals, expiries and retries meet on one e-mail,  *)
(* its contact gets a second copy only after a lost answer or an ended lease. *)
THEOREM OneCopyHolds == Spec => []OneCopyUnlessRetried
<1>1. Inv => OneCopyUnlessRetried
  BY DEF Inv, OneSender, CopyOut, OneCopyUnlessRetried
<1> QED BY <1>1, InvAlways, PTL

-----------------------------------------------------------------------------
(* What was discarded.                                                        *)

LEMMA SetKeeps ==
  ASSUME NEW t \in Tasks, NEW u \in Tasks, NEW from, NEW to, TypeOK,
         message[u] = "discarded", "discarded" \notin from, message' = Set(t, from, to)
  PROVE  message'[u] = "discarded"
  BY DEF Set, TypeOK

LEMMA DiscardedStep ==
  ASSUME Inv, Next, NEW u \in Tasks, message[u] = "discarded"
  PROVE  message'[u] = "discarded" /\ accepted'[u] = accepted[u]
<1> DEFINE Kept == message'[u] = "discarded" /\ accepted'[u] = accepted[u]
<1>0. /\ TypeOK /\ "discarded" \notin Gone /\ "discarded" \notin Sendable
      /\ "discarded" \notin {"draft"} /\ "discarded" \notin {"failed"}
      /\ "discarded" \notin {"sending"}
  BY DEF Inv, Typed, Gone, Sendable
<1>1. ASSUME UNCHANGED <<message, accepted>> PROVE Kept
  BY <1>1
<1>2. ASSUME NEW t \in Tasks, NEW from, NEW to, "discarded" \notin from,
             message' = Set(t, from, to), UNCHANGED accepted
      PROVE  Kept
  BY <1>0, <1>2, SetKeeps
<1> HIDE DEF Kept
<1>3. ASSUME NEW t \in Tasks, ReapTask(t) \/ StopTask(t) \/ DismissTask(t) PROVE Kept
  BY <1>1, <1>3 DEF ReapTask, StopTask, DismissTask, history
<1>4. ASSUME NEW p \in Processes, LoseProcess(p) PROVE Kept
  BY <1>1, <1>4 DEF LoseProcess
<1>5. ASSUME NEW t \in Tasks, NEW w \in Workers, Claim(w, t) \/ Run(w, t) PROVE Kept
  <2>1. CASE Claim(w, t)
    BY <1>1, <2>1 DEF Claim, history
  <2>2. CASE Prepare(w, t)
    BY <1>1, <2>2 DEF Prepare, history
  <2>3. CASE \E a \in Answers : CheckGate(w, t, a)
    BY <1>1, <2>3 DEF CheckGate, history
  <2>4. ASSUME NEW o \in Outcomes, Compose(w, t, o) PROVE Kept
    <3>1. UNCHANGED accepted
      BY <2>4 DEF Compose, history
    <3>2. CASE UNCHANGED message
      BY <1>1, <3>1, <3>2
    <3>3. CASE message[t] = "none" /\ message' = [message EXCEPT ![t] = o]
      BY <1>0, <3>1, <3>3 DEF TypeOK, Kept
    <3>4. UNCHANGED message \/ (message[t] = "none" /\ message' = [message EXCEPT ![t] = o])
      BY <2>4, Zenon DEF Compose
    <3> QED BY <3>2, <3>3, <3>4
  <2> QED BY <1>5, <2>1, <2>2, <2>3, <2>4 DEF Run
<1>6. ASSUME NEW t \in Tasks, NEW p \in Processes, Send(p, t) PROVE Kept
  <2>1. CASE ReadMessage(p, t)
    BY <1>1, <2>1 DEF ReadMessage, history
  <2>2. CASE MarkSent(p, t)
    <3>1. message[t] \in Gone
      BY <2>2 DEF MarkSent, Inv, PastDraft
    <3>2. message'[u] = message[u] /\ UNCHANGED accepted
      BY <1>0, <2>2, <3>1 DEF MarkSent, TypeOK, history
    <3> QED BY <3>2 DEF Kept
  <2>3. CASE Conclude(p, t)
    BY <1>1, <2>3 DEF Conclude, history
  <2>4. CASE \E b \in BOOLEAN : CheckSender(p, t, b)
    <3>1. PICK b \in BOOLEAN : CheckSender(p, t, b)
      BY <2>4
    <3>2. UNCHANGED accepted /\ \E to : message' = Set(t, Sendable, to)
      BY <3>1 DEF CheckSender, history
    <3> QED BY <1>0, <1>2, <3>2
  <2>5. ASSUME NEW a, Deliver(p, t, a) PROVE Kept
    <3>1. t # u
      BY <1>0, <2>5 DEF Deliver, Inv, PastDraft
    <3>2. \A n \in 0..1 : Taken(t, n)[u] = accepted[u]
      BY <1>0, <3>1, TakenCounts
    <3>3. accepted'[u] = accepted[u]
      BY <2>5, <3>2 DEF Deliver
    <3>4. message' = message \/ message' = Set(t, {"sending"}, "failed")
      BY <2>5, Zenon DEF Deliver
    <3>5. message'[u] = "discarded"
      BY <1>0, <3>4, SetKeeps
    <3> QED BY <3>3, <3>5 DEF Kept
  <2>6. CASE \E o \in {"recorded", "error"} : Record(p, t, o)
    BY <1>1, <2>6 DEF Record
  <2> QED BY <1>6, <2>1, <2>2, <2>3, <2>4, <2>5, <2>6 DEF Send
<1>7. ASSUME NEW t \in Tasks, NEW r \in Requests, Asked(r, t) \/ Proceed(r, t) PROVE Kept
  <2>1. CASE Approve(r, t) \/ Discard(r, t)
    BY <1>1, <2>1 DEF Approve, Discard, history
  <2>2. CASE ExpireDraft(r, t)
    <3>1. UNCHANGED accepted /\ message' = Set(t, {"draft"}, "discarded")
      BY <2>2 DEF ExpireDraft, Set, history
    <3> QED BY <1>0, <1>2, <3>1
  <2>3. CASE RetryTask(r, t)
    BY <1>1, <2>3 DEF RetryTask, history
  <2>4. CASE \E a \in Answers : Recheck(r, t, a)
    BY <1>1, <2>4 DEF Recheck, history
  <2>5. CASE Accept(r, t)
    <3>1. UNCHANGED accepted /\ message' = Set(t, {"draft"}, "approved")
      BY <2>5 DEF Accept, history
    <3> QED BY <1>0, <1>2, <3>1
  <2>6. CASE Close(r, t)
    <3>1. UNCHANGED accepted /\ message' = Set(t, {"draft"}, "discarded")
      BY <2>6 DEF Close, history
    <3> QED BY <1>0, <1>2, <3>1
  <2>7. CASE Reopen(r, t)
    <3>1. UNCHANGED accepted /\ message' = Set(t, {"failed"}, "approved")
      BY <2>7 DEF Reopen, history
    <3> QED BY <1>0, <1>2, <3>1
  <2> QED BY <1>7, <2>1, <2>2, <2>3, <2>4, <2>5, <2>6, <2>7 DEF Asked, Proceed
<1>8. Kept
  BY <1>3, <1>4, <1>5, <1>6, <1>7 DEF Next
<1> QED BY <1>8 DEF Kept

(* No approval, retry or worker revives an e-mail that was discarded: its     *)
(* message stays discarded, and not one more copy of it goes out.             *)
THEOREM DiscardedHolds == Spec => DiscardedStaysUnsent
<1>1. ASSUME Inv, [Next]_vars
      PROVE  [\A t \in Tasks : message[t] = "discarded" =>
                 message'[t] = "discarded" /\ accepted'[t] = accepted[t]]_vars
  BY <1>1, DiscardedStep
<1> QED BY <1>1, InvAlways, PTL DEF Spec, DiscardedStaysUnsent
=============================================================================
