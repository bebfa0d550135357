----------------------------- MODULE BeatProofs -----------------------------
(***************************************************************************)
(* The three systems that the beat wakes up, each with variables of its    *)
(* own. First two promises of the gate that hold although a batch asks it  *)
(* with an old clock, for every length of the day, windows, gap, budget    *)
(* and batch: follow-ups keep their distance from the touch before them,   *)
(* and calls keep to the contact's window but for the time the batch is    *)
(* under way. Then what the reminders of a booking and their outbox        *)
(* promise, for any notifications, processes, retries and faults           *)
(* (RemindersInv). Last what a verification tells of the audit trail, for  *)
(* any rows, sealers, batch size, damage and dying sealers (ChainInv).     *)
(***************************************************************************)
EXTENDS Cadence, Reminders, AuditChain, FiniteSetTheorems, WellFoundedInduction, TLAPS

-----------------------------------------------------------------------------
(* The clock of the day.                                                      *)

(* Division with remainder, as the provers know it. *)
LEMMA Division ==
  ASSUME NEW d \in Nat \ {0}, NEW a \in Int
  PROVE  /\ a \div d \in Int
         /\ a % d \in 0..d - 1
         /\ a = d * (a \div d) + (a % d)
  BY SMT

(* A remainder is its own remainder. *)
LEMMA ModSmall == ASSUME NEW d \in Nat \ {0}, NEW a \in 0..d - 1 PROVE a % d = a
  BY SMT

(* There is one remainder. *)
LEMMA OneRemainder ==
  ASSUME NEW d \in Nat \ {0}, NEW q \in Int, NEW p \in Int,
         NEW r \in 0..d - 1, NEW s \in 0..d - 1, d * q + r = d * p + s
  PROVE  r = s
<1>1. q = p \/ q <= p - 1 \/ p <= q - 1
  OBVIOUS
<1>2. CASE q = p
  BY <1>2
<1>3. CASE q <= p - 1
  <2>1. d * q <= d * (p - 1)
    BY <1>3, SMT
  <2>2. d * (p - 1) = d * p - d
    BY SMT
  <2> QED BY <2>1, <2>2, SMT
<1>4. CASE p <= q - 1
  <2>1. d * p <= d * (q - 1)
    BY <1>4, SMT
  <2>2. d * (q - 1) = d * q - d
    BY SMT
  <2> QED BY <2>1, <2>2, SMT
<1> QED BY <1>1, <1>2, <1>3, <1>4

(* The same hour a day earlier. *)
LEMMA ModBack == ASSUME NEW d \in Nat \ {0}, NEW a \in Int PROVE (a - d) % d = a % d
<1> DEFINE q == a \div d
           r == a % d
           p == (a - d) \div d
           s == (a - d) % d
<1>1. a = d * q + r /\ q \in Int /\ r \in 0..d - 1
  BY Division
<1>2. a - d = d * p + s /\ p \in Int /\ s \in 0..d - 1
  BY Division, a - d \in Int
<1> HIDE DEF q, r, p, s
<1>3. d * (p + 1) = d * p + d
  BY <1>2, SMT
<1>4. d * (p + 1) + s = d * q + r
  BY <1>1, <1>2, <1>3, SMT
<1>5. p + 1 \in Int
  BY <1>2
<1>6. s = r
  BY <1>1, <1>2, <1>4, <1>5, OneRemainder
<1> QED BY <1>6 DEF r, s

(* Looking back one tick further after a tick shows the same hour. *)
LEMMA LookBack ==
  ASSUME NEW d \in Nat \ {0}, NEW h \in 0..d - 1, NEW late \in Nat
  PROVE  /\ (h + 1) % d \in 0..d - 1
         /\ (((h + 1) % d) - (late + 1)) % d = (h - late) % d
<1>1. CASE h + 1 < d
  <2>1. (h + 1) % d = h + 1
    BY <1>1, ModSmall, h + 1 \in 0..d - 1
  <2>2. (h + 1) - (late + 1) = h - late
    OBVIOUS
  <2> QED BY <1>1, <2>1, <2>2
<1>2. CASE h + 1 = d
  <2>1. (h + 1) % d = 0
    <3>1. (d - d) % d = d % d
      BY ModBack
    <3>2. 0 % d = 0
      BY ModSmall
    <3>3. d - d = 0
      OBVIOUS
    <3> QED BY <1>2, <3>1, <3>2, <3>3
  <2>2. 0 - (late + 1) = (h - late) - d
    BY <1>2
  <2>3. ((h - late) - d) % d = (h - late) % d
    BY ModBack, h - late \in Int
  <2> QED BY <2>1, <2>2, <2>3
<1> QED BY <1>1, <1>2

-----------------------------------------------------------------------------
(* The invariant.                                                             *)

Clock == hour \in 0..DayLength - 1 /\ since \in Nat

(* Rows keep their columns, and there are none before the plan. *)
Row(t) == [channel |-> t.channel, chat |-> t.chat, thanks |-> t.thanks,
           status |-> t.status, due |-> t.due, attempts |-> t.attempts]
Rows ==
  /\ task = [i \in DOMAIN task |-> Row(task[i])]
  /\ planKind = "none" => DOMAIN task = {}

(* A batch owns its steps, serves one of them at a time, and only a step that *)
(* has passed the gate has been waiting since.                                *)
Batch ==
  /\ run = [pc |-> run.pc, batch |-> run.batch, task |-> run.task,
            age |-> run.age, gated |-> run.gated]
  /\ run.pc \in {"idle", "next", "run"}
  /\ run.age \in Nat /\ run.gated \in Nat
  /\ run.batch \subseteq DOMAIN task
  /\ \A j \in run.batch : task[j].status = "in_progress"
  /\ run.pc = "run" => run.task \in run.batch
  /\ run.pc = "next" => run.gated = 0

(* What the gate's "go" still says of a step that is yet to be sent. *)
GapStands ==
  run.pc = "run" /\ Purpose(run.task) = "outreach" => since >= Gap \/ since <= run.gated
WindowStands ==
  run.pc = "run" /\ task[run.task].channel = "call"
    => \E late \in 0..run.age : Within((hour - late) % DayLength, CallOpen, CallClose)

Inv == Clock /\ Rows /\ Batch /\ GapStands /\ WindowStands

-----------------------------------------------------------------------------
(* Steps that leave the batch and its rows alone.                             *)

LEMMA BatchUndisturbed ==
  ASSUME Inv, hour' = hour, run' = run, planKind' = planKind,
         since' = since \/ since' = 0,
         DOMAIN task' = DOMAIN task, task' = [i \in DOMAIN task |-> Row(task'[i])],
         \A j \in run.batch : task'[j] = task[j]
  PROVE  Inv'
<1>1. Clock'
  BY DEF Inv, Clock
<1>2. Rows'
  BY DEF Inv, Rows, Row
<1>3. Batch'
  BY DEF Inv, Batch
<1>4. ASSUME run.pc = "run"
      PROVE  /\ Purpose(run.task)' = Purpose(run.task)
             /\ task'[run.task] = task[run.task]
  BY <1>4 DEF Inv, Batch, Purpose
<1>5. GapStands'
  BY <1>4 DEF Inv, GapStands, Batch
<1>6. WindowStands'
  BY <1>4 DEF Inv, WindowStands
<1> QED BY <1>1, <1>2, <1>3, <1>5, <1>6 DEF Inv

(* A writer of one row leaves the others as they are, and all of them rows. *)
LEMMA OneRow ==
  ASSUME Inv, NEW i \in DOMAIN task,
         NEW thanked, NEW status, NEW ticks, NEW attempts,
         task' = [task EXCEPT ![i] = [channel |-> task[i].channel, chat |-> task[i].chat,
                                      thanks |-> thanked, status |-> status,
                                      due |-> ticks, attempts |-> attempts]]
  PROVE  /\ DOMAIN task' = DOMAIN task
         /\ task' = [k \in DOMAIN task |-> Row(task'[k])]
         /\ \A k \in DOMAIN task : k # i => task'[k] = task[k]
         /\ task'[i] = [channel |-> task[i].channel, chat |-> task[i].chat,
                        thanks |-> thanked, status |-> status,
                        due |-> ticks, attempts |-> attempts]
<1>1. task = [k \in DOMAIN task |-> Row(task[k])]
  BY DEF Inv, Rows
<1>2. \A k \in DOMAIN task : task[k] = Row(task[k])
  BY <1>1
<1>3. /\ DOMAIN task' = DOMAIN task
      /\ \A k \in DOMAIN task : k # i => task'[k] = task[k]
      /\ task'[i] = [channel |-> task[i].channel, chat |-> task[i].chat, thanks |-> thanked,
                     status |-> status, due |-> ticks, attempts |-> attempts]
      /\ task' = [k \in DOMAIN task |-> task'[k]]
  BY <1>1
<1>4. \A k \in DOMAIN task : task'[k] = Row(task'[k])
  BY <1>2, <1>3 DEF Row
<1> QED BY <1>3, <1>4

(* A row of six columns is a row. *)
LEMMA SixColumns ==
  ASSUME NEW channel, NEW chat, NEW thanked, NEW status, NEW ticks, NEW attempts, NEW t,
         t = [channel |-> channel, chat |-> chat, thanks |-> thanked,
              status |-> status, due |-> ticks, attempts |-> attempts]
  PROVE  t = Row(t)
  BY DEF Row

(* The same, for the updates the actions are written with. *)
LEMMA RowWithStatus ==
  ASSUME NEW t, t = Row(t), NEW status
  PROVE  [t EXCEPT !.status = status] =
           [channel |-> t.channel, chat |-> t.chat, thanks |-> t.thanks,
            status |-> status, due |-> t.due, attempts |-> t.attempts]
  BY DEF Row

LEMMA RowWithDue ==
  ASSUME NEW t, t = Row(t), NEW ticks
  PROVE  [t EXCEPT !.due = ticks] =
           [channel |-> t.channel, chat |-> t.chat, thanks |-> t.thanks,
            status |-> t.status, due |-> ticks, attempts |-> t.attempts]
  BY DEF Row

LEMMA RowWithThanks ==
  ASSUME NEW t, t = Row(t), NEW thanked
  PROVE  [t EXCEPT !.thanks = thanked] =
           [channel |-> t.channel, chat |-> t.chat, thanks |-> thanked,
            status |-> t.status, due |-> t.due, attempts |-> t.attempts]
  BY DEF Row

LEMMA RowWithBoth ==
  ASSUME NEW t, t = Row(t), NEW status, NEW ticks
  PROVE  [t EXCEPT !.status = status, !.due = ticks] =
           [channel |-> t.channel, chat |-> t.chat, thanks |-> t.thanks,
            status |-> status, due |-> ticks, attempts |-> t.attempts]
<1> DEFINE r == [channel |-> t.channel, chat |-> t.chat, thanks |-> t.thanks,
                 status |-> status, due |-> t.due, attempts |-> t.attempts]
<1>1. [t EXCEPT !.status = status] = r
  BY RowWithStatus
<1>2. r = Row(r)
  BY DEF Row
<1>3. /\ r.channel = t.channel /\ r.chat = t.chat /\ r.thanks = t.thanks
      /\ r.status = status /\ r.attempts = t.attempts
  OBVIOUS
<1> HIDE DEF r
<1>4. [r EXCEPT !.due = ticks] =
        [channel |-> r.channel, chat |-> r.chat, thanks |-> r.thanks,
         status |-> r.status, due |-> ticks, attempts |-> r.attempts]
  BY <1>2, RowWithDue
<1> QED BY <1>1, <1>3, <1>4

LEMMA FinishedRow ==
  ASSUME Inv, NEW i \in DOMAIN task, NEW status
  PROVE  Finished(i, status) =
           [task EXCEPT ![i] = [channel |-> task[i].channel, chat |-> task[i].chat,
              thanks |-> task[i].thanks, status |-> status, due |-> task[i].due,
              attempts |-> task[i].attempts]]
<1>1. task[i] = Row(task[i])
  BY DEF Inv, Rows
<1>2. Finished(i, status) = [task EXCEPT ![i] = [task[i] EXCEPT !.status = status]]
  BY DEF Finished, Inv, Rows
<1> QED BY <1>1, <1>2, RowWithStatus

LEMMA RescheduledRow ==
  ASSUME Inv, NEW i \in DOMAIN task, NEW ticks
  PROVE  Rescheduled(i, ticks) =
           [task EXCEPT ![i] = [channel |-> task[i].channel, chat |-> task[i].chat,
              thanks |-> task[i].thanks, status |-> "scheduled", due |-> ticks,
              attempts |-> task[i].attempts]]
<1>1. task[i] = Row(task[i])
  BY DEF Inv, Rows
<1>2. Rescheduled(i, ticks) =
        [task EXCEPT ![i] = [task[i] EXCEPT !.status = "scheduled", !.due = ticks]]
  BY DEF Rescheduled, Inv, Rows
<1>3. [task[i] EXCEPT !.status = "scheduled", !.due = ticks] =
        [channel |-> task[i].channel, chat |-> task[i].chat, thanks |-> task[i].thanks,
         status |-> "scheduled", due |-> ticks, attempts |-> task[i].attempts]
  BY <1>1, RowWithBoth
<1> QED BY <1>2, <1>3

-----------------------------------------------------------------------------
(* Each action preserves the invariant.                                       *)

LEMMA InitInv == Init => Inv
<1> SUFFICES ASSUME Init PROVE Inv
  OBVIOUS
<1> USE CadenceAssumption
<1>1. Clock
  <2>1. DayLength \in Nat \ {0} /\ Gap \in Nat /\ BatchSpan \in Nat
    OBVIOUS
  <2> QED BY <2>1 DEF Init, Clock, Long
<1>2. DOMAIN task = {} /\ Rows
  BY DEF Init, Rows, Row
<1>3. Batch
  BY <1>2 DEF Init, Batch, Idle
<1>4. GapStands /\ WindowStands
  BY DEF Init, GapStands, WindowStands, Idle
<1> QED BY <1>1, <1>2, <1>3, <1>4 DEF Inv

LEMMA CreatePlanInv ==
  ASSUME Inv, NEW proposal \in Proposals, CreatePlan(proposal)
  PROVE  Inv'
<1> DEFINE kept == Validated(proposal.kind, proposal.steps)
<1>1. /\ task' = [i \in 1..Len(kept) |-> Scheduled(kept[i])]
      /\ planKind = "none" /\ DOMAIN task = {}
      /\ UNCHANGED <<hour, since, run>>
  BY DEF CreatePlan, Inv, Rows
<1> HIDE DEF kept
<1>2. DOMAIN task' = 1..Len(kept) /\ \A i \in DOMAIN task' : task'[i] = Row(task'[i])
  BY <1>1 DEF Scheduled, Row
<1>3. planKind' # "none"
  BY DEF CreatePlan, Proposals
<1>4. Rows'
  BY <1>1, <1>2, <1>3 DEF Rows, Row
<1>5. run.batch = {} /\ run.pc # "run"
  BY <1>1 DEF Inv, Batch
<1>6. Clock' /\ Batch' /\ GapStands' /\ WindowStands'
  BY <1>1, <1>5 DEF Inv, Clock, Batch, GapStands, WindowStands
<1> QED BY <1>4, <1>6 DEF Inv

LEMMA ClaimInv == ASSUME Inv, ClaimDueTasks PROVE Inv'
<1>1. \A i \in DOMAIN task : task[i] = Row(task[i])
  BY DEF Inv, Rows
<1>2. \A i \in DOMAIN task :
        [task[i] EXCEPT !.status = "in_progress"] =
          [channel |-> task[i].channel, chat |-> task[i].chat, thanks |-> task[i].thanks,
           status |-> "in_progress", due |-> task[i].due, attempts |-> task[i].attempts]
  BY <1>1, RowWithStatus
<1>3. /\ DOMAIN task' = DOMAIN task
      /\ task' = [i \in DOMAIN task |-> task'[i]]
      /\ \A i \in Due : task'[i] = [task[i] EXCEPT !.status = "in_progress"]
      /\ \A i \in DOMAIN task \ Due : task'[i] = task[i]
  BY DEF ClaimDueTasks, Due
<1>4. \A i \in DOMAIN task : task'[i] = Row(task'[i])
  <2> TAKE i \in DOMAIN task
  <2>1. CASE i \in Due
    <3>1. task'[i] =
            [channel |-> task[i].channel, chat |-> task[i].chat, thanks |-> task[i].thanks,
             status |-> "in_progress", due |-> task[i].due, attempts |-> task[i].attempts]
      BY <1>2, <1>3, <2>1
    <3> QED BY <3>1, SixColumns
  <2>2. CASE i \notin Due
    BY <1>1, <1>3, <2>2
  <2> QED BY <2>1, <2>2
<1>5. Rows'
  BY <1>3, <1>4 DEF ClaimDueTasks, Inv, Rows
<1>6. \A i \in Due : task'[i].status = "in_progress"
  BY <1>2, <1>3 DEF Due
<1>7. Due \subseteq DOMAIN task /\ run' = [Idle EXCEPT !.pc = "next", !.batch = Due]
  BY DEF ClaimDueTasks, Due
<1> HIDE DEF Due
<1>8. run' = [pc |-> "next", batch |-> Due, task |-> 0, age |-> 0, gated |-> 0]
  BY <1>7 DEF Idle
<1>9. /\ run'.pc = "next" /\ run'.batch = Due /\ run'.task = 0
      /\ run'.age = 0 /\ run'.gated = 0
  BY <1>8
<1>11. Batch'
  <2>1. run' = [pc |-> run'.pc, batch |-> run'.batch, task |-> run'.task,
                age |-> run'.age, gated |-> run'.gated]
    BY <1>8, <1>9
  <2>2. run'.batch \subseteq DOMAIN task' /\ \A j \in run'.batch : task'[j].status = "in_progress"
    BY <1>3, <1>6, <1>7, <1>9
  <2> QED BY <1>9, <2>1, <2>2 DEF Batch
<1>10. Clock' /\ GapStands' /\ WindowStands'
  BY <1>8 DEF Inv, Clock, ClaimDueTasks, GapStands, WindowStands
<1> QED BY <1>5, <1>10, <1>11 DEF Inv

(* A "go" says that a follow-up is far from the touch before it, and that a   *)
(* phone rings inside the window the batch's clock shows.                     *)
LEMMA GoMeans ==
  ASSUME Inv, NEW i, GateCode(i, Purpose(i), run.age) = "go"
  PROVE  /\ Purpose(i) = "outreach" => since >= Gap
         /\ task[i].channel = "call" => Within((hour - run.age) % DayLength, CallOpen, CallClose)
<1> USE CadenceAssumption
<1>1. Gap \in Nat /\ BatchSpan \in Nat /\ since \in Nat /\ run.age \in Nat
  BY DEF Inv, Clock, Batch
<1>2. ~OutsideWindow(i, Purpose(i), (hour - run.age) % DayLength)
  BY DEF GateCode
<1>3. ~(Purpose(i) = "outreach" /\ TooSoon(run.age))
  BY DEF GateCode
<1>4. task[i].channel = "call" => Within((hour - run.age) % DayLength, CallOpen, CallClose)
  BY <1>2 DEF OutsideWindow
<1>5. ~TooSoon(run.age) => since >= Gap
  BY <1>1 DEF TooSoon, Long
<1> QED BY <1>3, <1>4, <1>5

LEMMA PassGateInv == ASSUME Inv, NEW i \in DOMAIN task, PassGate(i) PROVE Inv'
<1>1. /\ i \in run.batch /\ run.pc = "next" /\ run.gated = 0
      /\ run.age \in Nat /\ task[i].status = "in_progress"
  BY DEF PassGate, Serves, Inv, Batch
<1>2. UNCHANGED <<hour, since, planKind>>
  BY DEF PassGate
<1>3. task[i] = Row(task[i])
  BY DEF Inv, Rows
<1>4. [task[i] EXCEPT !.attempts = @ + 1] =
        [channel |-> task[i].channel, chat |-> task[i].chat, thanks |-> task[i].thanks,
         status |-> task[i].status, due |-> task[i].due, attempts |-> task[i].attempts + 1]
  <2> DEFINE t == task[i]
  <2> HIDE DEF t
  <2>1. t = Row(t)
    BY <1>3 DEF t
  <2>2. [t EXCEPT !.attempts = @ + 1] =
          [channel |-> t.channel, chat |-> t.chat, thanks |-> t.thanks,
           status |-> t.status, due |-> t.due, attempts |-> t.attempts + 1]
    BY <2>1 DEF Row
  <2> QED BY <2>2 DEF t
<1>5. task' = [task EXCEPT ![i] =
        [channel |-> task[i].channel, chat |-> task[i].chat, thanks |-> task[i].thanks,
         status |-> task[i].status, due |-> task[i].due, attempts |-> task[i].attempts + 1]]
  <2>1. task' = [task EXCEPT ![i] = [task[i] EXCEPT !.attempts = @ + 1]]
    BY DEF PassGate, Inv, Rows
  <2> QED BY <1>4, <2>1
<1>6. /\ DOMAIN task' = DOMAIN task
      /\ task' = [k \in DOMAIN task |-> Row(task'[k])]
      /\ \A k \in DOMAIN task : k # i => task'[k] = task[k]
      /\ task'[i] = [channel |-> task[i].channel, chat |-> task[i].chat,
                     thanks |-> task[i].thanks, status |-> task[i].status,
                     due |-> task[i].due, attempts |-> task[i].attempts + 1]
  BY <1>5, OneRow
<1>7. /\ task'[i].channel = task[i].channel /\ task'[i].chat = task[i].chat
      /\ task'[i].thanks = task[i].thanks /\ task'[i].status = task[i].status
  BY <1>6
<1>8. run' = [pc |-> "run", batch |-> run.batch, task |-> i, age |-> run.age, gated |-> 0]
  <2>1. run = [pc |-> run.pc, batch |-> run.batch, task |-> run.task,
               age |-> run.age, gated |-> run.gated]
    BY DEF Inv, Batch
  <2>2. run' = [run EXCEPT !.pc = "run", !.task = i]
    BY DEF PassGate
  <2> QED BY <1>1, <2>1, <2>2
<1>9. /\ run'.pc = "run" /\ run'.batch = run.batch /\ run'.task = i
      /\ run'.age = run.age /\ run'.gated = 0
  BY <1>8
<1>10. Batch'
  <2>1. run' = [pc |-> run'.pc, batch |-> run'.batch, task |-> run'.task,
                age |-> run'.age, gated |-> run'.gated]
    BY <1>8, <1>9
  <2>2. run.batch \subseteq DOMAIN task /\ \A j \in run.batch : task[j].status = "in_progress"
    BY DEF Inv, Batch
  <2>3. \A j \in run.batch : task'[j].status = "in_progress"
    BY <1>6, <1>7, <2>2
  <2> QED BY <1>1, <1>6, <1>9, <2>1, <2>2, <2>3 DEF Batch
<1>11. Clock' /\ Rows'
  BY <1>2, <1>6 DEF Inv, Clock, Rows
<1>12. /\ Purpose(i) = "outreach" => since >= Gap
       /\ task[i].channel = "call" => Within((hour - run.age) % DayLength, CallOpen, CallClose)
  BY GoMeans DEF PassGate
<1>13. GapStands'
  <2>1. Purpose(i)' = Purpose(i)
    BY <1>2, <1>7 DEF Purpose
  <2> QED BY <1>2, <1>9, <1>12, <2>1 DEF GapStands
<1>14. WindowStands'
  <2>1. run.age \in 0..run.age
    BY <1>1
  <2> QED BY <1>2, <1>7, <1>9, <1>12, <2>1 DEF WindowStands
<1> QED BY <1>10, <1>11, <1>13, <1>14 DEF Inv

(* Once a step's row is written, the dispatcher goes on with the rest. *)
LEMMA NextOfBatch ==
  ASSUME Inv, run.pc # "idle", NEW i \in run.batch,
         NEW status, NEW ticks, NEW attempts,
         task' = [task EXCEPT ![i] = [channel |-> task[i].channel, chat |-> task[i].chat,
                                      thanks |-> task[i].thanks, status |-> status,
                                      due |-> ticks, attempts |-> attempts]],
         run' = After(i), UNCHANGED <<hour, planKind>>, since' = since \/ since' = 0
  PROVE  Inv'
<1> DEFINE rest == run.batch \ {i}
<1>1. /\ i \in DOMAIN task /\ run.age \in Nat /\ rest \subseteq DOMAIN task
      /\ \A j \in rest : task[j].status = "in_progress" /\ j # i
  BY DEF Inv, Batch
<1>2. /\ DOMAIN task' = DOMAIN task
      /\ task' = [k \in DOMAIN task |-> Row(task'[k])]
      /\ \A k \in DOMAIN task : k # i => task'[k] = task[k]
  BY <1>1, OneRow
<1>3. run' = [pc |-> IF rest = {} THEN "idle" ELSE "next", batch |-> rest, task |-> 0,
              age |-> IF rest = {} THEN 0 ELSE run.age, gated |-> 0]
  BY DEF After, Idle
<1> HIDE DEF rest
<1>4. /\ run'.pc \in {"idle", "next"} /\ run'.batch = rest /\ run'.task = 0
      /\ run'.age \in Nat /\ run'.gated = 0
  BY <1>1, <1>3
<1>5. Batch'
  <2>1. run' = [pc |-> run'.pc, batch |-> run'.batch, task |-> run'.task,
                age |-> run'.age, gated |-> run'.gated]
    BY <1>3
  <2>2. \A j \in rest : task'[j].status = "in_progress"
    BY <1>1, <1>2
  <2> QED BY <1>1, <1>2, <1>4, <2>1, <2>2 DEF Batch
<1>6. Clock' /\ Rows'
  BY <1>2 DEF Inv, Clock, Rows
<1>7. GapStands' /\ WindowStands'
  BY <1>4 DEF GapStands, WindowStands
<1> QED BY <1>5, <1>6, <1>7 DEF Inv

LEMMA StopAtGateInv == ASSUME Inv, NEW i \in DOMAIN task, StopAtGate(i) PROVE Inv'
<1> DEFINE code == GateCode(i, Purpose(i), run.age)
           ticks == Positive(RetryIn(i, code, run.age) - run.age)
<1>1. /\ i \in run.batch /\ run.pc # "idle" /\ run' = After(i)
      /\ UNCHANGED <<hour, since, planKind>>
      /\ task' = IF code \in Permanent THEN Finished(i, "cancelled") ELSE Rescheduled(i, ticks)
  BY DEF StopAtGate, Serves
<1> HIDE DEF code, ticks
<1>2. CASE code \in Permanent
  <2>1. task' = Finished(i, "cancelled")
    BY <1>1, <1>2
  <2> QED BY <1>1, <2>1, FinishedRow, NextOfBatch
<1>3. CASE code \notin Permanent
  <2>1. task' = Rescheduled(i, ticks)
    BY <1>1, <1>3
  <2> QED BY <1>1, <2>1, RescheduledRow, NextOfBatch
<1> QED BY <1>2, <1>3

LEMMA HoldInv == ASSUME Inv, NEW i \in DOMAIN task, Hold(i) PROVE Inv'
<1>1. /\ i \in run.batch /\ run.pc # "idle" /\ run' = After(i)
      /\ UNCHANGED <<hour, since, planKind>> /\ task' = Rescheduled(i, 1)
  BY DEF Hold, Serves
<1> QED BY <1>1, RescheduledRow, NextOfBatch

LEMMA ExecuteInv == ASSUME Inv, NEW result, Execute(result) PROVE Inv'
<1> DEFINE i == run.task
<1>1. /\ i \in run.batch /\ i \in DOMAIN task /\ run.pc # "idle"
  BY DEF Execute, Inv, Batch
<1>2. /\ run' = After(i) /\ UNCHANGED <<hour, planKind>>
      /\ since' = since \/ since' = 0
      /\ task' = IF result = "scheduled" THEN Rescheduled(i, 0) ELSE Finished(i, result)
  BY DEF Execute, Touched, NotTouched
<1> HIDE DEF i
<1>3. CASE result = "scheduled"
  <2>1. task' = Rescheduled(i, 0)
    BY <1>2, <1>3
  <2> QED BY <1>1, <1>2, <2>1, RescheduledRow, NextOfBatch
<1>4. CASE result # "scheduled"
  <2>1. task' = Finished(i, result)
    BY <1>2, <1>4
  <2> QED BY <1>1, <1>2, <2>1, FinishedRow, NextOfBatch
<1> QED BY <1>3, <1>4

(* The writers of rows that are not in progress. *)
LEMMA OutsideBatch ==
  ASSUME Inv, NEW i \in DOMAIN task, task[i].status # "in_progress",
         NEW thanked, NEW status, NEW ticks, NEW attempts,
         task' = [task EXCEPT ![i] = [channel |-> task[i].channel, chat |-> task[i].chat,
                                      thanks |-> thanked, status |-> status,
                                      due |-> ticks, attempts |-> attempts]],
         UNCHANGED <<hour, planKind, run>>, since' = since \/ since' = 0
  PROVE  Inv'
<1>1. /\ DOMAIN task' = DOMAIN task
      /\ task' = [k \in DOMAIN task |-> Row(task'[k])]
      /\ \A k \in DOMAIN task : k # i => task'[k] = task[k]
  BY OneRow
<1>2. run.batch \subseteq DOMAIN task /\ \A j \in run.batch : j # i
  BY DEF Inv, Batch
<1>3. \A j \in run.batch : task'[j] = task[j]
  BY <1>1, <1>2
<1> QED BY <1>1, <1>3, BatchUndisturbed

LEMMA ApproveInv == ASSUME Inv, NEW i \in DOMAIN task, Approve(i) PROVE Inv'
<1>1. /\ task[i].status # "in_progress" /\ UNCHANGED <<hour, planKind, run>>
      /\ since' = since \/ since' = 0
      /\ \E status : task' = Finished(i, status)
  BY DEF Approve, Draft, Touched, NotTouched
<1>2. PICK status : task' = Finished(i, status)
  BY <1>1
<1> QED BY <1>1, <1>2, FinishedRow, OutsideBatch

LEMMA DiscardInv == ASSUME Inv, NEW i \in DOMAIN task, Discard(i) PROVE Inv'
<1>1. /\ task[i].status # "in_progress" /\ UNCHANGED <<hour, since, planKind, run>>
      /\ task' = Finished(i, "cancelled")
  BY DEF Discard, Draft
<1> QED BY <1>1, FinishedRow, OutsideBatch

LEMMA HangUpInv == ASSUME Inv, NEW i \in DOMAIN task, HangUp(i) PROVE Inv'
<1>1. /\ task[i].status # "in_progress" /\ UNCHANGED <<hour, planKind, run>>
      /\ since' = 0 /\ task' = Finished(i, "completed")
  BY DEF HangUp, InCall, Touched
<1> QED BY <1>1, FinishedRow, OutsideBatch

LEMMA NobodyAnswersInv == ASSUME Inv, NEW i \in DOMAIN task, NobodyAnswers(i) PROVE Inv'
<1>1. /\ task[i].status # "in_progress" /\ UNCHANGED <<hour, since, planKind, run>>
      /\ task' = Rescheduled(i, DayLength) \/ task' = Finished(i, "failed")
  BY DEF NobodyAnswers, InCall
<1>2. CASE task' = Rescheduled(i, DayLength)
  BY <1>1, <1>2, RescheduledRow, OutsideBatch
<1>3. CASE task' = Finished(i, "failed")
  BY <1>1, <1>3, FinishedRow, OutsideBatch
<1> QED BY <1>1, <1>2, <1>3

LEMMA CallLaterInv == ASSUME Inv, NEW i \in DOMAIN task, AskedToCallLater(i) PROVE Inv'
<1>1. /\ task[i].status # "in_progress" /\ UNCHANGED <<hour, since, planKind, run>>
      /\ task' = [Rescheduled(i, DayLength) EXCEPT ![i].attempts = Positive(@ - 1)]
  BY DEF AskedToCallLater, InCall
<1> DEFINE r == [channel |-> task[i].channel, chat |-> task[i].chat, thanks |-> task[i].thanks,
                 status |-> "scheduled", due |-> DayLength, attempts |-> task[i].attempts]
           left == Positive(task[i].attempts - 1)
<1>2. Rescheduled(i, DayLength) = [task EXCEPT ![i] = r]
  BY RescheduledRow
<1>3. [r EXCEPT !.attempts = Positive(@ - 1)] =
        [channel |-> task[i].channel, chat |-> task[i].chat, thanks |-> task[i].thanks,
         status |-> "scheduled", due |-> DayLength, attempts |-> left]
  OBVIOUS
<1> HIDE DEF r, left
<1>4. task' = [task EXCEPT ![i] = [r EXCEPT !.attempts = Positive(@ - 1)]]
  BY <1>1, <1>2 DEF Inv, Rows
<1>5. task' = [task EXCEPT ![i] =
        [channel |-> task[i].channel, chat |-> task[i].chat, thanks |-> task[i].thanks,
         status |-> "scheduled", due |-> DayLength, attempts |-> left]]
  BY <1>3, <1>4
<1>6. UNCHANGED <<hour, planKind, run>> /\ (since' = since \/ since' = 0)
  BY <1>1
<1>7. task[i].status # "in_progress"
  BY <1>1
<1> QED BY ONLY Inv, i \in DOMAIN task, <1>5, <1>6, <1>7, OutsideBatch

(* The rows that are brought forward or moved are scheduled. *)
LEMMA MovedRow ==
  ASSUME Inv, NEW i \in DOMAIN task, task[i].status = "scheduled", NEW ticks,
         task' = [task EXCEPT ![i].due = ticks],
         UNCHANGED <<hour, since, planKind, run>>
  PROVE  Inv'
<1>1. task[i] = Row(task[i])
  BY DEF Inv, Rows
<1>2. [task[i] EXCEPT !.due = ticks] =
        [channel |-> task[i].channel, chat |-> task[i].chat, thanks |-> task[i].thanks,
         status |-> task[i].status, due |-> ticks, attempts |-> task[i].attempts]
  BY <1>1, RowWithDue
<1>3. task' = [task EXCEPT ![i] = [task[i] EXCEPT !.due = ticks]]
  BY DEF Inv, Rows
<1>4. task' = [task EXCEPT ![i] =
        [channel |-> task[i].channel, chat |-> task[i].chat, thanks |-> task[i].thanks,
         status |-> task[i].status, due |-> ticks, attempts |-> task[i].attempts]]
  BY <1>2, <1>3
<1>5. UNCHANGED <<hour, planKind, run>> /\ (since' = since \/ since' = 0)
  OBVIOUS
<1>6. task[i].status # "in_progress"
  OBVIOUS
<1> QED BY ONLY Inv, i \in DOMAIN task, <1>4, <1>5, <1>6, OutsideBatch

LEMMA BringEmailInv == ASSUME Inv, BringEmailForward PROVE Inv'
<1>1. UNCHANGED <<hour, since, planKind, run>>
  BY DEF BringEmailForward
<1>2. CASE UNCHANGED task
  <2>1. /\ DOMAIN task' = DOMAIN task
        /\ task' = [k \in DOMAIN task |-> Row(task'[k])]
        /\ \A j \in run.batch : task'[j] = task[j]
    BY <1>2 DEF Inv, Rows
  <2> QED BY <1>1, <2>1, BatchUndisturbed
<1>3. ASSUME NEW i \in Earliest("email"),
             task' = [task EXCEPT ![i].due = 0, ![i].thanks = TRUE]
      PROVE  Inv'
  <2>1. i \in DOMAIN task /\ task[i].status = "scheduled"
    BY DEF Earliest
  <2>2. task[i] = Row(task[i])
    BY <2>1 DEF Inv, Rows
  <2>3. task' = [task EXCEPT ![i] = [task[i] EXCEPT !.due = 0, !.thanks = TRUE]]
    BY <1>3, <2>1 DEF Inv, Rows
  <2>4. [task[i] EXCEPT !.due = 0, !.thanks = TRUE] =
          [channel |-> task[i].channel, chat |-> task[i].chat, thanks |-> TRUE,
           status |-> task[i].status, due |-> 0, attempts |-> task[i].attempts]
    <3> DEFINE t == task[i]
    <3> HIDE DEF t
    <3>1. t = Row(t)
      BY <2>2 DEF t
    <3> DEFINE u == [channel |-> t.channel, chat |-> t.chat, thanks |-> t.thanks,
                     status |-> t.status, due |-> 0, attempts |-> t.attempts]
    <3>2. [t EXCEPT !.due = 0] = u
      BY <3>1, RowWithDue
    <3>3. u = Row(u) /\ u.channel = t.channel /\ u.chat = t.chat
          /\ u.status = t.status /\ u.due = 0 /\ u.attempts = t.attempts
      BY SixColumns
    <3> HIDE DEF u
    <3>5. [u EXCEPT !.thanks = TRUE] =
            [channel |-> u.channel, chat |-> u.chat, thanks |-> TRUE,
             status |-> u.status, due |-> u.due, attempts |-> u.attempts]
      BY <3>3, RowWithThanks
    <3>4. [t EXCEPT !.due = 0, !.thanks = TRUE] =
            [channel |-> t.channel, chat |-> t.chat, thanks |-> TRUE,
             status |-> t.status, due |-> 0, attempts |-> t.attempts]
      BY <3>2, <3>3, <3>5
    <3> QED BY <3>4 DEF t
  <2>5. task' = [task EXCEPT ![i] =
          [channel |-> task[i].channel, chat |-> task[i].chat, thanks |-> TRUE,
           status |-> task[i].status, due |-> 0, attempts |-> task[i].attempts]]
    BY <2>3, <2>4
  <2> QED BY <1>1, <2>1, <2>5, OutsideBatch
<1> QED BY <1>2, <1>3 DEF BringEmailForward

LEMMA BringCallInv == ASSUME Inv, NEW i \in DOMAIN task, BringCallForward(i) PROVE Inv'
<1>1. /\ task[i].status = "scheduled" /\ task' = [task EXCEPT ![i].due = 0]
      /\ UNCHANGED <<hour, since, planKind, run>>
  BY DEF BringCallForward
<1> QED BY <1>1, MovedRow

LEMMA CallbackInv == ASSUME Inv, ScheduleCallback PROVE Inv'
<1>1. PICK i \in Earliest("call") : task' = [task EXCEPT ![i].due = DayLength]
  BY DEF ScheduleCallback
<1>2. i \in DOMAIN task /\ task[i].status = "scheduled"
  BY DEF Earliest
<1>3. UNCHANGED <<hour, since, planKind, run>>
  BY DEF ScheduleCallback
<1> QED BY <1>1, <1>2, <1>3, MovedRow

LEMMA RevokeInv == ASSUME Inv, NEW channel, RevokeConsent(channel) PROVE Inv'
<1>1. UNCHANGED <<hour, since, planKind, task, run>>
  BY DEF RevokeConsent
<1>2. /\ DOMAIN task' = DOMAIN task
      /\ task' = [k \in DOMAIN task |-> Row(task'[k])]
      /\ \A j \in run.batch : task'[j] = task[j]
  BY <1>1 DEF Inv, Rows
<1> QED BY <1>1, <1>2, BatchUndisturbed

-----------------------------------------------------------------------------
(* A tick ages the batch's clock, the last touch and the wait for the executor *)
(* together.                                                                  *)

LEMMA TickInv == ASSUME Inv, Tick PROVE Inv'
<1> USE CadenceAssumption
<1>1. /\ DayLength \in Nat \ {0} /\ Gap \in Nat /\ BatchSpan \in Nat
      /\ hour \in 0..DayLength - 1 /\ since \in Nat
      /\ run.age \in Nat /\ run.gated \in Nat
      /\ run.pc \in {"idle", "next", "run"}
  BY DEF Inv, Clock, Batch
<1>2. /\ hour' = (hour + 1) % DayLength /\ since' = AtMost(since + 1, Long)
      /\ planKind' = planKind
  BY DEF Tick
<1>3. Clock'
  <2>1. hour' \in 0..DayLength - 1
    BY <1>1, <1>2, LookBack
  <2>2. since' \in Nat
    BY <1>1, <1>2 DEF AtMost, Long
  <2> QED BY <2>1, <2>2 DEF Clock
<1>4. /\ DOMAIN task' = DOMAIN task
      /\ task' = [k \in DOMAIN task |-> task'[k]]
      /\ \A k \in DOMAIN task :
           task'[k] = [channel |-> task[k].channel, chat |-> task[k].chat,
                       thanks |-> task[k].thanks, status |-> task[k].status,
                       due |-> Positive(task[k].due - 1), attempts |-> task[k].attempts]
  <2>1. task' = [k \in DOMAIN task |-> [task[k] EXCEPT !.due = Positive(@ - 1)]]
    BY DEF Tick
  <2>2. ASSUME NEW k \in DOMAIN task
        PROVE  [task[k] EXCEPT !.due = Positive(@ - 1)] =
                 [channel |-> task[k].channel, chat |-> task[k].chat,
                  thanks |-> task[k].thanks, status |-> task[k].status,
                  due |-> Positive(task[k].due - 1), attempts |-> task[k].attempts]
    <3> DEFINE t == task[k]
               ticks == Positive(t.due - 1)
    <3>1. t = Row(t)
      BY DEF Inv, Rows
    <3>2. [t EXCEPT !.due = Positive(@ - 1)] = [t EXCEPT !.due = ticks]
      OBVIOUS
    <3> HIDE DEF t, ticks
    <3>3. [t EXCEPT !.due = ticks] =
            [channel |-> t.channel, chat |-> t.chat, thanks |-> t.thanks,
             status |-> t.status, due |-> ticks, attempts |-> t.attempts]
      BY <3>1, RowWithDue
    <3> QED BY <3>2, <3>3 DEF t, ticks
  <2> QED BY <2>1, <2>2
<1>5. \A k \in DOMAIN task :
        /\ task'[k] = Row(task'[k])
        /\ task'[k].status = task[k].status /\ task'[k].channel = task[k].channel
        /\ task'[k].chat = task[k].chat /\ task'[k].thanks = task[k].thanks
  <2> TAKE k \in DOMAIN task
  <2>1. task'[k] = [channel |-> task[k].channel, chat |-> task[k].chat,
                    thanks |-> task[k].thanks, status |-> task[k].status,
                    due |-> Positive(task[k].due - 1), attempts |-> task[k].attempts]
    BY <1>4
  <2>2. task'[k] = Row(task'[k])
    BY <2>1, SixColumns
  <2> QED BY <2>1, <2>2
<1>6. Rows'
  BY <1>2, <1>4, <1>5 DEF Inv, Rows
<1>7. CASE run.pc = "idle"
  <2>1. run' = run
    BY <1>7 DEF Tick, Aged
  <2>2. Batch'
    BY <1>4, <1>5, <2>1 DEF Inv, Batch
  <2> QED BY <1>3, <1>6, <1>7, <2>1, <2>2 DEF Inv, GapStands, WindowStands
<1>8. CASE run.pc # "idle"
  <2> DEFINE waited == IF run.pc = "next" THEN 0 ELSE run.gated + 1
  <2>1. run' = [pc |-> run.pc, batch |-> run.batch, task |-> run.task,
                age |-> run.age + 1, gated |-> waited]
    <3>1. run = [pc |-> run.pc, batch |-> run.batch, task |-> run.task,
                 age |-> run.age, gated |-> run.gated]
      BY DEF Inv, Batch
    <3>2. run' = [run EXCEPT !.age = @ + 1,
                             !.gated = IF run.pc = "next" THEN 0 ELSE @ + 1]
      BY <1>8 DEF Tick, Aged
    <3> QED BY <3>1, <3>2
  <2> HIDE DEF waited
  <2>2. /\ run'.pc = run.pc /\ run'.batch = run.batch /\ run'.task = run.task
        /\ run'.age = run.age + 1 /\ run'.gated = waited
    BY <2>1
  <2>3. waited \in Nat /\ (run.pc = "next" => waited = 0)
                       /\ (run.pc = "run" => waited = run.gated + 1)
    BY <1>1 DEF waited
  <2>4. Batch'
    <3>1. run' = [pc |-> run'.pc, batch |-> run'.batch, task |-> run'.task,
                  age |-> run'.age, gated |-> run'.gated]
      BY <2>1, <2>2
    <3>2. run.batch \subseteq DOMAIN task /\ \A j \in run.batch : task[j].status = "in_progress"
      BY DEF Inv, Batch
    <3>3. \A j \in run.batch : task'[j].status = "in_progress"
      BY <1>5, <3>2
    <3>4. run.pc = "run" => run.task \in run.batch
      BY DEF Inv, Batch
    <3>5. run'.age \in Nat /\ run'.gated \in Nat /\ run'.pc \in {"idle", "next", "run"}
          /\ (run'.pc = "next" => run'.gated = 0)
      BY <1>1, <2>2, <2>3
    <3> QED BY <1>4, <2>2, <3>1, <3>2, <3>3, <3>4, <3>5 DEF Batch
  <2>5. run.pc = "run" => run.task \in DOMAIN task
    BY DEF Inv, Batch
  <2>6. GapStands'
    <3> SUFFICES ASSUME run.pc = "run", Purpose(run.task)' = "outreach"
                 PROVE  since' >= Gap \/ since' <= waited
      BY <2>2 DEF GapStands
    <3>1. Purpose(run.task) = "outreach"
      BY <1>2, <1>5, <2>2, <2>5 DEF Purpose
    <3>2. since >= Gap \/ since <= run.gated
      BY <3>1 DEF Inv, GapStands
    <3> QED BY <1>1, <1>2, <2>3, <3>2 DEF AtMost, Long
  <2>7. WindowStands'
    <3> SUFFICES ASSUME run.pc = "run", task'[run.task].channel = "call"
                 PROVE  \E late \in 0..run.age + 1 :
                          Within((hour' - late) % DayLength, CallOpen, CallClose)
      BY <2>2 DEF WindowStands
    <3>1. task[run.task].channel = "call"
      BY <1>5, <2>5
    <3>2. PICK late \in 0..run.age : Within((hour - late) % DayLength, CallOpen, CallClose)
      BY <3>1 DEF Inv, WindowStands
    <3>3. (hour' - (late + 1)) % DayLength = (hour - late) % DayLength
      BY <1>1, <1>2, LookBack, late \in Nat
    <3>4. late + 1 \in 0..run.age + 1
      BY <1>1
    <3> QED BY <3>2, <3>3, <3>4
  <2> QED BY <1>3, <1>6, <2>4, <2>6, <2>7 DEF Inv
<1> QED BY <1>7, <1>8

LEMMA NextInv == Inv /\ [Next]_vars => Inv'
<1> SUFFICES ASSUME Inv, [Next]_vars PROVE Inv'
  OBVIOUS
<1>1. CASE UNCHANGED vars
  BY <1>1 DEF vars, Inv, Clock, Rows, Row, Batch, GapStands, WindowStands, Purpose
<1>2. ASSUME NEW proposal \in Proposals, CreatePlan(proposal) PROVE Inv'
  BY <1>2, CreatePlanInv
<1>3. CASE Dispatch
  <2>1. CASE ClaimDueTasks
    BY <2>1, ClaimInv
  <2>2. ASSUME NEW i \in DOMAIN task, PassGate(i) \/ StopAtGate(i) PROVE Inv'
    BY <2>2, PassGateInv, StopAtGateInv
  <2>3. ASSUME NEW result \in {"failed", "scheduled", "pending", "completed"}, Execute(result)
        PROVE  Inv'
    BY <2>3, ExecuteInv
  <2> QED BY <1>3, <2>1, <2>2, <2>3 DEF Dispatch
<1>4. ASSUME NEW i \in DOMAIN task, Hold(i) \/ Approve(i) \/ Discard(i) PROVE Inv'
  BY <1>4, HoldInv, ApproveInv, DiscardInv
<1>5. ASSUME NEW i \in DOMAIN task, HangUp(i) \/ NobodyAnswers(i) \/ AskedToCallLater(i)
      PROVE  Inv'
  BY <1>5, HangUpInv, NobodyAnswersInv, CallLaterInv
<1>6. ASSUME NEW i \in DOMAIN task, BringCallForward(i) PROVE Inv'
  BY <1>6, BringCallInv
<1>7. CASE BringEmailForward \/ ScheduleCallback
  BY <1>7, BringEmailInv, CallbackInv
<1>8. ASSUME NEW channel \in {"email", "call"}, RevokeConsent(channel) PROVE Inv'
  BY <1>8, RevokeInv
<1>9. CASE Tick
  BY <1>9, TickInv
<1> QED BY <1>1, <1>2, <1>3, <1>4, <1>5, <1>6, <1>7, <1>8, <1>9 DEF Next

(* A batch owns its rows, and what the gate said of its step still stands.    *)
THEOREM BatchOwnsRows == Spec => []Inv
<1> QED BY InitInv, NextInv, PTL DEF Spec

-----------------------------------------------------------------------------
(* Only the executor of the step being served touches the contact.            *)

LEMMA OneRowStatus ==
  ASSUME Inv, NEW i \in DOMAIN task, NEW k \in DOMAIN task,
         NEW status, NEW ticks, NEW attempts,
         task' = [task EXCEPT ![k] = [channel |-> task[k].channel, chat |-> task[k].chat,
                                      thanks |-> task[k].thanks, status |-> status,
                                      due |-> ticks, attempts |-> attempts]]
  PROVE  IF i = k THEN task'[i].status = status ELSE task'[i] = task[i]
<1>1. /\ \A j \in DOMAIN task : j # k => task'[j] = task[j]
      /\ task'[k] = [channel |-> task[k].channel, chat |-> task[k].chat,
                     thanks |-> task[k].thanks, status |-> status,
                     due |-> ticks, attempts |-> attempts]
  BY OneRow
<1>2. task'[k].status = status
  BY <1>1
<1>3. i # k => task'[i] = task[i]
  BY <1>1
<1> QED BY <1>2, <1>3

LEMMA WrittenStatus ==
  ASSUME Inv, NEW i \in DOMAIN task, NEW k \in DOMAIN task, NEW status, NEW ticks
  PROVE  /\ task' = Finished(k, status) =>
              IF i = k THEN task'[i].status = status ELSE task'[i] = task[i]
         /\ task' = Rescheduled(k, ticks) =>
              IF i = k THEN task'[i].status = "scheduled" ELSE task'[i] = task[i]
<1>1. ASSUME task' = Finished(k, status)
      PROVE  IF i = k THEN task'[i].status = status ELSE task'[i] = task[i]
  <2>1. task' = [task EXCEPT ![k] = [channel |-> task[k].channel, chat |-> task[k].chat,
                 thanks |-> task[k].thanks, status |-> status, due |-> task[k].due,
                 attempts |-> task[k].attempts]]
    BY <1>1, FinishedRow
  <2> QED BY <2>1, OneRowStatus
<1>2. ASSUME task' = Rescheduled(k, ticks)
      PROVE  IF i = k THEN task'[i].status = "scheduled" ELSE task'[i] = task[i]
  <2>1. task' = [task EXCEPT ![k] = [channel |-> task[k].channel, chat |-> task[k].chat,
                 thanks |-> task[k].thanks, status |-> "scheduled", due |-> ticks,
                 attempts |-> task[k].attempts]]
    BY <1>2, RescheduledRow
  <2> QED BY <2>1, OneRowStatus
<1> QED BY <1>1, <1>2

LEMMA OnlyExecutorTouches ==
  ASSUME Inv, Next, NEW i \in DOMAIN task, Touches(i)
  PROVE  run.pc = "run" /\ i = run.task
<1>1. task[i].status = "in_progress" /\ task'[i].status \in {"pending", "completed"}
  BY DEF Touches
<1>2. task'[i] # task[i]
  BY <1>1
<1>3. ASSUME NEW k \in DOMAIN task, NEW status, task' = Finished(k, status),
             status \notin {"pending", "completed"} \/ task[k].status # "in_progress"
      PROVE  FALSE
  BY <1>1, <1>2, <1>3, WrittenStatus
<1>4. ASSUME NEW k \in DOMAIN task, NEW ticks, task' = Rescheduled(k, ticks)
      PROVE  FALSE
  BY <1>1, <1>2, <1>4, WrittenStatus
<1>5. ASSUME NEW proposal \in Proposals, CreatePlan(proposal) PROVE FALSE
  BY <1>5 DEF CreatePlan, Inv, Rows
<1>6. CASE Dispatch
  <2>1. CASE ClaimDueTasks
    <3>1. i \notin Due => task'[i] = task[i]
      BY <2>1 DEF ClaimDueTasks
    <3>2. i \notin Due
      BY <1>1 DEF Due
    <3> QED BY <1>2, <3>1, <3>2
  <2>2. ASSUME NEW k \in DOMAIN task, PassGate(k) PROVE FALSE
    <3>1. task' = [task EXCEPT ![k].attempts = @ + 1]
      BY <2>2 DEF PassGate
    <3>2. task[i] = Row(task[i])
      BY DEF Inv, Rows
    <3>3. task'[i].status = task[i].status
      BY <3>1, <3>2 DEF Row
    <3> QED BY <1>1, <3>3
  <2>3. ASSUME NEW k \in DOMAIN task, StopAtGate(k) PROVE FALSE
    BY <1>3, <1>4, <2>3 DEF StopAtGate
  <2>4. ASSUME NEW result, Execute(result) PROVE run.pc = "run" /\ i = run.task
    <3>1. run.pc = "run" /\ run.task \in DOMAIN task
      BY <2>4 DEF Execute, Inv, Batch
    <3>2. task' = Finished(run.task, result) \/ task' = Rescheduled(run.task, 0)
      BY <2>4 DEF Execute
    <3>3. i # run.task => task'[i] = task[i]
      BY <3>1, <3>2, WrittenStatus
    <3> QED BY <1>2, <3>1, <3>3
  <2> QED BY <1>6, <2>1, <2>2, <2>3, <2>4 DEF Dispatch
<1>7. ASSUME NEW k \in DOMAIN task, Hold(k) PROVE FALSE
  BY <1>4, <1>7 DEF Hold
<1>8. ASSUME NEW k \in DOMAIN task, Approve(k) \/ Discard(k) PROVE FALSE
  <2>1. task[k].status # "in_progress" /\ \E status : task' = Finished(k, status)
    BY <1>8 DEF Approve, Discard, Draft
  <2> QED BY <1>3, <2>1
<1>9. ASSUME NEW k \in DOMAIN task, HangUp(k) \/ NobodyAnswers(k) PROVE FALSE
  <2>1. task[k].status # "in_progress"
    BY <1>9 DEF HangUp, NobodyAnswers, InCall
  <2>2. (\E status : task' = Finished(k, status)) \/ task' = Rescheduled(k, DayLength)
    BY <1>9 DEF HangUp, NobodyAnswers
  <2> QED BY <1>3, <1>4, <2>1, <2>2
<1>11. ASSUME NEW k \in DOMAIN task, AskedToCallLater(k) PROVE FALSE
  <2>1. /\ task[k].status # "in_progress"
        /\ task' = [Rescheduled(k, DayLength) EXCEPT ![k].attempts = Positive(@ - 1)]
    BY <1>11 DEF AskedToCallLater, InCall
  <2>2. i # k => task'[i] = task[i]
    BY <2>1 DEF Rescheduled, Inv, Rows
  <2> QED BY <1>1, <1>2, <2>1, <2>2
<1>12. ASSUME NEW k \in DOMAIN task, BringCallForward(k) PROVE FALSE
  <2>1. task[k].status = "scheduled" /\ (i # k => task'[i] = task[i])
    BY <1>12 DEF BringCallForward, Inv, Rows
  <2> QED BY <1>1, <1>2, <2>1
<1>13. CASE BringEmailForward \/ ScheduleCallback
  <2>1. \E k \in Earliest("email") \union Earliest("call") : i # k => task'[i] = task[i]
    BY <1>2, <1>13 DEF BringEmailForward, ScheduleCallback, Inv, Rows
  <2>2. \A k \in Earliest("email") \union Earliest("call") : task[k].status = "scheduled"
    BY DEF Earliest
  <2> QED BY <1>1, <1>2, <2>1, <2>2
<1>14. ASSUME NEW channel, RevokeConsent(channel) PROVE FALSE
  BY <1>2, <1>14 DEF RevokeConsent
<1>15. CASE Tick
  <2>1. task[i] = Row(task[i])
    BY DEF Inv, Rows
  <2>2. task' = [k \in DOMAIN task |-> [task[k] EXCEPT !.due = Positive(@ - 1)]]
    BY <1>15 DEF Tick
  <2>3. task'[i].status = task[i].status
    BY <2>1, <2>2 DEF Row
  <2> QED BY <1>1, <2>3
<1> QED BY <1>5, <1>6, <1>7, <1>8, <1>9, <1>11, <1>12, <1>13, <1>14, <1>15 DEF Next

-----------------------------------------------------------------------------
(* No follow-up goes out within the gap after a touch that was completed when *)
(* the gate was asked for it: for every gap, batch and day.                   *)
THEOREM SpacingHolds == Spec => FollowUpsAreSpaced
<1>1. ASSUME Inv, Next
      PROVE  \A i \in DOMAIN task :
               Touches(i) /\ Purpose(i) = "outreach" => since >= Gap \/ since <= run.gated
  BY <1>1, OnlyExecutorTouches DEF Inv, GapStands
<1>2. Inv /\ [Next]_vars =>
        [\A i \in DOMAIN task :
           Touches(i) /\ Purpose(i) = "outreach" => since >= Gap \/ since <= run.gated]_vars
  BY <1>1
<1> QED BY <1>2, BatchOwnsRows, PTL DEF Spec, FollowUpsAreSpaced

(* No phone rings longer after the contact's window closed than the batch it  *)
(* is in has been under way, and none before the window opens.                *)
THEOREM WindowHolds == Spec => CallsRingWithinBatch
<1>1. ASSUME Inv, Next
      PROVE  \A i \in DOMAIN task :
               Touches(i) /\ task[i].channel = "call"
                 => \E late \in 0..run.age : Within((hour - late) % DayLength, CallOpen, CallClose)
  BY <1>1, OnlyExecutorTouches DEF Inv, WindowStands
<1>2. Inv /\ [Next]_vars =>
        [\A i \in DOMAIN task :
           Touches(i) /\ task[i].channel = "call"
             => \E late \in 0..run.age :
                  Within((hour - late) % DayLength, CallOpen, CallClose)]_vars
  BY <1>1
<1> QED BY <1>2, BatchOwnsRows, PTL DEF Spec, CallsRingWithinBatch

-----------------------------------------------------------------------------
(* The reminders of a booking, and the outbox they use.                        *)
Places == Sending \union Calling \union Reminding \union {"idle", "dispatch"}
Verdicts == {"none", "pending", "sent", "failed", "skipped"}
ProcessOf == [at : Places, key : Keys \union {NoKey}, tries : 0 .. MaxRetries, verdict : Verdicts]
OutboxTyped ==
  /\ job \in [Keys -> JobStatus]
  /\ mail \in [Keys -> [0 .. MaxRetries -> 0 .. 2]]
  /\ copies \in [Keys -> Nat] /\ slips \in [Keys -> Nat]
  /\ process \in [Workers -> ProcessOf]
RemindersTyped ==
  /\ OutboxTyped
  /\ event \in {"booked", "cancelled"}
  /\ reminder \in [Offsets -> ReminderStatus]
  /\ batch \in [Workers -> SUBSET Offsets]

(* What a process knows at each of its steps.                                  *)
Knows(p) ==
  /\ process[p].at \notin {"idle", "dispatch"} => process[p].key \in Keys
  /\ process[p].at = "idle" => process[p] = AtRest
  /\ process[p].at = "dispatch" => process[p].verdict = "none"
  /\ process[p].at # "dispatch" => batch[p] = {}
  /\ process[p].at \in Reminding => process[p].key \in Offsets
  /\ process[p].at = "verdict" =>
       \/ process[p].verdict \in {"skipped", "failed"}
       \/ process[p].verdict = "sent" /\ process[p].key \in logged
  /\ process[p].at = "check" => process[p].verdict = "none"
  /\ process[p].at = "mark" => process[p].verdict \in {"sent", "failed", "pending"}
  /\ process[p].at \in {"delay", "enqueued"} => job[process[p].key] # "none"
KnowsAll == \A p \in Workers : Knows(p)

(* A notification has as many carriers as there are messages of it, processes  *)
(* at work on one, and rows to come: but those whose copy is out, or whose     *)
(* retry is published.                                                         *)
Spent(p) ==
  \/ process[p].at = "mark" /\ process[p].verdict = "sent"
  \/ process[p].at = "ack" /\ process[p].verdict \in {"sent", "pending"}
Carries(p, k) ==
  /\ process[p].key = k
  /\ process[p].at \in {"delay"} \union Sending
  /\ ~Spent(p)
Carriers(k) == {p \in Workers : Carries(p, k)}
Letters(k) == {l \in (0 .. MaxRetries) \X {1, 2} : l[2] <= mail[k][l[1]]}
ToCome(k) == Cardinality(Letters(k)) + Cardinality(Carriers(k)) + (IF job[k] = "none" THEN 1 ELSE 0)

(* A job that says sent or failed, and that nobody is about to open again.     *)
Opens(p, k) ==
  /\ process[p].key = k
  /\ \/ process[p].at = "send"
     \/ process[p].at = "mark" /\ process[p].verdict = "pending"
Closed(k) == job[k] \in Final /\ \A p \in Workers : ~Opens(p, k)
Balanced(k) ==
  /\ IsFiniteSet(Carriers(k))
  /\ copies[k] <= 1 + slips[k]
  /\ ~Closed(k) => copies[k] + ToCome(k) <= 1 + slips[k]
Took(p) ==
  process[p].verdict = "sent" =>
    /\ process[p].at \in {"mark", "ack"} => copies[process[p].key] >= 1
    /\ process[p].at = "ack" => slips[process[p].key] > 0 \/ Closed(process[p].key)
BalancedAll == (\A k \in Keys : Balanced(k)) /\ (\A p \in Workers : Took(p))

(* A job that is pending has a message, or somebody who will publish one, end  *)
(* it or give it up: a retry is announced only when there is one left.         *)
Bearing == {"delay", "check", "send", "mark", "raise"}
Bears(p, k) == process[p].key = k /\ process[p].at \in Bearing
Retries(p) ==
  /\ process[p].at = "mark" /\ process[p].verdict = "pending" => process[p].tries < MaxRetries
  /\ process[p].at = "raise" /\ process[p].tries >= MaxRetries => process[p].key \in stranded
RetriesAll == \A p \in Workers : Retries(p)
PendingKept == \A k \in Keys : job[k] = "pending" => UnderWay(k) \/ k \in stranded
SentTaken == \A r \in Offsets : reminder[r] = "sent" => r \in logged \/ job[r] # "none"

RemindersInv ==
  RemindersTyped /\ KnowsAll /\ BalancedAll /\ RetriesAll /\ PendingKept /\ SentTaken

(* Only p moves.                                                               *)
Alone(p) == process' \in [Workers -> ProcessOf] /\ \A q \in Workers : q # p => process'[q] = process[q]
Stays(p) == process'[p].key = process[p].key /\ process'[p].tries = process[p].tries

LEMMA IdleProcess == AtRest \in ProcessOf /\ AtRest.at = "idle" /\ AtRest.key = NoKey /\ AtRest.verdict = "none"
BY NotificationAssumption DEF AtRest, ProcessOf, Places, Verdicts

LEMMA GoesMoves ==
  ASSUME OutboxTyped, NEW p \in Workers, NEW step \in Places, Goes(p, step)
  PROVE  Alone(p) /\ Stays(p) /\ process'[p].at = step /\ process'[p].verdict = process[p].verdict
<1>1. process[p] \in ProcessOf /\ process \in [Workers -> ProcessOf]
  BY DEF OutboxTyped
<1>2. [process[p] EXCEPT !.at = step] \in ProcessOf
  BY <1>1 DEF ProcessOf
<1>3. process' = [process EXCEPT ![p] = [process[p] EXCEPT !.at = step]]
  BY DEF Goes
<1> QED
  BY <1>1, <1>2, <1>3 DEF Alone, Stays, ProcessOf

LEMMA DecidesMoves ==
  ASSUME OutboxTyped, NEW p \in Workers, NEW step \in Places, NEW v \in Verdicts, Decides(p, step, v)
  PROVE  Alone(p) /\ Stays(p) /\ process'[p].at = step /\ process'[p].verdict = v
<1>1. process[p] \in ProcessOf /\ process \in [Workers -> ProcessOf]
  BY DEF OutboxTyped
<1>2. [process[p] EXCEPT !.at = step, !.verdict = v] \in ProcessOf
  BY <1>1 DEF ProcessOf
<1>3. process' = [process EXCEPT ![p] = [process[p] EXCEPT !.at = step, !.verdict = v]]
  BY <1>1 DEF Decides
<1> QED
  BY <1>1, <1>2, <1>3 DEF Alone, Stays, ProcessOf

LEMMA RestsMoves ==
  ASSUME OutboxTyped, NEW p \in Workers, Rests(p)
  PROVE  Alone(p) /\ process'[p] = AtRest
<1>1. process[p] \in ProcessOf /\ process \in [Workers -> ProcessOf]
  BY DEF OutboxTyped
<1> QED
  BY <1>1, IdleProcess DEF Alone, Rests

LEMMA StartsMoves ==
  ASSUME OutboxTyped, NEW p \in Workers, NEW step \in Places, NEW k \in Keys, NEW n \in 0 .. MaxRetries,
         process' = [process EXCEPT ![p] = [AtRest EXCEPT !.at = step, !.key = k, !.tries = n]]
  PROVE  /\ Alone(p) /\ process'[p].at = step /\ process'[p].key = k /\ process'[p].tries = n
         /\ process'[p].verdict = "none"
<1>1. process \in [Workers -> ProcessOf]
  BY DEF OutboxTyped
<1>2. [AtRest EXCEPT !.at = step, !.key = k, !.tries = n] \in ProcessOf
  BY IdleProcess DEF ProcessOf
<1> QED
  BY <1>1, <1>2, IdleProcess DEF Alone, ProcessOf

(* The broker holds one message more, or as many as it can.                    *)
LEMMA PublishedIs ==
  ASSUME OutboxTyped, NEW k \in Keys, NEW n \in 0 .. MaxRetries, mail' = Published(k, n)
  PROVE  /\ mail' \in [Keys -> [0 .. MaxRetries -> 0 .. 2]]
         /\ \A j \in Keys : j # k => mail'[j] = mail[j]
         /\ \A m \in 0 .. MaxRetries : m # n => mail'[k][m] = mail[k][m]
         /\ mail'[k][n] = mail[k][n] \/ mail'[k][n] = mail[k][n] + 1
<1>1. mail \in [Keys -> [0 .. MaxRetries -> 0 .. 2]] /\ mail[k] \in [0 .. MaxRetries -> 0 .. 2] /\ mail[k][n] \in 0 .. 2
  BY DEF OutboxTyped
<1>2. mail' = [mail EXCEPT ![k] = [mail[k] EXCEPT ![n] = IF mail[k][n] < 2 THEN mail[k][n] + 1 ELSE mail[k][n]]]
  BY DEF Published
<1>3. (IF mail[k][n] < 2 THEN mail[k][n] + 1 ELSE mail[k][n]) \in 0 .. 2
  BY <1>1
<1> QED
  BY <1>1, <1>2, <1>3

(* How carriers and letters come and go.                                       *)
LEMMA CarriersOf ==
  ASSUME NEW p \in Workers, Alone(p), NEW k \in Keys, IsFiniteSet(Carriers(k))
  PROVE  /\ IsFiniteSet(Carriers(k)')
         /\ Cardinality(Carriers(k)) \in Nat /\ Cardinality(Carriers(k)') \in Nat
         /\ Cardinality(Carriers(k)') <= Cardinality(Carriers(k)) + 1
         /\ (Carries(p, k)' => Carries(p, k)) => Cardinality(Carriers(k)') <= Cardinality(Carriers(k))
         /\ Carries(p, k) /\ ~Carries(p, k)' => Cardinality(Carriers(k)') = Cardinality(Carriers(k)) - 1
<1>1. \A q \in Workers : q # p => (Carries(q, k)' <=> Carries(q, k))
  BY DEF Alone, Carries, Spent
<1>2. Carriers(k)' = (IF Carries(p, k)' THEN Carriers(k) \union {p} ELSE Carriers(k) \ {p})
  BY <1>1 DEF Carriers
<1>3. p \in Carriers(k) <=> Carries(p, k)
  BY DEF Carriers
<1>4. /\ IsFiniteSet(Carriers(k) \union {p}) /\ IsFiniteSet(Carriers(k) \ {p})
      /\ Cardinality(Carriers(k) \union {p}) =
           IF p \in Carriers(k) THEN Cardinality(Carriers(k)) ELSE Cardinality(Carriers(k)) + 1
      /\ Cardinality(Carriers(k) \ {p}) =
           IF p \in Carriers(k) THEN Cardinality(Carriers(k)) - 1 ELSE Cardinality(Carriers(k))
  BY FS_AddElement, FS_RemoveElement
<1>5. Cardinality(Carriers(k)) \in Nat
  BY FS_CardinalityType
<1>6. IsFiniteSet(Carriers(k)') /\ Cardinality(Carriers(k)') \in Nat
  <2>1. IsFiniteSet(Carriers(k)')
    BY <1>2, <1>4
  <2> QED
    BY <2>1, FS_CardinalityType
<1> HIDE DEF Carriers, Carries
<1>7. CASE Carries(p, k)'
  BY <1>2, <1>3, <1>4, <1>5, <1>6, <1>7
<1>8. CASE ~Carries(p, k)'
  BY <1>2, <1>3, <1>4, <1>5, <1>6, <1>8
<1> QED
  BY <1>7, <1>8

LEMMA LettersFinite ==
  ASSUME NEW k
  PROVE  /\ IsFiniteSet(Letters(k)) /\ Cardinality(Letters(k)) \in Nat
         /\ IsFiniteSet(Letters(k)') /\ Cardinality(Letters(k)') \in Nat
<1>1. MaxRetries \in Int /\ IsFiniteSet(0 .. MaxRetries)
  BY FS_Interval, NotificationAssumption
<1>2. IsFiniteSet({1, 2})
  <2>1. IsFiniteSet({} \union {1})
    BY FS_EmptySet, FS_AddElement
  <2>2. IsFiniteSet(({} \union {1}) \union {2})
    BY <2>1, FS_AddElement
  <2>3. ({} \union {1}) \union {2} = {1, 2}
    OBVIOUS
  <2> QED
    BY <2>2, <2>3
<1>3. IsFiniteSet((0 .. MaxRetries) \X {1, 2})
  BY <1>1, <1>2, FS_Product
<1>4. /\ Letters(k) \in SUBSET ((0 .. MaxRetries) \X {1, 2})
      /\ Letters(k)' \in SUBSET ((0 .. MaxRetries) \X {1, 2})
  BY DEF Letters
<1>5. IsFiniteSet(Letters(k)) /\ IsFiniteSet(Letters(k)')
  BY <1>3, <1>4, FS_Subset
<1> QED
  BY <1>5, FS_CardinalityType

LEMMA LettersKept ==
  ASSUME NEW k, mail'[k] = mail[k]
  PROVE  Cardinality(Letters(k)') = Cardinality(Letters(k))
<1>1. Letters(k)' = Letters(k)
  BY DEF Letters
<1> QED
  BY <1>1

LEMMA LettersPublished ==
  ASSUME OutboxTyped, NEW k \in Keys, NEW n \in 0 .. MaxRetries, mail' = Published(k, n)
  PROVE  Cardinality(Letters(k)') \in Nat /\ Cardinality(Letters(k)') <= Cardinality(Letters(k)) + 1
<1>1. /\ \A m \in 0 .. MaxRetries : m # n => mail'[k][m] = mail[k][m]
      /\ mail'[k][n] = mail[k][n] \/ mail'[k][n] = mail[k][n] + 1
  BY PublishedIs
<1>2. mail[k][n] \in 0 .. 2
  BY DEF OutboxTyped
<1> DEFINE one == << n, mail[k][n] + 1 >>
<1>3. Letters(k)' \subseteq Letters(k) \union {one}
  <2> SUFFICES ASSUME NEW l \in Letters(k)', l \notin Letters(k) PROVE l = one
    OBVIOUS
  <2>1. PICK m \in 0 .. MaxRetries, i \in {1, 2} : l = << m, i >>
    BY DEF Letters
  <2>2. i <= mail'[k][m] /\ ~ (i <= mail[k][m])
    BY <2>1 DEF Letters
  <2>3. m = n /\ mail'[k][n] = mail[k][n] + 1
    BY <1>1, <2>2
  <2>4. i = mail[k][n] + 1
    BY <1>2, <2>2, <2>3
  <2> QED
    BY <2>1, <2>3, <2>4
<1> HIDE DEF one
<1>4. /\ IsFiniteSet(Letters(k)) /\ Cardinality(Letters(k)) \in Nat
  BY LettersFinite
<1>5. IsFiniteSet(Letters(k) \union {one}) /\ Cardinality(Letters(k) \union {one}) <= Cardinality(Letters(k)) + 1
      /\ Cardinality(Letters(k) \union {one}) \in Nat
  <2> DEFINE more == Letters(k) \union {one}
  <2>1. IsFiniteSet(more) /\ Cardinality(more) = (IF one \in Letters(k) THEN Cardinality(Letters(k)) ELSE Cardinality(Letters(k)) + 1)
    BY <1>4, FS_AddElement
  <2>2. Cardinality(more) \in Nat
    BY <2>1, FS_CardinalityType
  <2>3. Cardinality(more) <= Cardinality(Letters(k)) + 1
    BY <1>4, <2>1
  <2> QED
    BY <2>1, <2>2, <2>3
<1>6. Cardinality(Letters(k)') <= Cardinality(Letters(k) \union {one}) /\ IsFiniteSet(Letters(k)')
  BY <1>3, <1>5, FS_Subset
<1>7. Cardinality(Letters(k)') \in Nat
  BY <1>6, FS_CardinalityType
<1> QED
  BY <1>4, <1>5, <1>6, <1>7

LEMMA LettersTaken ==
  ASSUME OutboxTyped, NEW k \in Keys, NEW n \in 0 .. MaxRetries, mail[k][n] > 0,
         mail' = [mail EXCEPT ![k][n] = @ - 1]
  PROVE  /\ mail' \in [Keys -> [0 .. MaxRetries -> 0 .. 2]]
         /\ \A j \in Keys : j # k => mail'[j] = mail[j]
         /\ Cardinality(Letters(k)') \in Nat /\ Cardinality(Letters(k)') <= Cardinality(Letters(k)) - 1
<1>1. mail \in [Keys -> [0 .. MaxRetries -> 0 .. 2]] /\ mail[k] \in [0 .. MaxRetries -> 0 .. 2] /\ mail[k][n] \in 0 .. 2
  BY DEF OutboxTyped
<1>2. mail' = [mail EXCEPT ![k] = [mail[k] EXCEPT ![n] = mail[k][n] - 1]]
  OBVIOUS
<1>3. mail[k][n] - 1 \in 0 .. 2 /\ mail[k][n] \in {1, 2}
  BY <1>1
<1>4. /\ mail' \in [Keys -> [0 .. MaxRetries -> 0 .. 2]]
      /\ \A j \in Keys : j # k => mail'[j] = mail[j]
      /\ \A m \in 0 .. MaxRetries : m # n => mail'[k][m] = mail[k][m]
      /\ mail'[k][n] = mail[k][n] - 1
  BY <1>1, <1>2, <1>3
<1> DEFINE one == << n, mail[k][n] >>
<1>5. one \in Letters(k) /\ one \notin Letters(k)'
  BY <1>1, <1>3, <1>4 DEF Letters
<1>6. Letters(k)' \subseteq Letters(k) \ {one}
  <2> SUFFICES ASSUME NEW l \in Letters(k)' PROVE l \in Letters(k)
    BY <1>5
  <2>1. PICK m \in 0 .. MaxRetries, i \in {1, 2} : l = << m, i >>
    BY DEF Letters
  <2>2. i <= mail'[k][m]
    BY <2>1 DEF Letters
  <2>3. i <= mail[k][m]
    BY <1>1, <1>4, <2>2
  <2> QED
    BY <2>1, <2>3 DEF Letters
<1> HIDE DEF one
<1>7. IsFiniteSet(Letters(k)) /\ Cardinality(Letters(k)) \in Nat
  BY LettersFinite
<1>8. IsFiniteSet(Letters(k) \ {one}) /\ Cardinality(Letters(k) \ {one}) = Cardinality(Letters(k)) - 1
  BY <1>5, <1>7, FS_RemoveElement
<1>9. IsFiniteSet(Letters(k)') /\ Cardinality(Letters(k)') <= Cardinality(Letters(k) \ {one})
  BY <1>6, <1>8, FS_Subset
<1>10. Cardinality(Letters(k)') \in Nat
  BY <1>9, FS_CardinalityType
<1> QED
  BY <1>4, <1>7, <1>8, <1>9, <1>10

(* What the steps of the outbox do.                                            *)
Outbox == <<job, mail, copies, slips>>

LEMMA StepPlacesOf ==
  /\ {"check", "send", "mark", "raise", "ack"} = Sending
  /\ {"insert", "delay", "enqueued"} = Calling
  /\ {"reread", "event", "verdict"} = Reminding
  /\ Sending \subseteq Places /\ Calling \subseteq Places /\ Reminding \subseteq Places
  /\ "idle" \in Places /\ "dispatch" \in Places
BY DEF Sending, Calling, Reminding, Places

LEMMA CallDoes ==
  ASSUME OutboxTyped, NEW p \in Workers, NEW k \in Keys, Call(p, k)
  PROVE  /\ Alone(p) /\ process'[p].at = "insert" /\ process'[p].key = k
         /\ UNCHANGED Outbox /\ process[p] = AtRest
<1> DEFINE q == [AtRest EXCEPT !.at = "insert", !.key = k]
<1>1. q \in ProcessOf /\ q.at = "insert" /\ q.key = k
  BY IdleProcess, StepPlacesOf DEF ProcessOf
<1>2. process' = [process EXCEPT ![p] = q] /\ process[p] = AtRest /\ UNCHANGED Outbox
  BY DEF Call, outbox, Outbox
<1>3. process \in [Workers -> ProcessOf]
  BY DEF OutboxTyped
<1> HIDE DEF q
<1> QED
  BY <1>1, <1>2, <1>3 DEF Alone

LEMMA InsertDoes ==
  ASSUME OutboxTyped, NEW p \in Workers, Knows(p), Insert(p)
  PROVE  /\ Alone(p) /\ Stays(p) /\ process[p].at = "insert" /\ process[p].key \in Keys
         /\ UNCHANGED <<mail, copies, slips>>
         /\ \/ /\ job[process[p].key] = "none" /\ job' = [job EXCEPT ![process[p].key] = "pending"]
               /\ process'[p].at = "delay"
            \/ job[process[p].key] # "none" /\ job' = job /\ process'[p].at = "enqueued"
<1>1. process[p].at = "insert" /\ UNCHANGED <<mail, copies, slips>>
  BY DEF Insert, At
<1>2. process[p].key \in Keys
  BY <1>1 DEF Knows
<1>3. "delay" \in Places /\ "enqueued" \in Places
  BY StepPlacesOf
<1>4. CASE job[process[p].key] = "none"
  BY <1>1, <1>2, <1>3, <1>4, GoesMoves DEF Insert, Key
<1>5. CASE job[process[p].key] # "none"
  BY <1>1, <1>2, <1>3, <1>5, GoesMoves DEF Insert, Key
<1> QED
  BY <1>4, <1>5

LEMMA DelayDoes ==
  ASSUME OutboxTyped, NEW p \in Workers, Knows(p), Delay(p)
  PROVE  /\ Alone(p) /\ Stays(p) /\ process[p].at = "delay" /\ process[p].key \in Keys
         /\ mail' = Published(process[p].key, 0) /\ process'[p].at = "enqueued"
         /\ UNCHANGED <<job, copies, slips>>
<1>1. process[p].at = "delay" /\ Goes(p, "enqueued")
  BY DEF Delay, At
<1>2. "enqueued" \in Places /\ process[p].key \in Keys
  BY <1>1, StepPlacesOf DEF Knows
<1> QED
  BY <1>1, <1>2, GoesMoves DEF Delay, Key

LEMMA ReturnDoes ==
  ASSUME OutboxTyped, NEW p \in Workers, Return(p) \/ LoseCall(p) \/ Ack(p)
  PROVE  Alone(p) /\ process'[p] = AtRest /\ UNCHANGED Outbox
<1>1. Rests(p) /\ UNCHANGED Outbox
  BY DEF Return, LoseCall, Ack, outbox, Outbox
<1> QED
  BY <1>1, RestsMoves

LEMMA TakeDoes ==
  ASSUME OutboxTyped, NEW p \in Workers, NEW k \in Keys, NEW n \in 0 .. MaxRetries, Take(p, k, n)
  PROVE  /\ Alone(p) /\ process[p] = AtRest /\ mail[k][n] > 0 /\ mail' = [mail EXCEPT ![k][n] = @ - 1]
         /\ process'[p].at = "check" /\ process'[p].key = k /\ process'[p].verdict = "none"
         /\ UNCHANGED <<job, copies, slips>>
<1>1. "check" \in Places
  BY StepPlacesOf
<1>2. process' = [process EXCEPT ![p] = [AtRest EXCEPT !.at = "check", !.key = k, !.tries = n]]
  BY DEF Take
<1>3. /\ Alone(p) /\ process'[p].at = "check" /\ process'[p].key = k /\ process'[p].verdict = "none"
  BY <1>1, <1>2, StartsMoves
<1> QED
  BY <1>3 DEF Take

LEMMA CheckDoes ==
  ASSUME OutboxTyped, NEW p \in Workers, Knows(p), NEW configured \in BOOLEAN, Check(p, configured)
  PROVE  /\ Alone(p) /\ Stays(p) /\ process[p].at = "check" /\ process[p].key \in Keys /\ process[p].verdict = "none"
         /\ UNCHANGED Outbox
         /\ \/ process'[p].at = "ack" /\ process'[p].verdict = "none"
            \/ process'[p].at = "send" /\ job[process[p].key] \notin Final
            \/ process'[p].at = "mark" /\ process'[p].verdict = "failed"
<1>1. process[p].at = "check" /\ UNCHANGED Outbox
  BY DEF Check, At, outbox, Outbox
<1>2. "ack" \in Places /\ "send" \in Places /\ "mark" \in Places /\ "failed" \in Verdicts
      /\ process[p].key \in Keys /\ process[p].verdict = "none"
  BY <1>1, StepPlacesOf DEF Knows, Verdicts
<1>3. CASE ~ToSend(process[p].key)
  <2>1. Goes(p, "ack")
    BY <1>3 DEF Check, Key
  <2> QED
    BY <1>1, <1>2, <2>1, GoesMoves
<1>4. CASE ToSend(process[p].key) /\ configured
  <2>1. Goes(p, "send")
    BY <1>4 DEF Check, Key
  <2> QED
    BY <1>1, <1>2, <1>4, <2>1, GoesMoves DEF ToSend
<1>5. CASE ToSend(process[p].key) /\ ~configured
  <2>1. Decides(p, "mark", "failed")
    BY <1>5 DEF Check, Key
  <2> QED
    BY <1>1, <1>2, <2>1, DecidesMoves
<1> QED
  BY <1>3, <1>4, <1>5

LEMMA SendDoesOne ==
  ASSUME OutboxTyped, NEW p \in Workers, Knows(p),
         NEW answer \in {"accepted", "refused", "unreached", "lost"}, Send(p, answer)
  PROVE  /\ Alone(p) /\ Stays(p) /\ process[p].at = "send" /\ process[p].key \in Keys
         /\ process'[p].at = "mark" /\ UNCHANGED <<job, mail>>
         /\ process'[p].verdict = "sent" <=> answer = "accepted"
         /\ process'[p].verdict \in {"sent", "failed", "pending"}
         /\ copies' = (IF answer \in {"accepted", "lost"}
                       THEN [copies EXCEPT ![process[p].key] = @ + 1] ELSE copies)
         /\ slips' = (IF answer = "lost" THEN [slips EXCEPT ![process[p].key] = @ + 1] ELSE slips)
<1>1. process[p].at = "send" /\ UNCHANGED <<job, mail>>
  BY DEF Send, At
<1>2. "mark" \in Places /\ process[p].key \in Keys
  BY <1>1, StepPlacesOf DEF Knows
<1> DEFINE v == CASE answer = "accepted" -> "sent"
                  [] answer = "refused" -> "failed"
                  [] OTHER -> TransientVerdict(process[p].tries)
<1>3. v \in {"sent", "failed", "pending"} /\ (v = "sent" <=> answer = "accepted") /\ v \in Verdicts
  BY DEF TransientVerdict, Verdicts
<1>4. Decides(p, "mark", v)
  BY DEF Send
<1> HIDE DEF v
<1>5. Alone(p) /\ Stays(p) /\ process'[p].at = "mark" /\ process'[p].verdict = v
  BY <1>2, <1>3, <1>4, DecidesMoves
<1> QED
  BY <1>1, <1>2, <1>3, <1>5 DEF Send, Slip, Key

LEMMA MarkDoes ==
  ASSUME OutboxTyped, NEW p \in Workers, Knows(p), Mark(p)
  PROVE  /\ Alone(p) /\ Stays(p) /\ process[p].at = "mark" /\ process[p].key \in Keys
         /\ process[p].verdict \in {"sent", "failed", "pending"}
         /\ process'[p].verdict = process[p].verdict
         /\ process'[p].at = (IF process[p].verdict = "pending" THEN "raise" ELSE "ack")
         /\ UNCHANGED <<mail, copies, slips>>
         /\ job' = (IF process[p].verdict = "sent" /\ job[process[p].key] # "pending" THEN job
                    ELSE [job EXCEPT ![process[p].key] = process[p].verdict])
<1>1. process[p].at = "mark" /\ UNCHANGED <<mail, copies, slips>>
  BY DEF Mark, At
<1>2. "raise" \in Places /\ "ack" \in Places /\ process[p].key \in Keys
      /\ process[p].verdict \in {"sent", "failed", "pending"}
  BY <1>1, StepPlacesOf DEF Knows
<1>3. Goes(p, IF process[p].verdict = "pending" THEN "raise" ELSE "ack")
  BY DEF Mark
<1>4. (IF process[p].verdict = "pending" THEN "raise" ELSE "ack") \in Places
  BY <1>2
<1>5. /\ Alone(p) /\ Stays(p) /\ process'[p].verdict = process[p].verdict
      /\ process'[p].at = (IF process[p].verdict = "pending" THEN "raise" ELSE "ack")
  BY <1>3, <1>4, GoesMoves
<1> QED
  BY <1>1, <1>2, <1>5 DEF Mark, Key

LEMMA RaiseDoes ==
  ASSUME OutboxTyped, NEW p \in Workers, Knows(p), Raise(p)
  PROVE  /\ Alone(p) /\ Stays(p) /\ process[p].at = "raise" /\ process[p].key \in Keys
         /\ process'[p].at = "ack" /\ process'[p].verdict = "pending"
         /\ UNCHANGED <<job, copies, slips>>
         /\ mail' = mail \/ \E n \in 0 .. MaxRetries : mail' = Published(process[p].key, n)
<1>1. process[p].at = "raise" /\ Decides(p, "ack", "pending") /\ UNCHANGED <<job, copies, slips>>
  BY DEF Raise, At
<1>2. "ack" \in Places /\ "pending" \in Verdicts /\ process[p].key \in Keys
  BY <1>1, StepPlacesOf DEF Knows, Verdicts
<1>3. process[p].tries \in 0 .. MaxRetries /\ MaxRetries \in Nat
  BY NotificationAssumption DEF OutboxTyped, ProcessOf
<1>4. mail' = mail \/ \E n \in 0 .. MaxRetries : mail' = Published(process[p].key, n)
  <2>1. CASE process[p].tries < MaxRetries
    <3>1. process[p].tries + 1 \in 0 .. MaxRetries
      BY <1>3, <2>1
    <3> QED
      BY <2>1, <3>1 DEF Raise, Key
  <2>2. CASE ~(process[p].tries < MaxRetries)
    BY <2>2 DEF Raise
  <2> QED
    BY <2>1, <2>2
<1> QED
  BY <1>1, <1>2, <1>4, DecidesMoves

LEMMA BreakDoes ==
  ASSUME OutboxTyped, NEW p \in Workers, Knows(p), Break(p)
  PROVE  /\ Alone(p) /\ Stays(p) /\ process[p].at \in {"check", "mark"} /\ process[p].key \in Keys
         /\ process'[p].at = "raise" /\ UNCHANGED <<job, mail, copies>>
         /\ slips' = (IF process[p].verdict = "sent" THEN [slips EXCEPT ![process[p].key] = @ + 1] ELSE slips)
<1>1. process[p].at \in {"check", "mark"} /\ Goes(p, "raise") /\ UNCHANGED <<job, mail, copies>>
  BY DEF Break, At
<1>2. "raise" \in Places /\ process[p].key \in Keys
  BY <1>1, StepPlacesOf DEF Knows
<1> QED
  BY <1>1, <1>2, GoesMoves DEF Break, Slip, Key

LEMMA LoseSenderDoes ==
  ASSUME OutboxTyped, NEW p \in Workers, Knows(p), LoseSender(p)
  PROVE  /\ Alone(p) /\ process'[p] = AtRest /\ process[p].at \in Sending /\ process[p].key \in Keys
         /\ UNCHANGED <<job, copies>>
         /\ process[p].tries \in 0 .. MaxRetries /\ mail' = Published(process[p].key, process[p].tries)
         /\ slips' = (IF \/ process[p].at \in {"mark", "raise"} /\ process[p].verdict = "sent"
                         \/ process[p].at = "ack" /\ (process[p].verdict = "pending" \/ slips[process[p].key] > 0)
                      THEN [slips EXCEPT ![process[p].key] = @ + 1] ELSE slips)
<1>1. process[p].at \in Sending /\ Rests(p) /\ UNCHANGED <<job, copies>>
  BY DEF LoseSender, At
<1>2. process[p].key \in Keys
  BY <1>1, StepPlacesOf DEF Knows
<1>3. process[p].tries \in 0 .. MaxRetries
  BY DEF OutboxTyped, ProcessOf
<1> QED
  BY <1>1, <1>2, <1>3, RestsMoves DEF LoseSender, Slip

(* The balance of one notification: what a step adds to the copies and their   *)
(* carriers it adds to the slips.                                              *)
LEMMA Adds ==
  ASSUME OutboxTyped, OutboxTyped', NEW p \in Workers, Alone(p), NEW k \in Keys, Balanced(k),
         NEW dl \in Int, NEW dc \in Int, NEW dn \in Int, NEW dk \in Nat, NEW ds \in Nat,
         Cardinality(Letters(k)') <= Cardinality(Letters(k)) + dl,
         Cardinality(Carriers(k)') <= Cardinality(Carriers(k)) + dc,
         (IF job'[k] = "none" THEN 1 ELSE 0) <= (IF job[k] = "none" THEN 1 ELSE 0) + dn,
         copies'[k] = copies[k] + dk, slips'[k] = slips[k] + ds,
         dl + dc + dn + dk <= ds,
         Closed(k) => dk = 0 /\ Closed(k)'
  PROVE  Balanced(k)'
<1> DEFINE l == Cardinality(Letters(k))
           c == Cardinality(Carriers(k))
           n == IF job[k] = "none" THEN 1 ELSE 0
<1>1. l \in Nat /\ l' \in Nat
  BY LettersFinite
<1>2. IsFiniteSet(Carriers(k)') /\ c \in Nat /\ c' \in Nat
  BY CarriersOf DEF Balanced
<1>3. copies[k] \in Nat /\ slips[k] \in Nat /\ copies'[k] \in Nat /\ slips'[k] \in Nat /\ n \in Nat /\ n' \in Nat
  BY DEF OutboxTyped
<1>4. l' <= l + dl /\ c' <= c + dc /\ n' <= n + dn
  OBVIOUS
<1>5. ToCome(k) = l + c + n /\ ToCome(k)' = l' + c' + n'
  BY DEF ToCome
<1>6. copies[k] <= 1 + slips[k] /\ (~Closed(k) => copies[k] + (l + c + n) <= 1 + slips[k])
  BY <1>5 DEF Balanced
<1> HIDE DEF l, c, n
<1>7. CASE Closed(k)
  <2>1. copies'[k] <= 1 + slips'[k]
    BY <1>3, <1>6, <1>7
  <2> QED
    BY <1>2, <1>7, <2>1 DEF Balanced
<1>8. CASE ~Closed(k)
  <2>1. copies'[k] + (l' + c' + n') <= 1 + slips'[k]
    BY <1>1, <1>2, <1>3, <1>4, <1>6, <1>8
  <2>2. copies'[k] <= 1 + slips'[k]
    BY <1>1, <1>2, <1>3, <2>1
  <2> QED
    BY <1>2, <1>5, <2>1, <2>2 DEF Balanced
<1> QED
  BY <1>7, <1>8

LEMMA StaysClosed ==
  ASSUME NEW p \in Workers, Alone(p), NEW k, Closed(k), job'[k] \in Final, ~Opens(p, k)'
  PROVE  Closed(k)'
<1>1. \A q \in Workers : q # p => (Opens(q, k)' <=> Opens(q, k))
  BY DEF Alone, Opens
<1> QED
  BY <1>1 DEF Closed

(* A step that leaves a notification alone, or only loses a carrier of it.     *)
LEMMA Elsewhere ==
  ASSUME OutboxTyped, OutboxTyped', NEW p \in Workers, Alone(p), NEW k \in Keys, Balanced(k),
         job'[k] = job[k], mail'[k] = mail[k], copies'[k] = copies[k], slips'[k] = slips[k],
         Carries(p, k)' => Carries(p, k), Closed(k) => ~Opens(p, k)'
  PROVE  Balanced(k)' /\ (Closed(k) => Closed(k)')
<1>1. Cardinality(Letters(k)') = Cardinality(Letters(k)) /\ Cardinality(Letters(k)) \in Nat
  BY LettersKept, LettersFinite
<1>2. Cardinality(Carriers(k)') <= Cardinality(Carriers(k)) /\ Cardinality(Carriers(k)) \in Nat
      /\ Cardinality(Carriers(k)') \in Nat
  BY CarriersOf DEF Balanced
<1>3. Closed(k) => Closed(k)'
  BY StaysClosed DEF Closed
<1>4. copies[k] \in Nat /\ slips[k] \in Nat
  BY DEF OutboxTyped
<1>5. /\ Cardinality(Letters(k)') <= Cardinality(Letters(k)) + 0
      /\ Cardinality(Carriers(k)') <= Cardinality(Carriers(k)) + 0
      /\ (IF job'[k] = "none" THEN 1 ELSE 0) <= (IF job[k] = "none" THEN 1 ELSE 0) + 0
      /\ copies'[k] = copies[k] + 0 /\ slips'[k] = slips[k] + 0
      /\ 0 + 0 + 0 + 0 <= 0 /\ (Closed(k) => 0 = 0 /\ Closed(k)')
  BY <1>1, <1>2, <1>3, <1>4
<1>6. 0 \in Int /\ 0 \in Nat
  OBVIOUS
<1> QED
  BY <1>3, <1>5, <1>6, Adds

LEMMA TookStays ==
  ASSUME OutboxTyped, OutboxTyped', NEW p \in Workers, NEW q \in Workers, q # p, Alone(p), Knows(q), Took(q),
         \A k \in Keys : copies'[k] >= copies[k] /\ slips'[k] >= slips[k] /\ (Closed(k) => Closed(k)')
  PROVE  Took(q)'
<1>1. process'[q] = process[q]
  BY DEF Alone
<1>2. CASE ~(process[q].verdict = "sent" /\ process[q].at \in {"mark", "ack"})
  BY <1>1, <1>2 DEF Took
<1>3. CASE process[q].verdict = "sent" /\ process[q].at \in {"mark", "ack"}
  <2>1. PICK k \in Keys : k = process[q].key
    BY <1>3 DEF Knows
  <2>2. copies[k] >= 1 /\ (process[q].at = "ack" => slips[k] > 0 \/ Closed(k))
    BY <1>3, <2>1 DEF Took
  <2>3. copies[k] \in Nat /\ copies'[k] \in Nat /\ slips[k] \in Nat /\ slips'[k] \in Nat
    BY DEF OutboxTyped
  <2>4. copies'[k] >= 1
    BY <2>2, <2>3
  <2>5. process[q].at = "ack" => slips'[k] > 0 \/ Closed(k)'
    BY <2>2, <2>3
  <2>6. k = process'[q].key
    BY <1>1, <2>1
  <2> QED
    BY <1>1, <2>4, <2>5, <2>6 DEF Took, Closed, Opens
<1> QED
  BY <1>2, <1>3

LEMMA BalancedBut ==
  ASSUME OutboxTyped, OutboxTyped', KnowsAll, BalancedAll, NEW p \in Workers, Alone(p), NEW k \in Keys,
         \A j \in Keys : j # k => job'[j] = job[j] /\ mail'[j] = mail[j] /\ copies'[j] = copies[j] /\ slips'[j] = slips[j],
         process'[p].key \in {k, NoKey},
         Balanced(k)', Closed(k) => Closed(k)', copies'[k] >= copies[k], slips'[k] >= slips[k],
         Took(p)'
  PROVE  BalancedAll'
<1>1. NoKey \notin Keys
  BY NotificationAssumption
<1>2. ASSUME NEW j \in Keys, j # k PROVE Balanced(j)' /\ (Closed(j) => Closed(j)')
  <2>1. ~Carries(p, j)' /\ ~Opens(p, j)'
    BY <1>1, <1>2 DEF Carries, Opens
  <2> QED
    BY <1>2, <2>1, Elsewhere DEF BalancedAll
<1>3. \A j \in Keys : copies'[j] >= copies[j] /\ slips'[j] >= slips[j] /\ (Closed(j) => Closed(j)')
  <2> SUFFICES ASSUME NEW j \in Keys, j # k PROVE copies'[j] >= copies[j] /\ slips'[j] >= slips[j]
    BY <1>2
  <2> QED
    BY DEF OutboxTyped
<1>4. \A q \in Workers : q # p => Took(q)'
  BY <1>3, TookStays DEF BalancedAll, KnowsAll
<1> QED
  BY <1>2, <1>4 DEF BalancedAll

(* A step that leaves all rows and messages as they are.                       *)
LEMMA BalancedOnward ==
  ASSUME OutboxTyped, OutboxTyped', KnowsAll, BalancedAll, NEW p \in Workers, Alone(p), UNCHANGED Outbox,
         \A k \in Keys : (Carries(p, k)' => Carries(p, k)) /\ (Closed(k) => ~Opens(p, k)'),
         Took(p)'
  PROVE  BalancedAll'
<1>1. ASSUME NEW j \in Keys PROVE Balanced(j)' /\ (Closed(j) => Closed(j)')
  BY Elsewhere DEF BalancedAll, Outbox
<1>2. \A j \in Keys : copies'[j] >= copies[j] /\ slips'[j] >= slips[j] /\ (Closed(j) => Closed(j)')
  BY <1>1 DEF Outbox, OutboxTyped
<1>3. \A q \in Workers : q # p => Took(q)'
  BY <1>2, TookStays DEF BalancedAll, KnowsAll
<1> QED
  BY <1>1, <1>3 DEF BalancedAll

LEMMA InsertBalances ==
  ASSUME OutboxTyped, OutboxTyped', KnowsAll, BalancedAll, NEW p \in Workers, Insert(p)
  PROVE  BalancedAll'
<1>0. Knows(p)
  BY DEF KnowsAll
<1>1. /\ Alone(p) /\ Stays(p) /\ process[p].at = "insert" /\ process[p].key \in Keys
      /\ UNCHANGED <<mail, copies, slips>>
      /\ \/ /\ job[process[p].key] = "none" /\ job' = [job EXCEPT ![process[p].key] = "pending"]
            /\ process'[p].at = "delay"
         \/ job[process[p].key] # "none" /\ job' = job /\ process'[p].at = "enqueued"
  BY <1>0, InsertDoes
<1>2. Took(p)'
  BY <1>1 DEF Took
<1>3. CASE job' = job /\ process'[p].at = "enqueued"
  <2>1. \A k \in Keys : ~Carries(p, k)' /\ ~Opens(p, k)'
    BY <1>3 DEF Carries, Opens, Sending
  <2>2. UNCHANGED Outbox
    BY <1>1, <1>3 DEF Outbox
  <2> QED
    BY <1>1, <1>2, <2>1, <2>2, BalancedOnward
<1>4. CASE job[process[p].key] = "none" /\ job' = [job EXCEPT ![process[p].key] = "pending"]
           /\ process'[p].at = "delay"
  <2>1. PICK k \in Keys : k = process[p].key
    BY <1>1
  <2>2. job[k] = "none" /\ job'[k] = "pending" /\ \A j \in Keys : j # k => job'[j] = job[j]
    BY <1>4, <2>1 DEF OutboxTyped
  <2>3. ~Closed(k) /\ ~Opens(p, k)'
    BY <1>4, <2>2 DEF Closed, Opens, Final
  <2>4. Balanced(k) /\ IsFiniteSet(Carriers(k)) /\ copies[k] \in Nat /\ slips[k] \in Nat
    BY DEF BalancedAll, Balanced, OutboxTyped
  <2>5. /\ Cardinality(Letters(k)') <= Cardinality(Letters(k)) + 0
        /\ Cardinality(Carriers(k)') <= Cardinality(Carriers(k)) + 1
    BY <1>1, <2>4, LettersKept, LettersFinite, CarriersOf
  <2>6. /\ (IF job'[k] = "none" THEN 1 ELSE 0) <= (IF job[k] = "none" THEN 1 ELSE 0) + (-1)
        /\ copies'[k] = copies[k] + 0 /\ slips'[k] = slips[k] + 0 /\ 0 + 1 + (-1) + 0 <= 0
    BY <1>1, <2>2, <2>4
  <2>7. Balanced(k)'
    <3>1. 0 \in Int /\ 1 \in Int /\ -1 \in Int /\ 0 \in Nat
      OBVIOUS
    <3> QED
      BY <1>1, <2>3, <2>4, <2>5, <2>6, <3>1, Adds
  <2>8. process'[p].key \in {k, NoKey}
    BY <1>1, <2>1 DEF Stays
  <2>9. copies'[k] >= copies[k] /\ slips'[k] >= slips[k]
    BY <1>1, <2>4
  <2> QED
    BY <1>1, <1>2, <2>2, <2>3, <2>7, <2>8, <2>9, BalancedBut
<1> QED
  BY <1>1, <1>3, <1>4

(* A message takes the place of the process that published it.                 *)
LEMMA PublishBalances ==
  ASSUME OutboxTyped, OutboxTyped', KnowsAll, BalancedAll, NEW p \in Workers, Alone(p), NEW k \in Keys,
         process[p].key = k, process'[p].key \in {k, NoKey}, UNCHANGED <<job, copies>>,
         NEW n \in 0 .. MaxRetries, mail' = Published(k, n),
         ~Carries(p, k)', ~Opens(p, k)', Took(p)',
         \A j \in Keys : j # k => slips'[j] = slips[j],
         NEW ds \in {0, 1}, slips'[k] = slips[k] + ds,
         ~Closed(k) /\ ds = 0 => Carries(p, k)
  PROVE  BalancedAll'
<1>1. Balanced(k) /\ IsFiniteSet(Carriers(k)) /\ copies[k] \in Nat /\ slips[k] \in Nat
  BY DEF BalancedAll, Balanced, OutboxTyped
<1>2. \A j \in Keys : j # k => mail'[j] = mail[j]
  BY PublishedIs
<1>3. Closed(k) => Closed(k)'
  BY StaysClosed DEF Closed
<1>4. /\ Cardinality(Letters(k)') <= Cardinality(Letters(k)) + 1
      /\ Cardinality(Carriers(k)') <= Cardinality(Carriers(k))
      /\ Carries(p, k) => Cardinality(Carriers(k)') = Cardinality(Carriers(k)) - 1
      /\ Cardinality(Carriers(k)) \in Nat /\ Cardinality(Carriers(k)') \in Nat
      /\ Cardinality(Letters(k)) \in Nat /\ Cardinality(Letters(k)') \in Nat
  BY <1>1, LettersPublished, LettersFinite, CarriersOf
<1>5. (IF job'[k] = "none" THEN 1 ELSE 0) <= (IF job[k] = "none" THEN 1 ELSE 0) + 0
      /\ copies'[k] = copies[k] + 0
  BY <1>1
<1>6. Balanced(k)'
  <2>1. CASE Closed(k)
    <3>1. copies'[k] <= 1 + slips'[k]
      BY <1>1, <2>1 DEF Balanced
    <3>2. IsFiniteSet(Carriers(k)')
      BY <1>1, CarriersOf
    <3> QED
      BY <1>3, <2>1, <3>1, <3>2 DEF Balanced
  <2>2. CASE ~Closed(k) /\ ds = 1
    <3>1. 0 \in Int /\ 1 \in Int /\ 0 \in Nat /\ 1 \in Nat /\ 1 + 0 + 0 + 0 <= 1
      OBVIOUS
    <3>2. Cardinality(Carriers(k)') <= Cardinality(Carriers(k)) + 0 /\ slips'[k] = slips[k] + 1
      BY <1>4, <2>2
    <3> QED
      BY <1>1, <1>4, <1>5, <2>2, <3>1, <3>2, Adds
  <2>3. CASE ~Closed(k) /\ ds = 0
    <3>1. 0 \in Int /\ 1 \in Int /\ -1 \in Int /\ 0 \in Nat /\ 1 + (-1) + 0 + 0 <= 0
      OBVIOUS
    <3>2. Cardinality(Carriers(k)') <= Cardinality(Carriers(k)) + (-1) /\ slips'[k] = slips[k] + 0
      BY <1>4, <2>3
    <3> QED
      BY <1>1, <1>4, <1>5, <2>3, <3>1, <3>2, Adds
  <2> QED
    BY <2>1, <2>2, <2>3
<1>7. copies'[k] >= copies[k] /\ slips'[k] >= slips[k]
  BY <1>1
<1> QED
  BY <1>2, <1>3, <1>6, <1>7, BalancedBut

LEMMA DelayBalances ==
  ASSUME OutboxTyped, OutboxTyped', KnowsAll, BalancedAll, NEW p \in Workers, Delay(p)
  PROVE  BalancedAll'
<1>0. Knows(p)
  BY DEF KnowsAll
<1>1. /\ Alone(p) /\ Stays(p) /\ process[p].at = "delay" /\ process[p].key \in Keys
      /\ mail' = Published(process[p].key, 0) /\ process'[p].at = "enqueued"
      /\ UNCHANGED <<job, copies, slips>>
  BY <1>0, DelayDoes
<1>2. PICK k \in Keys : k = process[p].key
  BY <1>1
<1>3. ~Carries(p, k)' /\ ~Opens(p, k)' /\ Took(p)' /\ Carries(p, k)
  BY <1>1, <1>2 DEF Carries, Opens, Took, Spent, Sending
<1>4. 0 \in 0 .. MaxRetries /\ 0 \in {0, 1} /\ slips'[k] = slips[k] + 0
  BY <1>1, NotificationAssumption DEF OutboxTyped
<1>5. process'[p].key \in {k, NoKey} /\ mail' = Published(k, 0)
  BY <1>1, <1>2 DEF Stays
<1> QED
  BY <1>1, <1>2, <1>3, <1>4, <1>5, PublishBalances

LEMMA RaiseBalances ==
  ASSUME OutboxTyped, OutboxTyped', KnowsAll, BalancedAll, NEW p \in Workers, Raise(p)
  PROVE  BalancedAll'
<1>0. Knows(p)
  BY DEF KnowsAll
<1>1. /\ Alone(p) /\ Stays(p) /\ process[p].at = "raise" /\ process[p].key \in Keys
      /\ process'[p].at = "ack" /\ process'[p].verdict = "pending"
      /\ UNCHANGED <<job, copies, slips>>
      /\ mail' = mail \/ \E n \in 0 .. MaxRetries : mail' = Published(process[p].key, n)
  BY <1>0, RaiseDoes
<1>2. PICK k \in Keys : k = process[p].key
  BY <1>1
<1>3. Took(p)' /\ (\A j \in Keys : ~Carries(p, j)' /\ ~Opens(p, j)') /\ Carries(p, k)
  BY <1>1, <1>2 DEF Carries, Opens, Took, Spent, Sending
<1>4. CASE mail' = mail
  <2>1. UNCHANGED Outbox
    BY <1>1, <1>4 DEF Outbox
  <2> QED
    BY <1>1, <1>3, <2>1, BalancedOnward
<1>5. CASE \E n \in 0 .. MaxRetries : mail' = Published(process[p].key, n)
  <2>1. PICK n \in 0 .. MaxRetries : mail' = Published(k, n)
    BY <1>2, <1>5
  <2>2. 0 \in {0, 1} /\ slips'[k] = slips[k] + 0 /\ process'[p].key \in {k, NoKey}
    BY <1>1, <1>2 DEF Stays, OutboxTyped
  <2> QED
    BY <1>1, <1>2, <1>3, <2>1, <2>2, PublishBalances
<1> QED
  BY <1>1, <1>4, <1>5

LEMMA LoseSenderBalances ==
  ASSUME OutboxTyped, OutboxTyped', KnowsAll, BalancedAll, NEW p \in Workers, LoseSender(p)
  PROVE  BalancedAll'
<1>0. Knows(p) /\ Took(p)
  BY DEF KnowsAll, BalancedAll
<1>1. /\ Alone(p) /\ process'[p] = AtRest /\ process[p].at \in Sending /\ process[p].key \in Keys
      /\ UNCHANGED <<job, copies>>
      /\ process[p].tries \in 0 .. MaxRetries /\ mail' = Published(process[p].key, process[p].tries)
      /\ slips' = (IF \/ process[p].at \in {"mark", "raise"} /\ process[p].verdict = "sent"
                      \/ process[p].at = "ack" /\ (process[p].verdict = "pending" \/ slips[process[p].key] > 0)
                   THEN [slips EXCEPT ![process[p].key] = @ + 1] ELSE slips)
  BY <1>0, LoseSenderDoes
<1>2. PICK k \in Keys, n \in 0 .. MaxRetries : k = process[p].key /\ n = process[p].tries
  BY <1>1
<1>3. AtRest.at = "idle" /\ AtRest.key = NoKey /\ AtRest.verdict = "none"
  BY IdleProcess
<1>4. ~Carries(p, k)' /\ ~Opens(p, k)' /\ Took(p)' /\ process'[p].key \in {k, NoKey}
  BY <1>1, <1>3 DEF Carries, Opens, Took, Sending
<1>5. slips \in [Keys -> Nat]
  BY DEF OutboxTyped
<1>6. CASE \/ process[p].at \in {"mark", "raise"} /\ process[p].verdict = "sent"
           \/ process[p].at = "ack" /\ (process[p].verdict = "pending" \/ slips[process[p].key] > 0)
  <2>1. slips'[k] = slips[k] + 1 /\ \A j \in Keys : j # k => slips'[j] = slips[j]
    BY <1>1, <1>2, <1>5, <1>6
  <2>2. 1 \in {0, 1} /\ 1 # 0 /\ mail' = Published(k, n)
    BY <1>1, <1>2
  <2> QED
    BY <1>1, <1>2, <1>4, <2>1, <2>2, PublishBalances
<1>7. CASE ~ (\/ process[p].at \in {"mark", "raise"} /\ process[p].verdict = "sent"
              \/ process[p].at = "ack" /\ (process[p].verdict = "pending" \/ slips[process[p].key] > 0))
  <2>1. slips'[k] = slips[k] + 0 /\ \A j \in Keys : j # k => slips'[j] = slips[j]
    BY <1>1, <1>2, <1>5, <1>7
  <2>2. ~Closed(k) => Carries(p, k)
    <3>1. CASE process[p].at = "ack" /\ process[p].verdict = "sent"
      <4>1. ~ (slips[k] > 0) /\ (slips[k] > 0 \/ Closed(process[p].key))
        BY <1>0, <1>2, <1>7, <3>1 DEF Took
      <4> QED
        BY <1>2, <4>1
    <3>2. CASE ~ (process[p].at = "ack" /\ process[p].verdict = "sent")
      <4>1. ~Spent(p)
        BY <1>7, <3>2 DEF Spent
      <4> QED
        BY <1>1, <1>2, <4>1 DEF Carries
    <3> QED
      BY <3>1, <3>2
  <2>3. 0 \in {0, 1} /\ mail' = Published(k, n)
    BY <1>1, <1>2
  <2> QED
    BY <1>1, <1>2, <1>4, <2>1, <2>2, <2>3, PublishBalances
<1> QED
  BY <1>6, <1>7

LEMMA TakeBalances ==
  ASSUME OutboxTyped, OutboxTyped', KnowsAll, BalancedAll, NEW p \in Workers, NEW k \in Keys,
         NEW n \in 0 .. MaxRetries, Take(p, k, n)
  PROVE  BalancedAll'
<1>1. /\ Alone(p) /\ process[p] = AtRest /\ mail[k][n] > 0 /\ mail' = [mail EXCEPT ![k][n] = @ - 1]
      /\ process'[p].at = "check" /\ process'[p].key = k /\ process'[p].verdict = "none"
      /\ UNCHANGED <<job, copies, slips>>
  BY TakeDoes
<1>2. Balanced(k) /\ IsFiniteSet(Carriers(k)) /\ copies[k] \in Nat /\ slips[k] \in Nat
  BY DEF BalancedAll, Balanced, OutboxTyped
<1>3. /\ \A j \in Keys : j # k => mail'[j] = mail[j]
      /\ Cardinality(Letters(k)') <= Cardinality(Letters(k)) + (-1)
  BY <1>1, LettersTaken, LettersFinite
<1>4. Cardinality(Carriers(k)') <= Cardinality(Carriers(k)) + 1
  BY <1>1, <1>2, CarriersOf
<1>5. Took(p)' /\ ~Opens(p, k)'
  BY <1>1 DEF Took, Opens
<1>6. Closed(k) => Closed(k)'
  BY <1>1, <1>5, StaysClosed DEF Closed
<1>7. /\ (IF job'[k] = "none" THEN 1 ELSE 0) <= (IF job[k] = "none" THEN 1 ELSE 0) + 0
      /\ copies'[k] = copies[k] + 0 /\ slips'[k] = slips[k] + 0
      /\ copies'[k] >= copies[k] /\ slips'[k] >= slips[k]
  BY <1>1, <1>2
<1>8. Balanced(k)'
  <2>1. 0 \in Int /\ 1 \in Int /\ -1 \in Int /\ 0 \in Nat /\ (-1) + 1 + 0 + 0 <= 0
    OBVIOUS
  <2> QED
    BY <1>1, <1>2, <1>3, <1>4, <1>6, <1>7, <2>1, Adds
<1>9. process'[p].key \in {k, NoKey}
  BY <1>1
<1> QED
  BY <1>1, <1>3, <1>5, <1>6, <1>7, <1>8, <1>9, BalancedBut

LEMMA SendBalances ==
  ASSUME OutboxTyped, OutboxTyped', KnowsAll, BalancedAll, NEW p \in Workers,
         NEW answer \in {"accepted", "refused", "unreached", "lost"}, Send(p, answer)
  PROVE  BalancedAll'
<1>0. Knows(p)
  BY DEF KnowsAll
<1>1. /\ Alone(p) /\ Stays(p) /\ process[p].at = "send" /\ process[p].key \in Keys
      /\ process'[p].at = "mark" /\ UNCHANGED <<job, mail>>
      /\ process'[p].verdict = "sent" <=> answer = "accepted"
      /\ process'[p].verdict \in {"sent", "failed", "pending"}
      /\ copies' = (IF answer \in {"accepted", "lost"}
                    THEN [copies EXCEPT ![process[p].key] = @ + 1] ELSE copies)
      /\ slips' = (IF answer = "lost" THEN [slips EXCEPT ![process[p].key] = @ + 1] ELSE slips)
  BY <1>0, SendDoesOne
<1>2. PICK k \in Keys : k = process[p].key
  BY <1>1
<1>3. Balanced(k) /\ IsFiniteSet(Carriers(k)) /\ copies[k] \in Nat /\ slips[k] \in Nat
  BY DEF BalancedAll, Balanced, OutboxTyped
<1>4. ~Closed(k)
  BY <1>1, <1>2 DEF Closed, Opens
<1>5. Carries(p, k)
  BY <1>1, <1>2 DEF Carries, Spent, Sending
<1> DEFINE dk == IF answer \in {"accepted", "lost"} THEN 1 ELSE 0
           ds == IF answer = "lost" THEN 1 ELSE 0
           dc == IF answer = "accepted" THEN -1 ELSE 0
<1>6. /\ copies'[k] = copies[k] + dk /\ slips'[k] = slips[k] + ds
      /\ \A j \in Keys : j # k => copies'[j] = copies[j] /\ slips'[j] = slips[j]
  BY <1>1, <1>2 DEF OutboxTyped
<1>7. Cardinality(Carriers(k)') <= Cardinality(Carriers(k)) + dc
  <2>1. /\ Cardinality(Carriers(k)) \in Nat /\ Cardinality(Carriers(k)') \in Nat
        /\ Cardinality(Carriers(k)') <= Cardinality(Carriers(k))
        /\ ~Carries(p, k)' => Cardinality(Carriers(k)') = Cardinality(Carriers(k)) - 1
    BY <1>1, <1>3, <1>5, CarriersOf
  <2>2. answer = "accepted" => ~Carries(p, k)'
    BY <1>1 DEF Carries, Spent
  <2>3. CASE answer = "accepted"
    BY <2>1, <2>2, <2>3
  <2>4. CASE answer # "accepted"
    BY <2>1, <2>4
  <2> QED
    BY <2>3, <2>4
<1>8. Cardinality(Letters(k)') <= Cardinality(Letters(k)) + 0
  BY <1>1, LettersKept, LettersFinite
<1>9. Balanced(k)'
  <2>1. dc \in Int /\ dk \in Nat /\ ds \in Nat /\ 0 \in Int /\ 0 + dc + 0 + dk <= ds
    OBVIOUS
  <2>2. (IF job'[k] = "none" THEN 1 ELSE 0) <= (IF job[k] = "none" THEN 1 ELSE 0) + 0
    BY <1>1
  <2> HIDE DEF dc, dk, ds
  <2> QED
    BY <1>1, <1>3, <1>4, <1>6, <1>7, <1>8, <2>1, <2>2, Adds
<1>10. copies'[k] >= copies[k] /\ slips'[k] >= slips[k]
  BY <1>3, <1>6
<1>11. Took(p)'
  <2>1. process'[p].key = k
    BY <1>1, <1>2 DEF Stays
  <2>2. process'[p].verdict = "sent" => copies'[k] >= 1
    BY <1>1, <1>3, <1>6
  <2> QED
    BY <1>1, <2>1, <2>2 DEF Took
<1>12. process'[p].key \in {k, NoKey}
  BY <1>1, <1>2 DEF Stays
<1> QED
  BY <1>1, <1>4, <1>6, <1>9, <1>10, <1>11, <1>12, BalancedBut

LEMMA MarkBalances ==
  ASSUME OutboxTyped, OutboxTyped', KnowsAll, BalancedAll, NEW p \in Workers, Mark(p)
  PROVE  BalancedAll'
<1>0. Knows(p) /\ Took(p)
  BY DEF KnowsAll, BalancedAll
<1>1. /\ Alone(p) /\ Stays(p) /\ process[p].at = "mark" /\ process[p].key \in Keys
      /\ process[p].verdict \in {"sent", "failed", "pending"}
      /\ process'[p].verdict = process[p].verdict
      /\ process'[p].at = (IF process[p].verdict = "pending" THEN "raise" ELSE "ack")
      /\ UNCHANGED <<mail, copies, slips>>
      /\ job' = (IF process[p].verdict = "sent" /\ job[process[p].key] # "pending" THEN job
                 ELSE [job EXCEPT ![process[p].key] = process[p].verdict])
  BY <1>0, MarkDoes
<1>2. PICK k \in Keys : k = process[p].key
  BY <1>1
<1>3. Balanced(k) /\ IsFiniteSet(Carriers(k)) /\ copies[k] \in Nat /\ slips[k] \in Nat
  BY DEF BalancedAll, Balanced, OutboxTyped
<1>4. /\ \A j \in Keys : j # k => job'[j] = job[j]
      /\ job'[k] = (IF process[p].verdict = "sent" /\ job[k] # "pending" THEN job[k] ELSE process[p].verdict)
  BY <1>1, <1>2 DEF OutboxTyped
<1>5. ~Opens(p, k)'
  BY <1>1 DEF Opens
<1>6. Closed(k) => Closed(k)'
  <2>1. Closed(k) => process[p].verdict # "pending" /\ job[k] \in Final
    BY <1>1, <1>2 DEF Closed, Opens
  <2>2. Closed(k) => job'[k] \in Final
    BY <1>1, <1>4, <2>1 DEF Final
  <2> QED
    BY <1>1, <1>5, <2>2, StaysClosed
<1>7. /\ Cardinality(Letters(k)') <= Cardinality(Letters(k)) + 0
      /\ Cardinality(Carriers(k)') <= Cardinality(Carriers(k)) + 0
  <2>1. Carries(p, k)' => Carries(p, k)
    BY <1>1, <1>2 DEF Carries, Spent, Sending
  <2> QED
    BY <1>1, <1>3, <2>1, LettersKept, LettersFinite, CarriersOf
<1>8. /\ (IF job'[k] = "none" THEN 1 ELSE 0) <= (IF job[k] = "none" THEN 1 ELSE 0) + 0
      /\ copies'[k] = copies[k] + 0 /\ slips'[k] = slips[k] + 0
      /\ copies'[k] >= copies[k] /\ slips'[k] >= slips[k]
  BY <1>1, <1>3, <1>4
<1>9. Balanced(k)'
  <2>1. 0 \in Int /\ 0 \in Nat /\ 0 + 0 + 0 + 0 <= 0
    OBVIOUS
  <2> QED
    BY <1>1, <1>3, <1>6, <1>7, <1>8, <2>1, Adds
<1>10. Took(p)'
  <2>1. CASE process[p].verdict = "sent"
    <3>1. process'[p].key = k /\ process'[p].at = "ack" /\ copies'[k] >= 1
      BY <1>0, <1>1, <1>2, <2>1 DEF Took, Stays
    <3>2. slips'[k] > 0 \/ Closed(k)'
      <4>1. CASE slips[k] > 0
        BY <1>1, <4>1
      <4>2. CASE Closed(k)
        BY <1>6, <4>2
      <4>3. CASE slips[k] = 0 /\ ~Closed(k)
        <5>1. copies[k] >= 1 /\ copies[k] + ToCome(k) <= 1 + slips[k]
          BY <1>1, <1>3, <3>1, <4>3 DEF Balanced
        <5>2. Cardinality(Letters(k)) \in Nat /\ Cardinality(Carriers(k)) \in Nat
          BY <1>3, LettersFinite, FS_CardinalityType
        <5>3. Cardinality(Carriers(k)) = 0 /\ job[k] # "none"
          BY <1>3, <4>3, <5>1, <5>2 DEF ToCome
        <5>4. Carriers(k) = {}
          BY <1>3, <5>3, FS_EmptySet
        <5>5. ASSUME NEW q \in Workers, q # p, Opens(q, k) PROVE FALSE
          <6>1. Carries(q, k)
            BY <5>5 DEF Opens, Carries, Spent, Sending
          <6> QED
            BY <5>4, <6>1 DEF Carriers
        <5>6. \A q \in Workers : ~Opens(q, k)'
          <6>1. \A q \in Workers : q # p => (Opens(q, k)' <=> Opens(q, k))
            BY <1>1 DEF Alone, Opens
          <6> QED
            BY <1>5, <5>5, <6>1
        <5>7. job'[k] \in Final
          BY <1>4, <2>1, <5>3 DEF OutboxTyped, JobStatus, Final
        <5> QED
          BY <5>6, <5>7 DEF Closed
      <4> QED
        BY <1>3, <4>1, <4>2, <4>3
    <3>3. Closed(k)' => Closed(process[p].key)'
      BY <1>1, <1>2, <3>1 DEF Closed, Opens, Stays
    <3> QED
      BY <3>1, <3>2 DEF Took, Closed, Opens
  <2>2. CASE process[p].verdict # "sent"
    BY <1>1, <2>2 DEF Took
  <2> QED
    BY <2>1, <2>2
<1>11. process'[p].key \in {k, NoKey}
  BY <1>1, <1>2 DEF Stays
<1> QED
  BY <1>1, <1>4, <1>6, <1>8, <1>9, <1>10, <1>11, BalancedBut

LEMMA BreakBalances ==
  ASSUME OutboxTyped, OutboxTyped', KnowsAll, BalancedAll, NEW p \in Workers, Break(p)
  PROVE  BalancedAll'
<1>0. Knows(p)
  BY DEF KnowsAll
<1>1. /\ Alone(p) /\ Stays(p) /\ process[p].at \in {"check", "mark"} /\ process[p].key \in Keys
      /\ process'[p].at = "raise" /\ UNCHANGED <<job, mail, copies>>
      /\ slips' = (IF process[p].verdict = "sent" THEN [slips EXCEPT ![process[p].key] = @ + 1] ELSE slips)
  BY <1>0, BreakDoes
<1>2. PICK k \in Keys : k = process[p].key
  BY <1>1
<1>3. Balanced(k) /\ IsFiniteSet(Carriers(k)) /\ copies[k] \in Nat /\ slips[k] \in Nat
  BY DEF BalancedAll, Balanced, OutboxTyped
<1> DEFINE ds == IF process[p].verdict = "sent" THEN 1 ELSE 0
<1>4. slips'[k] = slips[k] + ds /\ \A j \in Keys : j # k => slips'[j] = slips[j]
  BY <1>1, <1>2 DEF OutboxTyped
<1>5. Took(p)' /\ ~Opens(p, k)'
  BY <1>1 DEF Took, Opens
<1>6. Closed(k) => Closed(k)'
  BY <1>1, <1>5, StaysClosed DEF Closed
<1>7. Cardinality(Carriers(k)') <= Cardinality(Carriers(k)) + ds
  <2>1. process[p].verdict # "sent" => (Carries(p, k)' => Carries(p, k))
    BY <1>1, <1>2 DEF Carries, Spent, Sending, Knows
  <2>2. CASE process[p].verdict = "sent"
    BY <1>1, <1>3, <2>2, CarriersOf
  <2>3. CASE process[p].verdict # "sent"
    BY <1>1, <1>3, <2>1, <2>3, CarriersOf
  <2> QED
    BY <2>2, <2>3
<1>8. Cardinality(Letters(k)') <= Cardinality(Letters(k)) + 0
  BY <1>1, LettersKept, LettersFinite
<1>9. /\ (IF job'[k] = "none" THEN 1 ELSE 0) <= (IF job[k] = "none" THEN 1 ELSE 0) + 0
      /\ copies'[k] = copies[k] + 0 /\ copies'[k] >= copies[k] /\ slips'[k] >= slips[k]
  BY <1>1, <1>3, <1>4
<1>10. Balanced(k)'
  <2>1. 0 \in Int /\ 0 \in Nat /\ ds \in Int /\ ds \in Nat /\ 0 + ds + 0 + 0 <= ds
    OBVIOUS
  <2> HIDE DEF ds
  <2> QED
    BY <1>1, <1>3, <1>4, <1>6, <1>7, <1>8, <1>9, <2>1, Adds
<1>11. process'[p].key \in {k, NoKey}
  BY <1>1, <1>2 DEF Stays
<1> QED
  BY <1>1, <1>4, <1>5, <1>6, <1>9, <1>10, <1>11, BalancedBut


(* A message published is there to be taken.                                   *)
LEMMA PublishedHolds ==
  ASSUME OutboxTyped, NEW k \in Keys, NEW n \in 0 .. MaxRetries, mail' = Published(k, n)
  PROVE  /\ \E m \in 0 .. MaxRetries : mail'[k][m] > 0
         /\ \A j \in Keys, m \in 0 .. MaxRetries : mail[j][m] > 0 => mail'[j][m] > 0
<1>1. mail[k][n] \in 0 .. 2 /\ mail \in [Keys -> [0 .. MaxRetries -> 0 .. 2]]
  BY DEF OutboxTyped
<1>2. /\ \A j \in Keys : j # k => mail'[j] = mail[j]
      /\ \A m \in 0 .. MaxRetries : m # n => mail'[k][m] = mail[k][m]
      /\ mail' = [mail EXCEPT ![k][n] = IF @ < 2 THEN @ + 1 ELSE @]
  BY PublishedIs DEF Published
<1>3. mail'[k][n] = IF mail[k][n] < 2 THEN mail[k][n] + 1 ELSE mail[k][n]
  BY <1>1, <1>2
<1>4. mail'[k][n] > 0
  BY <1>1, <1>3
<1> QED
  BY <1>2, <1>4

LEMMA MailIsUnderWay ==
  ASSUME NEW k, NEW n \in 0 .. MaxRetries, mail'[k][n] > 0
  PROVE  UnderWay(k)'
BY DEF UnderWay

LEMMA BearerIsUnderWay ==
  ASSUME NEW k, NEW q \in Workers, Bears(q, k)'
  PROVE  UnderWay(k)'
BY DEF UnderWay, Bears, Bearing, Key, At

LEMMA PendingOnward ==
  ASSUME PendingKept, NEW p \in Workers, Alone(p), stranded \subseteq stranded',
         \A k \in Keys : job'[k] = "pending" => job[k] = "pending" \/ UnderWay(k)',
         \A k \in Keys, n \in 0 .. MaxRetries : mail[k][n] > 0 => mail'[k][n] > 0 \/ UnderWay(k)',
         \A k \in Keys : Bears(p, k) => UnderWay(k)' \/ k \in stranded' \/ job'[k] # "pending"
  PROVE  PendingKept'
<1> SUFFICES ASSUME NEW k \in Keys, job'[k] = "pending", ~UnderWay(k)', k \notin stranded'
             PROVE  FALSE
  BY DEF PendingKept
<1>1. job[k] = "pending" /\ k \notin stranded
  OBVIOUS
<1>2. UnderWay(k)
  BY <1>1 DEF PendingKept
<1>3. CASE \E n \in 0 .. MaxRetries : mail[k][n] > 0
  <2>1. PICK n \in 0 .. MaxRetries : mail[k][n] > 0
    BY <1>3
  <2>2. mail'[k][n] > 0
    BY <2>1
  <2> QED
    BY <2>2, MailIsUnderWay
<1>4. CASE \E q \in Workers : Bears(q, k)
  <2>1. PICK q \in Workers : Bears(q, k)
    BY <1>4
  <2>2. CASE q = p
    BY <2>1, <2>2
  <2>3. CASE q # p
    <3>1. Bears(q, k)'
      BY <2>1, <2>3 DEF Bears, Alone
    <3> QED
      BY <3>1, BearerIsUnderWay
  <2> QED
    BY <2>2, <2>3
<1> QED
  BY <1>2, <1>3, <1>4 DEF UnderWay, Bears, Bearing, Key, At

LEMMA RetriesOnward ==
  ASSUME RetriesAll, NEW p \in Workers, Alone(p), stranded \subseteq stranded', Retries(p)'
  PROVE  RetriesAll'
BY DEF RetriesAll, Retries, Alone

(* What a step keeps of the invariant.                                         *)
LEMMA KnowsOnward ==
  ASSUME KnowsAll, NEW p \in Workers, Alone(p), Knows(p)', logged \subseteq logged',
         \A q \in Workers : q # p => batch'[q] = batch[q],
         \A k \in Keys : job[k] # "none" => job'[k] # "none"
  PROVE  KnowsAll'
<1>1. ASSUME NEW q \in Workers, q # p PROVE Knows(q)'
  <2>1. process'[q] = process[q] /\ batch'[q] = batch[q] /\ Knows(q)
    BY <1>1 DEF Alone, KnowsAll
  <2>2. process[q].at \in {"delay", "enqueued"} => job'[process[q].key] # "none"
    BY <2>1 DEF Knows
  <2> QED
    BY <2>1, <2>2 DEF Knows, AtRest, Reminding
<1> QED
  BY <1>1 DEF KnowsAll

LEMMA OutboxStep ==
  ASSUME RemindersInv, NEW p \in Workers, Alone(p), OutboxTyped', UNCHANGED schedule,
         \A k \in Keys : job[k] # "none" => job'[k] # "none", Knows(p)', BalancedAll',
         RetriesAll', PendingKept'
  PROVE  RemindersInv'
<1>1. UNCHANGED <<event, reminder, batch, logged>>
  BY DEF schedule
<1>2. RemindersTyped'
  BY <1>1 DEF RemindersInv, RemindersTyped, ReminderStatus
<1>3. KnowsAll'
  BY <1>1, KnowsOnward DEF RemindersInv
<1>4. SentTaken'
  <2>1. Offsets \subseteq Keys
    BY ReminderAssumption
  <2> QED
    BY <1>1, <2>1 DEF RemindersInv, SentTaken
<1> QED
  BY <1>2, <1>3, <1>4 DEF RemindersInv

LEMMA ScheduleStep ==
  ASSUME RemindersInv, NEW p \in Workers, Alone(p), UNCHANGED Outbox,
         event' \in {"booked", "cancelled"}, reminder' \in [Offsets -> ReminderStatus],
         batch' \in [Workers -> SUBSET Offsets], \A q \in Workers : q # p => batch'[q] = batch[q],
         Knows(p)', process'[p].at \notin {"delay"} \union Sending,
         process[p].at \notin Bearing \/ process[p].key \in stranded',
         stranded \subseteq stranded', logged \subseteq logged',
         \A r \in Offsets :
           reminder'[r] = "sent" => reminder[r] = "sent" \/ r \in logged \/ job[r] # "none"
  PROVE  RemindersInv'
<1>1. OutboxTyped'
  BY DEF RemindersInv, RemindersTyped, OutboxTyped, Outbox, Alone, JobStatus
<1>2. RemindersTyped'
  BY <1>1 DEF RemindersTyped, ReminderStatus
<1>3. KnowsAll'
  BY KnowsOnward DEF RemindersInv, Outbox
<1>4. Took(p)' /\ \A k \in Keys : ~Carries(p, k)' /\ ~Opens(p, k)'
  BY DEF Took, Carries, Opens, Sending
<1>5. BalancedAll'
  BY <1>1, <1>4, BalancedOnward DEF RemindersInv, RemindersTyped
<1>6. SentTaken'
  BY DEF RemindersInv, SentTaken, Outbox
<1>7. RetriesAll'
  <2>1. Retries(p)'
    BY DEF Retries, Sending
  <2> QED
    BY <2>1, RetriesOnward DEF RemindersInv
<1>8. PendingKept'
  BY PendingOnward DEF RemindersInv, Outbox, Bears
<1> QED
  BY <1>2, <1>3, <1>5, <1>6, <1>7, <1>8 DEF RemindersInv

(* A process that has come to rest.                                            *)
LEMMA IdleKnows ==
  ASSUME NEW p \in Workers, process'[p] = AtRest, batch'[p] = {}
  PROVE  Knows(p)' /\ process'[p].at \notin {"delay"} \union Sending
BY IdleProcess DEF Knows, AtRest, Reminding, Sending

-----------------------------------------------------------------------------
(* The outbox's steps.                                                         *)
LEMMA CallKeeps ==
  ASSUME RemindersInv, NEW p \in Workers, NEW k \in Keys, Call(p, k), UNCHANGED schedule
  PROVE  RemindersInv'
<1>1. RemindersTyped /\ OutboxTyped /\ Knows(p)
  BY DEF RemindersInv, RemindersTyped, KnowsAll
<1>2. /\ Alone(p) /\ process'[p].at = "insert" /\ process'[p].key = k
      /\ UNCHANGED Outbox /\ process[p] = AtRest
  BY <1>1, CallDoes
<1>3. UNCHANGED <<event, reminder, batch, logged>>
  BY DEF schedule
<1>4. batch[p] = {}
  BY <1>1, <1>2, IdleProcess DEF Knows
<1>5. Knows(p)' /\ process'[p].at \notin {"delay"} \union Sending
  BY <1>2, <1>3, <1>4 DEF Knows, Reminding, Sending
<1>6. process[p].at \notin Bearing /\ UNCHANGED stranded
  BY <1>2, IdleProcess DEF Bearing, Call, outbox
<1> QED
  BY <1>1, <1>2, <1>3, <1>5, <1>6, ScheduleStep DEF RemindersTyped

LEMMA RestKeeps ==
  ASSUME RemindersInv, NEW p \in Workers, Return(p) \/ LoseCall(p) \/ Ack(p),
         UNCHANGED schedule
  PROVE  RemindersInv'
<1>1. RemindersTyped /\ OutboxTyped /\ Knows(p)
  BY DEF RemindersInv, RemindersTyped, KnowsAll
<1>2. Alone(p) /\ process'[p] = AtRest /\ UNCHANGED Outbox
  BY <1>1, ReturnDoes
<1>3. UNCHANGED <<event, reminder, batch, logged>>
  BY DEF schedule
<1>4. batch'[p] = {}
  BY <1>1, <1>3 DEF Knows, Return, LoseCall, Ack, At, Calling
<1>5. /\ stranded \subseteq stranded'
      /\ process[p].at \notin Bearing \/ process[p].key \in stranded'
  BY DEF Return, LoseCall, Ack, Unpublished, At, Key, Calling, Bearing, outbox
<1> QED
  BY <1>1, <1>2, <1>3, <1>4, <1>5, IdleKnows, ScheduleStep DEF RemindersTyped

LEMMA InsertKeeps ==
  ASSUME RemindersInv, NEW p \in Workers, Insert(p), UNCHANGED schedule
  PROVE  RemindersInv'
<1>1. OutboxTyped /\ KnowsAll /\ Knows(p) /\ BalancedAll /\ RetriesAll /\ Retries(p) /\ PendingKept
  BY DEF RemindersInv, RemindersTyped, KnowsAll, RetriesAll
<1>2. /\ Alone(p) /\ Stays(p) /\ process[p].at = "insert" /\ process[p].key \in Keys
      /\ UNCHANGED <<mail, copies, slips>>
      /\ \/ /\ job[process[p].key] = "none" /\ job' = [job EXCEPT ![process[p].key] = "pending"]
            /\ process'[p].at = "delay"
         \/ job[process[p].key] # "none" /\ job' = job /\ process'[p].at = "enqueued"
  BY <1>1, InsertDoes
<1>3. OutboxTyped'
  BY <1>1, <1>2 DEF OutboxTyped, Alone, JobStatus
<1>4. batch'[p] = {}
  BY <1>1, <1>2 DEF Knows, schedule
<1>5. /\ \A k \in Keys : job[k] # "none" => job'[k] # "none"
      /\ job'[process[p].key] # "none"
  BY <1>1, <1>2 DEF OutboxTyped
<1>6. Knows(p)'
  BY <1>2, <1>4, <1>5 DEF Knows, Stays, Reminding
<1>7. BalancedAll'
  BY <1>1, <1>3, InsertBalances
<1>20. RetriesAll'
  <2>1. UNCHANGED stranded /\ Retries(p)'
    BY <1>2 DEF Insert, Retries
  <2> QED
    BY <1>1, <1>2, <2>1, RetriesOnward
<1>21. PendingKept'
  <2>1. UNCHANGED stranded /\ \A k \in Keys : ~Bears(p, k)
    BY <1>2 DEF Insert, Bears, Bearing
  <2>2. ASSUME NEW k \in Keys, job'[k] = "pending", job[k] # "pending" PROVE UnderWay(k)'
    <3>1. k = process[p].key /\ process'[p].at = "delay"
      BY <1>1, <1>2, <2>2 DEF OutboxTyped
    <3>2. Bears(p, k)'
      BY <1>2, <3>1 DEF Bears, Bearing, Stays
    <3> QED
      BY <3>2, BearerIsUnderWay
  <2> QED
    BY <1>1, <1>2, <2>1, <2>2, PendingOnward
<1> QED
  BY <1>2, <1>3, <1>5, <1>6, <1>7, <1>20, <1>21, OutboxStep

LEMMA DelayKeeps ==
  ASSUME RemindersInv, NEW p \in Workers, Delay(p), UNCHANGED schedule
  PROVE  RemindersInv'
<1>1. OutboxTyped /\ KnowsAll /\ Knows(p) /\ BalancedAll /\ RetriesAll /\ Retries(p) /\ PendingKept
  BY DEF RemindersInv, RemindersTyped, KnowsAll, RetriesAll
<1>2. /\ Alone(p) /\ Stays(p) /\ process[p].at = "delay" /\ process[p].key \in Keys
      /\ mail' = Published(process[p].key, 0) /\ process'[p].at = "enqueued"
      /\ UNCHANGED <<job, copies, slips>>
  BY <1>1, DelayDoes
<1>3. OutboxTyped'
  <2>1. 0 \in 0 .. MaxRetries
    BY NotificationAssumption
  <2>2. mail' \in [Keys -> [0 .. MaxRetries -> 0 .. 2]]
    BY <1>1, <1>2, <2>1, PublishedIs
  <2> QED
    BY <1>1, <1>2, <2>2 DEF OutboxTyped, Alone, JobStatus
<1>4. batch'[p] = {}
  BY <1>1, <1>2 DEF Knows, schedule
<1>5. Knows(p)'
  BY <1>1, <1>2, <1>4 DEF Knows, Stays, Reminding
<1>6. BalancedAll'
  BY <1>1, <1>3, DelayBalances
<1>20. RetriesAll'
  <2>1. UNCHANGED stranded /\ Retries(p)'
    BY <1>2 DEF Delay, Retries
  <2> QED
    BY <1>1, <1>2, <2>1, RetriesOnward
<1>21. PendingKept'
  <2>1. 0 \in 0 .. MaxRetries /\ UNCHANGED stranded
    BY NotificationAssumption DEF Delay
  <2>2. /\ \A k \in Keys : Bears(p, k) => UnderWay(k)'
        /\ \A j \in Keys, m \in 0 .. MaxRetries : mail[j][m] > 0 => mail'[j][m] > 0
    <3>1. /\ \E m \in 0 .. MaxRetries : mail'[process[p].key][m] > 0
         /\ \A j \in Keys, m \in 0 .. MaxRetries : mail[j][m] > 0 => mail'[j][m] > 0
      BY <1>1, <1>2, <2>1, PublishedHolds
    <3>2. ASSUME NEW k \in Keys, Bears(p, k) PROVE UnderWay(k)'
      BY <3>1, <3>2, MailIsUnderWay DEF Bears
    <3> QED
      BY <3>1, <3>2
  <2> QED
    BY <1>1, <1>2, <2>1, <2>2, PendingOnward
<1> QED
  BY <1>2, <1>3, <1>5, <1>6, <1>20, <1>21, OutboxStep

LEMMA TakeKeeps ==
  ASSUME RemindersInv, NEW p \in Workers, NEW k \in Keys, NEW n \in 0 .. MaxRetries,
         Take(p, k, n), UNCHANGED schedule
  PROVE  RemindersInv'
<1>1. OutboxTyped /\ KnowsAll /\ Knows(p) /\ BalancedAll /\ RetriesAll /\ Retries(p) /\ PendingKept
  BY DEF RemindersInv, RemindersTyped, KnowsAll, RetriesAll
<1>2. /\ Alone(p) /\ process[p] = AtRest /\ mail[k][n] > 0 /\ mail' = [mail EXCEPT ![k][n] = @ - 1]
      /\ process'[p].at = "check" /\ process'[p].key = k /\ process'[p].verdict = "none"
      /\ UNCHANGED <<job, copies, slips>>
  BY <1>1, TakeDoes
<1>3. OutboxTyped'
  <2>0. mail \in [Keys -> [0 .. MaxRetries -> 0 .. 2]] /\ mail[k][n] \in 0 .. 2
    BY <1>1 DEF OutboxTyped
  <2>1. mail[k][n] - 1 \in 0 .. 2
    BY <1>2, <2>0
  <2>2. mail' \in [Keys -> [0 .. MaxRetries -> 0 .. 2]]
    BY <1>2, <2>0, <2>1
  <2> QED
    BY <1>1, <1>2, <2>2 DEF OutboxTyped, Alone, JobStatus
<1>4. batch'[p] = {}
  BY <1>1, <1>2, IdleProcess DEF Knows, schedule
<1>5. Knows(p)'
  BY <1>2, <1>4 DEF Knows, Reminding
<1>6. BalancedAll'
  BY <1>1, <1>3, TakeBalances
<1>20. RetriesAll'
  <2>1. UNCHANGED stranded /\ Retries(p)'
    BY <1>2 DEF Take, Retries
  <2> QED
    BY <1>1, <1>2, <2>1, RetriesOnward
<1>21. PendingKept'
  <2>1. UNCHANGED stranded /\ \A j \in Keys : ~Bears(p, j)
    BY <1>2, IdleProcess DEF Take, Bears, Bearing
  <2>2. UnderWay(k)'
    <3>1. Bears(p, k)'
      BY <1>2 DEF Bears, Bearing
    <3> QED
      BY <3>1, BearerIsUnderWay
  <2>3. \A j \in Keys : j # k => mail'[j] = mail[j]
    BY <1>2
  <2> QED
    BY <1>1, <1>2, <2>1, <2>2, <2>3, PendingOnward
<1> QED
  BY <1>2, <1>3, <1>5, <1>6, <1>20, <1>21, OutboxStep

LEMMA CheckKeeps ==
  ASSUME RemindersInv, NEW p \in Workers, NEW configured \in BOOLEAN, Check(p, configured),
         UNCHANGED schedule
  PROVE  RemindersInv'
<1>1. OutboxTyped /\ KnowsAll /\ Knows(p) /\ BalancedAll /\ RetriesAll /\ Retries(p) /\ PendingKept
  BY DEF RemindersInv, RemindersTyped, KnowsAll, RetriesAll
<1>2. /\ Alone(p) /\ Stays(p) /\ process[p].at = "check" /\ process[p].key \in Keys /\ process[p].verdict = "none"
      /\ UNCHANGED Outbox
      /\ \/ process'[p].at = "ack" /\ process'[p].verdict = "none"
         \/ process'[p].at = "send" /\ job[process[p].key] \notin Final
         \/ process'[p].at = "mark" /\ process'[p].verdict = "failed"
  BY <1>1, CheckDoes
<1>3. OutboxTyped'
  BY <1>1, <1>2 DEF OutboxTyped, Outbox, Alone, JobStatus
<1>4. batch'[p] = {}
  BY <1>1, <1>2 DEF Knows, schedule
<1>5. Knows(p)'
  BY <1>2, <1>4 DEF Knows, Stays, Reminding
<1>6. Took(p)'
  <2>1. process'[p].verdict = "sent" => process'[p].at = "send"
    BY <1>2
  <2> QED
    BY <2>1 DEF Took
<1>7. ASSUME NEW k \in Keys PROVE (Carries(p, k)' => Carries(p, k)) /\ (Closed(k) => ~Opens(p, k)')
  <2>1. Carries(p, k)' => Carries(p, k)
    BY <1>2 DEF Carries, Spent, Stays, Sending
  <2>2. Opens(p, k)' => process[p].key = k /\ job[k] \notin Final
    BY <1>2 DEF Opens, Stays
  <2> QED
    BY <2>1, <2>2 DEF Closed
<1>8. BalancedAll'
  BY <1>1, <1>2, <1>3, <1>6, <1>7, BalancedOnward
<1>20. RetriesAll'
  <2>1. UNCHANGED stranded /\ Retries(p)'
    BY <1>2 DEF Check, Retries, outbox
  <2> QED
    BY <1>1, <1>2, <2>1, RetriesOnward
<1>21. PendingKept'
  <2>1. UNCHANGED <<job, mail, stranded>>
    BY DEF Check, outbox
  <2>2. ASSUME NEW k \in Keys, Bears(p, k) PROVE UnderWay(k)' \/ job'[k] # "pending"
    <3>1. CASE process'[p].at \in {"send", "mark"}
      <4>1. Bears(p, k)'
        BY <1>2, <2>2, <3>1 DEF Bears, Bearing, Stays
      <4> QED
        BY <4>1, BearerIsUnderWay
    <3>2. CASE process'[p].at = "ack"
      <4>1. ~ToSend(k)
        <5>1. ASSUME ToSend(process[p].key) PROVE FALSE
          <6>1. Goes(p, "send") \/ Decides(p, "mark", "failed")
            BY <5>1 DEF Check, Key
          <6>2. process'[p].at \in {"send", "mark"}
            <7>1. process \in [Workers -> ProcessOf] /\ process[p] \in ProcessOf
              BY <1>1 DEF OutboxTyped
            <7> QED
              BY <6>1, <7>1 DEF Goes, Decides, ProcessOf
          <6> QED
            BY <3>2, <6>2
        <5> QED
          BY <2>2, <5>1 DEF Bears
      <4> QED
        BY <2>1, <4>1 DEF ToSend, Final
    <3> QED
      BY <1>2, <3>1, <3>2
  <2> QED
    BY <1>1, <1>2, <2>1, <2>2, PendingOnward
<1> QED
  BY <1>2, <1>3, <1>5, <1>8, <1>20, <1>21, OutboxStep DEF Outbox

LEMMA SendKeeps ==
  ASSUME RemindersInv, NEW p \in Workers,
         NEW answer \in {"accepted", "refused", "unreached", "lost"}, Send(p, answer), UNCHANGED schedule
  PROVE  RemindersInv'
<1>1. OutboxTyped /\ KnowsAll /\ Knows(p) /\ BalancedAll /\ RetriesAll /\ Retries(p) /\ PendingKept
  BY DEF RemindersInv, RemindersTyped, KnowsAll, RetriesAll
<1>2. /\ Alone(p) /\ Stays(p) /\ process[p].at = "send" /\ process[p].key \in Keys
      /\ process'[p].at = "mark" /\ UNCHANGED <<job, mail>>
      /\ process'[p].verdict \in {"sent", "failed", "pending"}
      /\ copies' = (IF answer \in {"accepted", "lost"}
                    THEN [copies EXCEPT ![process[p].key] = @ + 1] ELSE copies)
      /\ slips' = (IF answer = "lost" THEN [slips EXCEPT ![process[p].key] = @ + 1] ELSE slips)
  BY <1>1, SendDoesOne
<1>3. OutboxTyped'
  <2>1. copies \in [Keys -> Nat] /\ slips \in [Keys -> Nat]
    BY <1>1 DEF OutboxTyped
  <2>2. copies' \in [Keys -> Nat] /\ slips' \in [Keys -> Nat]
    BY <1>2, <2>1
  <2> QED
    BY <1>1, <1>2, <2>2 DEF OutboxTyped, Alone, JobStatus
<1>4. batch'[p] = {}
  BY <1>1, <1>2 DEF Knows, schedule
<1>5. Knows(p)'
  BY <1>2, <1>4 DEF Knows, Stays, Reminding
<1>6. BalancedAll'
  BY <1>1, <1>3, SendBalances
<1>20. RetriesAll'
  <2>1. process'[p].verdict = "pending" => process[p].tries < MaxRetries
    <3>1. process \in [Workers -> ProcessOf] /\ process[p] \in ProcessOf
      BY <1>1 DEF OutboxTyped
    <3> DEFINE v == CASE answer = "accepted" -> "sent"
                      [] answer = "refused" -> "failed"
                      [] OTHER -> TransientVerdict(process[p].tries)
    <3>2. process'[p].verdict = v
      BY <3>1 DEF Send, Decides, ProcessOf
    <3>3. v = "pending" => process[p].tries < MaxRetries
      BY DEF TransientVerdict
    <3> QED
      BY <3>2, <3>3
  <2>2. UNCHANGED stranded /\ Retries(p)'
    BY <1>2, <2>1 DEF Send, Retries, Stays
  <2> QED
    BY <1>1, <1>2, <2>2, RetriesOnward
<1>21. PendingKept'
  <2>1. UNCHANGED stranded
    BY DEF Send
  <2>2. ASSUME NEW k \in Keys, Bears(p, k) PROVE UnderWay(k)'
    <3>1. Bears(p, k)'
      BY <1>2, <2>2 DEF Bears, Bearing, Stays
    <3> QED
      BY <3>1, BearerIsUnderWay
  <2> QED
    BY <1>1, <1>2, <2>1, <2>2, PendingOnward
<1> QED
  BY <1>2, <1>3, <1>5, <1>6, <1>20, <1>21, OutboxStep

LEMMA MarkKeeps ==
  ASSUME RemindersInv, NEW p \in Workers, Mark(p), UNCHANGED schedule
  PROVE  RemindersInv'
<1>1. OutboxTyped /\ KnowsAll /\ Knows(p) /\ BalancedAll /\ RetriesAll /\ Retries(p) /\ PendingKept
  BY DEF RemindersInv, RemindersTyped, KnowsAll, RetriesAll
<1>2. /\ Alone(p) /\ Stays(p) /\ process[p].at = "mark" /\ process[p].key \in Keys
      /\ process[p].verdict \in {"sent", "failed", "pending"}
      /\ process'[p].at = (IF process[p].verdict = "pending" THEN "raise" ELSE "ack")
      /\ UNCHANGED <<mail, copies, slips>>
      /\ job' = (IF process[p].verdict = "sent" /\ job[process[p].key] # "pending" THEN job
                 ELSE [job EXCEPT ![process[p].key] = process[p].verdict])
  BY <1>1, MarkDoes
<1>3. OutboxTyped'
  <2>1. process[p].verdict \in JobStatus /\ job \in [Keys -> JobStatus]
    BY <1>1, <1>2 DEF OutboxTyped, JobStatus
  <2>2. job' \in [Keys -> JobStatus]
    BY <1>2, <2>1
  <2> QED
    BY <1>1, <1>2, <2>2 DEF OutboxTyped, Alone, JobStatus
<1>4. batch'[p] = {}
  BY <1>1, <1>2 DEF Knows, schedule
<1>5. \A k \in Keys : job[k] # "none" => job'[k] # "none"
  BY <1>1, <1>2 DEF OutboxTyped
<1>6. Knows(p)'
  BY <1>2, <1>4 DEF Knows, Stays, Reminding
<1>7. BalancedAll'
  BY <1>1, <1>3, MarkBalances
<1>20. RetriesAll'
  <2>1. UNCHANGED stranded /\ Retries(p)'
    <3>1. process[p].verdict = "pending" => process[p].tries < MaxRetries
      BY <1>1, <1>2 DEF Retries
    <3>2. process[p].tries \in 0 .. MaxRetries /\ MaxRetries \in Nat
      BY <1>1, NotificationAssumption DEF OutboxTyped, ProcessOf
    <3> QED
      BY <1>2, <3>1, <3>2 DEF Mark, Retries, Stays
  <2> QED
    BY <1>1, <1>2, <2>1, RetriesOnward
<1>21. PendingKept'
  <2>1. UNCHANGED stranded
    BY DEF Mark
  <2>2. job \in [Keys -> JobStatus] /\ \A k \in Keys : k # process[p].key => job'[k] = job[k]
    BY <1>1, <1>2 DEF OutboxTyped
  <2>3. ASSUME NEW k \in Keys, k = process[p].key PROVE UnderWay(k)' \/ job'[k] # "pending"
    <3>1. CASE process[p].verdict = "pending"
      <4>1. Bears(p, k)'
        BY <1>2, <2>3, <3>1 DEF Bears, Bearing, Stays
      <4> QED
        BY <4>1, BearerIsUnderWay
    <3>2. CASE process[p].verdict # "pending"
      BY <1>2, <2>2, <2>3, <3>2
    <3> QED
      BY <3>1, <3>2
  <2>4. \A k \in Keys : Bears(p, k) => UnderWay(k)' \/ job'[k] # "pending"
    BY <2>3 DEF Bears
  <2>5. \A k \in Keys : job'[k] = "pending" => job[k] = "pending" \/ UnderWay(k)'
    BY <2>2, <2>3
  <2> QED
    BY <1>1, <1>2, <2>1, <2>4, <2>5, PendingOnward
<1> QED
  BY <1>2, <1>3, <1>5, <1>6, <1>7, <1>20, <1>21, OutboxStep

LEMMA RaiseKeeps ==
  ASSUME RemindersInv, NEW p \in Workers, Raise(p), UNCHANGED schedule
  PROVE  RemindersInv'
<1>1. OutboxTyped /\ KnowsAll /\ Knows(p) /\ BalancedAll /\ RetriesAll /\ Retries(p) /\ PendingKept
  BY DEF RemindersInv, RemindersTyped, KnowsAll, RetriesAll
<1>2. /\ Alone(p) /\ Stays(p) /\ process[p].at = "raise" /\ process[p].key \in Keys
      /\ process'[p].at = "ack" /\ process'[p].verdict = "pending"
      /\ UNCHANGED <<job, copies, slips>>
      /\ mail' = mail \/ \E n \in 0 .. MaxRetries : mail' = Published(process[p].key, n)
  BY <1>1, RaiseDoes
<1>3. OutboxTyped'
  <2>1. mail' \in [Keys -> [0 .. MaxRetries -> 0 .. 2]]
    BY <1>1, <1>2, PublishedIs DEF OutboxTyped
  <2> QED
    BY <1>1, <1>2, <2>1 DEF OutboxTyped, Alone, JobStatus
<1>4. batch'[p] = {}
  BY <1>1, <1>2 DEF Knows, schedule
<1>5. Knows(p)'
  BY <1>2, <1>4 DEF Knows, Stays, Reminding
<1>6. BalancedAll'
  BY <1>1, <1>3, RaiseBalances
<1>20. RetriesAll'
  <2>1. UNCHANGED stranded /\ Retries(p)'
    BY <1>2 DEF Raise, Retries
  <2> QED
    BY <1>1, <1>2, <2>1, RetriesOnward
<1>21. PendingKept'
  <2> DEFINE n == process[p].tries
  <2>1. n \in 0 .. MaxRetries /\ MaxRetries \in Nat /\ UNCHANGED stranded
    BY <1>1, NotificationAssumption DEF OutboxTyped, ProcessOf, Raise
  <2>2. mail' = IF n < MaxRetries THEN Published(process[p].key, n + 1) ELSE mail
    BY DEF Raise, Key
  <2>3. CASE n < MaxRetries
    <3>1. n + 1 \in 0 .. MaxRetries /\ mail' = Published(process[p].key, n + 1)
      BY <2>1, <2>2, <2>3
    <3>2. /\ \A k \in Keys : Bears(p, k) => UnderWay(k)'
          /\ \A j \in Keys, m \in 0 .. MaxRetries : mail[j][m] > 0 => mail'[j][m] > 0
      <4>1. /\ \E m \in 0 .. MaxRetries : mail'[process[p].key][m] > 0
           /\ \A j \in Keys, m \in 0 .. MaxRetries : mail[j][m] > 0 => mail'[j][m] > 0
        BY <1>1, <1>2, <3>1, PublishedHolds
      <4>2. ASSUME NEW k \in Keys, Bears(p, k) PROVE UnderWay(k)'
        BY <4>1, <4>2, MailIsUnderWay DEF Bears
      <4> QED
        BY <4>1, <4>2
    <3> QED
      BY <1>1, <1>2, <2>1, <3>2, PendingOnward
  <2>4. CASE ~(n < MaxRetries)
    <3>1. process[p].key \in stranded /\ mail' = mail
      BY <1>1, <1>2, <2>1, <2>2, <2>4 DEF Retries
    <3> QED
      BY <1>1, <1>2, <2>1, <3>1, PendingOnward DEF Bears
  <2> QED
    BY <2>3, <2>4
<1> QED
  BY <1>2, <1>3, <1>5, <1>6, <1>20, <1>21, OutboxStep

LEMMA BreakKeeps ==
  ASSUME RemindersInv, NEW p \in Workers, Break(p), UNCHANGED schedule
  PROVE  RemindersInv'
<1>1. OutboxTyped /\ KnowsAll /\ Knows(p) /\ BalancedAll /\ RetriesAll /\ Retries(p) /\ PendingKept
  BY DEF RemindersInv, RemindersTyped, KnowsAll, RetriesAll
<1>2. /\ Alone(p) /\ Stays(p) /\ process[p].at \in {"check", "mark"} /\ process[p].key \in Keys
      /\ process'[p].at = "raise" /\ UNCHANGED <<job, mail, copies>>
      /\ slips' = (IF process[p].verdict = "sent" THEN [slips EXCEPT ![process[p].key] = @ + 1] ELSE slips)
  BY <1>1, BreakDoes
<1>3. OutboxTyped'
  <2>1. slips \in [Keys -> Nat]
    BY <1>1 DEF OutboxTyped
  <2>2. slips' \in [Keys -> Nat]
    BY <1>2, <2>1
  <2> QED
    BY <1>1, <1>2, <2>2 DEF OutboxTyped, Alone, JobStatus
<1>4. batch'[p] = {}
  BY <1>1, <1>2 DEF Knows, schedule
<1>5. Knows(p)'
  BY <1>2, <1>4 DEF Knows, Stays, Reminding
<1>6. BalancedAll'
  BY <1>1, <1>3, BreakBalances
<1>20. RetriesAll'
  <2>1. process[p].tries \in 0 .. MaxRetries /\ MaxRetries \in Nat
    BY <1>1, NotificationAssumption DEF OutboxTyped, ProcessOf
  <2>2. stranded' = IF process[p].tries = MaxRetries THEN stranded \union {process[p].key} ELSE stranded
    BY DEF Break, Key
  <2>3. stranded \subseteq stranded' /\ Retries(p)'
    BY <1>2, <2>1, <2>2 DEF Retries, Stays
  <2> QED
    BY <1>1, <1>2, <2>3, RetriesOnward
<1>21. PendingKept'
  <2>1. stranded \subseteq stranded'
    BY DEF Break
  <2>2. ASSUME NEW k \in Keys, Bears(p, k) PROVE UnderWay(k)'
    <3>1. Bears(p, k)'
      BY <1>2, <2>2 DEF Bears, Bearing, Stays
    <3> QED
      BY <3>1, BearerIsUnderWay
  <2> QED
    BY <1>1, <1>2, <2>1, <2>2, PendingOnward
<1> QED
  BY <1>2, <1>3, <1>5, <1>6, <1>20, <1>21, OutboxStep

LEMMA LoseSenderKeeps ==
  ASSUME RemindersInv, NEW p \in Workers, LoseSender(p), UNCHANGED schedule
  PROVE  RemindersInv'
<1>1. OutboxTyped /\ KnowsAll /\ Knows(p) /\ BalancedAll /\ RetriesAll /\ Retries(p) /\ PendingKept
  BY DEF RemindersInv, RemindersTyped, KnowsAll, RetriesAll
<1>2. /\ Alone(p) /\ process'[p] = AtRest /\ process[p].at \in Sending /\ process[p].key \in Keys
      /\ UNCHANGED <<job, copies>>
      /\ process[p].tries \in 0 .. MaxRetries /\ mail' = Published(process[p].key, process[p].tries)
      /\ slips' = (IF \/ process[p].at \in {"mark", "raise"} /\ process[p].verdict = "sent"
                      \/ process[p].at = "ack" /\ (process[p].verdict = "pending" \/ slips[process[p].key] > 0)
                   THEN [slips EXCEPT ![process[p].key] = @ + 1] ELSE slips)
  BY <1>1, LoseSenderDoes
<1>3. OutboxTyped'
  <2>1. slips \in [Keys -> Nat] /\ mail' \in [Keys -> [0 .. MaxRetries -> 0 .. 2]]
    BY <1>1, <1>2, PublishedIs DEF OutboxTyped
  <2>2. slips' \in [Keys -> Nat]
    BY <1>2, <2>1
  <2> QED
    BY <1>1, <1>2, <2>1, <2>2 DEF OutboxTyped, Alone, JobStatus
<1>4. batch'[p] = {}
  BY <1>1, <1>2 DEF Knows, schedule, Sending
<1>5. BalancedAll'
  BY <1>1, <1>3, LoseSenderBalances
<1>20. RetriesAll'
  <2>1. UNCHANGED stranded /\ Retries(p)'
    BY <1>2, IdleProcess DEF LoseSender, Retries
  <2> QED
    BY <1>1, <1>2, <2>1, RetriesOnward
<1>21. PendingKept'
  <2>1. UNCHANGED stranded
    BY DEF LoseSender
  <2>2. /\ \A k \in Keys : Bears(p, k) => UnderWay(k)'
        /\ \A j \in Keys, m \in 0 .. MaxRetries : mail[j][m] > 0 => mail'[j][m] > 0
    <3>1. /\ \E m \in 0 .. MaxRetries : mail'[process[p].key][m] > 0
         /\ \A j \in Keys, m \in 0 .. MaxRetries : mail[j][m] > 0 => mail'[j][m] > 0
      BY <1>1, <1>2, PublishedHolds
    <3>2. ASSUME NEW k \in Keys, Bears(p, k) PROVE UnderWay(k)'
      BY <3>1, <3>2, MailIsUnderWay DEF Bears
    <3> QED
      BY <3>1, <3>2
  <2> QED
    BY <1>1, <1>2, <2>1, <2>2, PendingOnward
<1> QED
  BY <1>2, <1>3, <1>4, <1>5, IdleKnows, <1>20, <1>21, OutboxStep

-----------------------------------------------------------------------------
(* The reminders' steps.                                                       *)
LEMMA ClaimKeeps ==
  ASSUME RemindersInv, NEW p \in Workers, NEW rows \in SUBSET Offsets, ClaimDueReminders(p, rows)
  PROVE  RemindersInv'
<1>1. RemindersTyped /\ OutboxTyped
  BY DEF RemindersInv, RemindersTyped
<1>2. /\ process[p] = AtRest /\ Goes(p, "dispatch") /\ UNCHANGED <<Outbox, stranded, logged>> /\ event' = event
      /\ reminder' = [r \in Offsets |-> IF r \in rows THEN "queued" ELSE reminder[r]]
      /\ batch' = [batch EXCEPT ![p] = rows]
  BY DEF ClaimDueReminders, outbox, Outbox
<1>3. /\ Alone(p) /\ process'[p].at = "dispatch" /\ process'[p].verdict = "none"
  BY <1>1, <1>2, GoesMoves, IdleProcess, StepPlacesOf
<1>4. /\ reminder' \in [Offsets -> ReminderStatus] /\ batch' \in [Workers -> SUBSET Offsets]
      /\ \A q \in Workers : q # p => batch'[q] = batch[q]
      /\ \A r \in Offsets : reminder'[r] = "sent" => reminder[r] = "sent"
  BY <1>1, <1>2 DEF RemindersTyped, ReminderStatus
<1>5. Knows(p)' /\ process'[p].at \notin {"delay"} \union Sending
  BY <1>3 DEF Knows, Reminding, Sending
<1>6. process[p].at \notin Bearing
  BY <1>2, IdleProcess DEF Bearing
<1> QED
  BY <1>1, <1>2, <1>3, <1>4, <1>5, <1>6, ScheduleStep DEF RemindersTyped

LEMMA DelayReminderKeeps ==
  ASSUME RemindersInv, NEW p \in Workers, NEW r \in Offsets, DelayReminder(p, r)
  PROVE  RemindersInv'
<1>1. RemindersTyped /\ OutboxTyped /\ Knows(p)
  BY DEF RemindersInv, RemindersTyped, KnowsAll
<1>2. /\ r \in batch[p] /\ UNCHANGED <<Outbox, stranded, logged>>
      /\ event' = event /\ reminder' = reminder
      /\ batch' = [batch EXCEPT ![p] = batch[p] \ {r}]
      /\ IF batch[p] = {r} THEN Rests(p) ELSE UNCHANGED process
  BY DEF DelayReminder, outbox, Outbox
<1>3. process[p].at = "dispatch" /\ process[p].verdict = "none"
  BY <1>1, <1>2 DEF Knows
<1>4. /\ batch' \in [Workers -> SUBSET Offsets] /\ batch'[p] = batch[p] \ {r}
      /\ \A q \in Workers : q # p => batch'[q] = batch[q]
  BY <1>1, <1>2 DEF RemindersTyped
<1>5. Alone(p) /\ Knows(p)' /\ process'[p].at \notin {"delay"} \union Sending
  <2>1. CASE batch[p] = {r}
    <3>1. Alone(p) /\ process'[p] = AtRest
      BY <1>1, <1>2, <2>1, RestsMoves
    <3>2. batch'[p] = {}
      BY <1>4, <2>1
    <3> QED
      BY <3>1, <3>2, IdleKnows
  <2>2. CASE batch[p] # {r}
    <3>1. UNCHANGED process
      BY <1>2, <2>2
    <3>2. Alone(p)
      BY <1>1, <3>1 DEF Alone, OutboxTyped
    <3> QED
      BY <1>3, <3>1, <3>2 DEF Knows, Reminding, Sending
  <2> QED
    BY <2>1, <2>2
<1>6. process[p].at \notin Bearing
  BY <1>3 DEF Bearing
<1> QED
  BY <1>1, <1>2, <1>4, <1>5, <1>6, ScheduleStep DEF RemindersTyped

(* A process that gives up what it was at.                                     *)
LEMMA GivesUpKeeps ==
  ASSUME RemindersInv, NEW p \in Workers, Rests(p), UNCHANGED <<Outbox, event, reminder, logged>>,
         stranded \subseteq stranded',
         process[p].at \notin Bearing \/ process[p].key \in stranded',
         \/ batch' = batch /\ process[p].at # "dispatch"
         \/ batch' = [batch EXCEPT ![p] = {}]
  PROVE  RemindersInv'
<1>1. RemindersTyped /\ OutboxTyped /\ Knows(p)
  BY DEF RemindersInv, RemindersTyped, KnowsAll
<1>2. Alone(p) /\ process'[p] = AtRest
  BY <1>1, RestsMoves
<1>3. /\ batch' \in [Workers -> SUBSET Offsets] /\ batch'[p] = {}
      /\ \A q \in Workers : q # p => batch'[q] = batch[q]
  BY <1>1 DEF RemindersTyped, Knows
<1>4. Knows(p)' /\ process'[p].at \notin {"delay"} \union Sending
  BY <1>2, <1>3, IdleKnows
<1> QED
  BY <1>1, <1>2, <1>3, <1>4, ScheduleStep DEF RemindersTyped

LEMMA LosesKeep ==
  ASSUME RemindersInv, NEW p \in Workers,
         LoseDispatcher(p) \/ BreakReminder(p) \/ LoseReminder(p)
  PROVE  RemindersInv'
<1>1. CASE LoseDispatcher(p)
  BY <1>1, GivesUpKeeps DEF LoseDispatcher, outbox, Outbox, At, Bearing
<1>2. CASE BreakReminder(p) \/ LoseReminder(p)
  BY <1>2, GivesUpKeeps
  DEF BreakReminder, LoseReminder, Unpublished, At, Key, Reminding, Calling, Bearing, Outbox
<1> QED
  BY <1>1, <1>2

LEMMA TakeReminderKeeps ==
  ASSUME RemindersInv, NEW p \in Workers, NEW r \in Offsets, TakeReminder(p, r)
  PROVE  RemindersInv'
<1>1. RemindersTyped /\ OutboxTyped /\ Knows(p)
  BY DEF RemindersInv, RemindersTyped, KnowsAll
<1>2. /\ process[p] = AtRest /\ UNCHANGED Outbox /\ UNCHANGED <<event, reminder, batch, logged, stranded>>
      /\ process' = [process EXCEPT ![p] = [AtRest EXCEPT !.at = "reread", !.key = r]]
  BY DEF TakeReminder, outbox, Outbox
<1>3. Alone(p) /\ process'[p].at = "reread" /\ process'[p].key = r
  <2>1. r \in Keys
    BY ReminderAssumption
  <2> DEFINE q == [AtRest EXCEPT !.at = "reread", !.key = r]
  <2>2. q \in ProcessOf /\ q.at = "reread" /\ q.key = r
    BY <2>1, IdleProcess, StepPlacesOf DEF ProcessOf
  <2>3. process \in [Workers -> ProcessOf] /\ process' = [process EXCEPT ![p] = q]
    BY <1>1, <1>2 DEF OutboxTyped
  <2> HIDE DEF q
  <2> QED
    BY <2>2, <2>3 DEF Alone
<1>4. batch'[p] = {} /\ r \in Keys
  BY <1>1, <1>2, IdleProcess, ReminderAssumption DEF Knows
<1>5. Knows(p)' /\ process'[p].at \notin {"delay"} \union Sending
  BY <1>3, <1>4 DEF Knows, Reminding, Sending
<1>6. process[p].at \notin Bearing
  BY <1>2, IdleProcess DEF Bearing
<1> QED
  BY <1>1, <1>2, <1>3, <1>5, <1>6, ScheduleStep DEF RemindersTyped

LEMMA ReadReminderKeeps ==
  ASSUME RemindersInv, NEW p \in Workers, ReadReminder(p)
  PROVE  RemindersInv'
<1>1. RemindersTyped /\ OutboxTyped /\ Knows(p)
  BY DEF RemindersInv, RemindersTyped, KnowsAll
<1>2. /\ process[p].at = "reread" /\ UNCHANGED Outbox /\ UNCHANGED <<event, reminder, batch, logged, stranded>>
      /\ Goes(p, "event") \/ Rests(p)
  BY DEF ReadReminder, At, outbox, schedule, Outbox
<1>3. process[p].key \in Offsets /\ process[p].key \in Keys /\ batch[p] = {}
  BY <1>1, <1>2 DEF Knows, Reminding
<1>4. CASE Goes(p, "event")
  <2>1. Alone(p) /\ Stays(p) /\ process'[p].at = "event"
    BY <1>1, <1>4, GoesMoves, StepPlacesOf
  <2>2. Knows(p)' /\ process'[p].at \notin {"delay"} \union Sending
    BY <1>2, <1>3, <2>1 DEF Knows, Stays, Reminding, Sending
  <2> QED
    BY <1>1, <1>2, <2>1, <2>2, ScheduleStep DEF RemindersTyped, Bearing
<1>5. CASE Rests(p)
  BY <1>2, <1>5, GivesUpKeeps DEF Bearing
<1> QED
  BY <1>2, <1>4, <1>5

(* The booking and the sink: a verdict, the outbox, or a task that fails.      *)
LEMMA DecidesKeeps ==
  ASSUME RemindersInv, NEW p \in Workers, NEW v \in {"skipped", "failed", "sent"},
         process[p].at = "event", Decides(p, "verdict", v),
         UNCHANGED <<Outbox, stranded, event, reminder, batch>>, logged \subseteq logged',
         v = "sent" => process[p].key \in logged'
  PROVE  RemindersInv'
<1>1. RemindersTyped /\ OutboxTyped /\ Knows(p)
  BY DEF RemindersInv, RemindersTyped, KnowsAll
<1>2. process[p].key \in Offsets /\ process[p].key \in Keys /\ batch[p] = {}
  BY <1>1 DEF Knows, Reminding
<1>3. /\ Alone(p) /\ Stays(p) /\ process'[p].at = "verdict" /\ process'[p].verdict = v
  <2>1. v \in Verdicts /\ "verdict" \in Places
    BY StepPlacesOf DEF Verdicts
  <2> QED
    BY <1>1, <2>1, DecidesMoves
<1>4. Knows(p)' /\ process'[p].at \notin {"delay"} \union Sending
  BY <1>2, <1>3 DEF Knows, Stays, Reminding, Sending
<1> QED
  BY <1>1, <1>3, <1>4, ScheduleStep DEF RemindersTyped, Bearing

LEMMA DispatchReminderKeeps ==
  ASSUME RemindersInv, NEW p \in Workers, DispatchReminder(p)
  PROVE  RemindersInv'
<1>1. RemindersTyped /\ OutboxTyped /\ Knows(p)
  BY DEF RemindersInv, RemindersTyped, KnowsAll
<1>2. CASE SkipsReminder(p)
  BY <1>2, DecidesKeeps DEF SkipsReminder, At, outbox, schedule, Outbox
<1>3. CASE LogsReminder(p)
  BY <1>3, DecidesKeeps DEF LogsReminder, At, Key, outbox, Outbox
<1>4. ASSUME NEW answer \in {"ready", "nobody", "invalid"}, MailsReminder(p, answer)
      PROVE  RemindersInv'
  <2>1. /\ process[p].at = "event" /\ UNCHANGED <<Outbox, stranded, event, reminder, batch, logged>>
    BY <1>4 DEF MailsReminder, At, outbox, schedule, Outbox
  <2>2. CASE answer = "ready"
    <3>1. Alone(p) /\ Stays(p) /\ process'[p].at = "insert"
      BY <1>1, <1>4, <2>2, GoesMoves, StepPlacesOf DEF MailsReminder
    <3>2. process[p].key \in Offsets /\ process[p].key \in Keys /\ batch[p] = {}
      BY <1>1, <2>1 DEF Knows, Reminding
    <3>3. Knows(p)' /\ process'[p].at \notin {"delay"} \union Sending
      BY <2>1, <3>1, <3>2 DEF Knows, Stays, Reminding, Sending
    <3> QED
      BY <1>1, <2>1, <3>1, <3>3, ScheduleStep DEF RemindersTyped, Bearing
  <2>3. CASE answer # "ready"
    <3>1. PICK v \in {"skipped", "failed"} : Decides(p, "verdict", v)
      BY <1>4, <2>3 DEF MailsReminder, Undelivered
    <3> QED
      BY <2>1, <3>1, DecidesKeeps
  <2> QED
    BY <2>2, <2>3
<1>5. CASE FindsNoSink(p)
  BY <1>5, GivesUpKeeps DEF FindsNoSink, At, Bearing, outbox, Outbox
<1> QED
  BY <1>2, <1>3, <1>4, <1>5 DEF DispatchReminder

LEMMA MarkReminderKeeps ==
  ASSUME RemindersInv, NEW p \in Workers, MarkReminder(p)
  PROVE  RemindersInv'
<1>1. RemindersTyped /\ OutboxTyped /\ Knows(p)
  BY DEF RemindersInv, RemindersTyped, KnowsAll
<1> DEFINE v == IF process[p].at = "enqueued" THEN "sent" ELSE process[p].verdict
<1>2. /\ process[p].at \in {"verdict", "enqueued"} /\ process[p].key \in Offsets
      /\ UNCHANGED <<Outbox, stranded, logged, event, batch>> /\ Rests(p)
      /\ reminder' = [reminder EXCEPT ![process[p].key] = v]
  BY DEF MarkReminder, At, Key, outbox, Outbox
<1>3. v \in {"skipped", "failed", "sent"} /\ (v = "sent" => process[p].key \in logged \/ job[process[p].key] # "none")
  BY <1>1, <1>2 DEF Knows
<1> HIDE DEF v
<1>4. /\ reminder' \in [Offsets -> ReminderStatus]
      /\ \A r \in Offsets : reminder'[r] = "sent" => reminder[r] = "sent" \/ r \in logged \/ job[r] # "none"
  BY <1>1, <1>2, <1>3 DEF RemindersTyped, ReminderStatus
<1>5. Alone(p) /\ process'[p] = AtRest
  BY <1>1, <1>2, RestsMoves
<1>6. batch'[p] = {}
  BY <1>1, <1>2 DEF Knows
<1>7. Knows(p)' /\ process'[p].at \notin {"delay"} \union Sending
  BY <1>5, <1>6, IdleKnows
<1> QED
  BY <1>1, <1>2, <1>4, <1>5, <1>7, ScheduleStep DEF RemindersTyped, Bearing

(* A reschedule, and a step that changes nothing the invariant speaks of.      *)
LEMMA ApartKeeps ==
  ASSUME RemindersInv, CancelEvent \/ SkipPendingReminders \/ UNCHANGED reminderVars
  PROVE  RemindersInv'
<1>1. /\ UNCHANGED <<job, mail, copies, slips, stranded, process, batch, logged>>
      /\ event' \in {"booked", "cancelled"}
      /\ reminder' \in [Offsets -> ReminderStatus]
      /\ \A r \in Offsets : reminder'[r] = "sent" => reminder[r] = "sent"
  <2>1. RemindersTyped
    BY DEF RemindersInv
  <2>2. CASE CancelEvent
    BY <2>1, <2>2 DEF CancelEvent, outbox, RemindersTyped
  <2>3. CASE SkipPendingReminders
    BY <2>1, <2>3 DEF SkipPendingReminders, outbox, RemindersTyped, ReminderStatus
  <2>4. CASE UNCHANGED reminderVars
    BY <2>1, <2>4 DEF reminderVars, outbox, schedule, RemindersTyped
  <2> QED
    BY <2>2, <2>3, <2>4
<1>2. RemindersTyped'
  BY <1>1 DEF RemindersInv, RemindersTyped, OutboxTyped, JobStatus, ReminderStatus
<1>3. KnowsAll'
  BY <1>1 DEF RemindersInv, KnowsAll, Knows, AtRest, Reminding
<1>4. BalancedAll'
  BY <1>1 DEF RemindersInv, BalancedAll, Balanced, Took, Closed, Opens, ToCome, Carriers, Carries, Spent, Letters,
              Sending, Final
<1>5. SentTaken'
  BY <1>1 DEF RemindersInv, SentTaken
<1>6. RetriesAll'
  BY <1>1 DEF RemindersInv, RetriesAll, Retries
<1>7. PendingKept'
  BY <1>1 DEF RemindersInv, PendingKept, UnderWay, Key, At
<1> QED
  BY <1>2, <1>3, <1>4, <1>5, <1>6, <1>7 DEF RemindersInv

-----------------------------------------------------------------------------
LEMMA RemindersStart ==
  ASSUME ReminderInit
  PROVE  RemindersInv
<1>1. /\ job = [k \in Keys |-> "none"] /\ mail = [k \in Keys |-> [n \in 0 .. MaxRetries |-> 0]]
      /\ copies = [k \in Keys |-> 0] /\ slips = [k \in Keys |-> 0]
      /\ process = [p \in Workers |-> AtRest] /\ event = "booked"
      /\ reminder \in [Offsets -> {"pending", "skipped"}] /\ batch = [p \in Workers |-> {}]
  BY DEF ReminderInit, OutboxInit
<1>2. AtRest \in ProcessOf /\ AtRest.at = "idle" /\ AtRest.key = NoKey /\ AtRest.verdict = "none"
  BY IdleProcess
<1>3. RemindersTyped
  <2>1. mail \in [Keys -> [0 .. MaxRetries -> 0 .. 2]]
    BY <1>1
  <2>2. process \in [Workers -> ProcessOf]
    BY <1>1, <1>2
  <2>3. OutboxTyped
    BY <1>1, <2>1, <2>2 DEF OutboxTyped, JobStatus
  <2> QED
    BY <1>1, <2>3 DEF RemindersTyped, ReminderStatus
<1>4. \A p \in Workers : process[p] = AtRest /\ process[p].at = "idle" /\ process[p].verdict = "none" /\ batch[p] = {}
  BY <1>1, <1>2
<1>5. KnowsAll
  BY <1>4 DEF KnowsAll, Knows, Reminding
<1>6. ASSUME NEW k \in Keys PROVE Balanced(k)
  <2>1. Carriers(k) = {}
    BY <1>4 DEF Carriers, Carries, Sending
  <2>2. Letters(k) = {}
    BY <1>1 DEF Letters
  <2>3. Cardinality(Carriers(k)) = 0 /\ IsFiniteSet(Carriers(k)) /\ Cardinality(Letters(k)) = 0
    BY <2>1, <2>2, FS_EmptySet
  <2>4. copies[k] = 0 /\ slips[k] = 0 /\ job[k] = "none"
    BY <1>1
  <2> QED
    BY <2>3, <2>4 DEF Balanced, ToCome
<1>7. \A p \in Workers : Took(p)
  BY <1>4 DEF Took
<1>8. SentTaken /\ PendingKept
  BY <1>1 DEF SentTaken, PendingKept
<1>9. RetriesAll
  BY <1>4 DEF RetriesAll, Retries
<1> QED
  BY <1>3, <1>5, <1>6, <1>7, <1>8, <1>9 DEF RemindersInv, BalancedAll

LEMMA RemindersStep ==
  ASSUME RemindersInv, ReminderNext
  PROVE  RemindersInv'
<1>1. ASSUME NEW p \in Workers, Serve(p) PROVE RemindersInv'
  <2>1. CASE Work(p) /\ UNCHANGED schedule
    BY <2>1, InsertKeeps, DelayKeeps, CheckKeeps, SendKeeps, MarkKeeps, RaiseKeeps, RestKeeps DEF Work
  <2>2. CASE Remind(p)
    BY <2>2, DelayReminderKeeps, ReadReminderKeeps, MarkReminderKeeps, DispatchReminderKeeps DEF Remind
  <2>3. CASE Return(p) /\ UNCHANGED schedule
    BY <2>3, RestKeeps
  <2> QED
    BY <1>1, <2>1, <2>2, <2>3 DEF Serve
<1>2. ASSUME NEW p \in Workers, Receive(p) PROVE RemindersInv'
  BY <1>2, TakeKeeps, TakeReminderKeeps DEF Receive, Deliver
<1>3. ASSUME NEW p \in Workers, Fail(p) PROVE RemindersInv'
  BY <1>3, LoseSenderKeeps, BreakKeeps, RestKeeps, LosesKeep DEF Fail
<1>4. ASSUME NEW p \in Workers, NEW k \in Keys, Call(p, k), UNCHANGED schedule PROVE RemindersInv'
  BY <1>4, CallKeeps
<1>5. ASSUME NEW p \in Workers, NEW rows \in SUBSET Offsets, ClaimDueReminders(p, rows) PROVE RemindersInv'
  BY <1>5, ClaimKeeps
<1> QED
  BY <1>1, <1>2, <1>3, <1>4, <1>5, ApartKeeps DEF ReminderNext

LEMMA RemindersAlways ==
  ReminderSpec => []RemindersInv
<1>1. ReminderInit => RemindersInv
  BY RemindersStart
<1>2. RemindersInv /\ [ReminderNext]_reminderVars => RemindersInv'
  BY RemindersStep, ApartKeeps
<1> QED
  BY <1>1, <1>2, PTL DEF ReminderSpec

(* For any notifications, processes, retries and faults: the provider takes    *)
(* one copy of a notification more than the times a copy's fate was lost to    *)
(* its sender, at most (send_notification under late acknowledgement).         *)
THEOREM CopiesAreAccounted ==
  ReminderSpec => []CopiesAccounted
<1>1. RemindersInv => CopiesAccounted
  BY DEF RemindersInv, BalancedAll, Balanced, CopiesAccounted
<1> QED
  BY <1>1, RemindersAlways, PTL

(* For any sinks, reminders, dispatchers and crashes: a reminder marked sent   *)
(* was taken by LogReminderSink or has its e-mail in the outbox, and an e-mail *)
(* still pending has a message or a process at work on it, unless a fault took *)
(* its message.                                                                *)
THEOREM SentRemindersAreDispatched ==
  ReminderSpec => []SentReminderIsDispatched
<1>1. RemindersInv => SentReminderIsDispatched
  BY ReminderAssumption DEF RemindersInv, SentTaken, PendingKept, SentReminderIsDispatched
<1> QED
  BY <1>1, RemindersAlways, PTL

-----------------------------------------------------------------------------
(* The chain of the audit trail: the head's hash lists the rows that were      *)
(* sealed, whatever has become of them.                                        *)
Bodies == Events \X {"written"}
Links == [seq : Nat, prev : Seq(Bodies), hash : Seq(Bodies)]
Sealed(i) == head.hash[i][1]
UpTo(i) == [j \in 1 .. i |-> head.hash[j]]

SealerOf == [at : {"idle", "begun", "locked", "fetched"}, head : Links, batch : Seq(Events)]
ReaderOf == [at : {"idle", "chain", "counted", "told"}, checked : Nat, last : {reader.last}, broken : Nat,
             unsealed : Nat, there : Nat, harmed : SUBSET (Nat \ {0}), sealed : BOOLEAN]
ChainTyped ==
  /\ content \in [Events -> {"none", "written", "edited"}]
  /\ head \in Links /\ head.seq = Len(head.hash)
  /\ sealer \in [Sealers -> SealerOf]
  /\ reader \in ReaderOf

(* Every place of the chain has a row of its own, linked to all before it,     *)
(* and the other rows are as they were written; damage are the places whose    *)
(* row is not.                                                                 *)
RowsApart == \A i, j \in 1 .. head.seq : Sealed(i) = Sealed(j) => i = j
RowsLinked == \A i \in 1 .. head.seq : link[Sealed(i)].seq = i /\ link[Sealed(i)].prev = UpTo(i - 1) /\ link[Sealed(i)].hash = UpTo(i)
OthersWait ==
  \A e \in Events :
    IF link[e].seq = 0 THEN link[e] = Unsealed /\ content[e] # "edited"
    ELSE link[e].seq \in 1 .. head.seq /\ Sealed(link[e].seq) = e
DamageIs == damage = {i \in 1 .. head.seq : content[Sealed(i)] # "written"}

(* One sealer at a time has the head, and rows nobody else can touch.          *)
OneSealer ==
  /\ \A s, t \in Sealers : Holding(s) /\ Holding(t) => s = t
  /\ \A s \in Sealers :
       /\ Holding(s) => sealer[s].head = head
       /\ sealer[s].at # "fetched" => sealer[s].batch = <<>>
       /\ \A i \in 1 .. Len(sealer[s].batch) : sealer[s].batch[i] \in Waiting
       /\ \A i, j \in 1 .. Len(sealer[s].batch) : sealer[s].batch[i] = sealer[s].batch[j] => i = j

(* What a verification has seen when it is half way through.                   *)
HalfRead ==
  reader.at \in {"chain", "counted"} =>
    /\ reader.checked <= head.seq
    /\ reader.sealed => reader.checked < head.seq
    /\ reader.harmed = {} => reader.broken = 0 /\ (reader.sealed \/ HeadAgrees)
    /\ reader.harmed # {} =>
         \/ reader.broken = Min(reader.harmed)
         \/ reader.broken = 0 /\ reader.checked + 1 = Min(reader.harmed) /\ reader.checked < head.seq
    /\ reader.sealed \/ reader.checked + (IF reader.at = "chain" THEN Cardinality(Waiting) ELSE reader.unsealed) >= reader.there

ChainHolds == RowsApart /\ RowsLinked /\ OthersWait /\ DamageIs
ChainInv == ChainTyped /\ IsFiniteSet(Present) /\ ChainHolds /\ OneSealer /\ HalfRead /\ ReportIsTrue

-----------------------------------------------------------------------------
(* Sets of numbers and the places of the chain.                                *)
LEMMA MinIs ==
  ASSUME NEW S \in SUBSET Nat, S # {}
  PROVE  Min(S) \in S /\ \A j \in S : Min(S) <= j
<1> DEFINE Less == {ss \in Nat \X Nat : ss[1] < ss[2]}
<1>1. IsWellFoundedOn(Less, Nat)
  BY NatLessThanWellFounded DEF OpToRel
<1>2. PICK x \in S : \A y \in S : ~ (<<y, x>> \in Less)
  <2> HIDE DEF Less
  <2> QED
    BY <1>1, WFMin
<1>3. ASSUME NEW y \in S PROVE x <= y
  <2>1. x \in Nat /\ y \in Nat /\ ~ (<<y, x>> \in Less)
    BY <1>2
  <2> QED
    BY <2>1
<1> QED
  BY <1>2, <1>3 DEF Min

(* Places of the chain and what is at them.                                    *)
LEMMA PlaceIs ==
  ASSUME ChainTyped, NEW i \in 1 .. head.seq
  PROVE  /\ head.hash[i] = <<Sealed(i), "written">> /\ Sealed(i) \in Events
         /\ UpTo(i) \in Seq(Bodies) /\ UpTo(i - 1) \in Seq(Bodies) /\ UpTo(i) = Append(UpTo(i - 1), head.hash[i])
<1>1. head.hash \in Seq(Bodies) /\ Len(head.hash) = head.seq /\ head.seq \in Nat /\ i \in Nat /\ i >= 1
  BY DEF ChainTyped, Links
<1>2. head.hash[i] \in Bodies
  BY <1>1
<1>3. head.hash[i] = <<Sealed(i), "written">> /\ Sealed(i) \in Events
  BY <1>2 DEF Bodies, Sealed
<1>4. \A j \in 1 .. i : head.hash[j] \in Bodies
  BY <1>1
<1>5. UpTo(i) \in [1 .. i -> Bodies] /\ UpTo(i - 1) \in [1 .. i - 1 -> Bodies]
  BY <1>1, <1>4 DEF UpTo
<1>6. UpTo(i) \in Seq(Bodies) /\ UpTo(i - 1) \in Seq(Bodies) /\ Len(UpTo(i)) = i /\ Len(UpTo(i - 1)) = i - 1
  BY <1>1, <1>5
<1>7. UpTo(i) = Append(UpTo(i - 1), head.hash[i])
  <2>1. Append(UpTo(i - 1), head.hash[i]) \in Seq(Bodies) /\ Len(Append(UpTo(i - 1), head.hash[i])) = i
    BY <1>1, <1>2, <1>6
  <2>2. ASSUME NEW j \in 1 .. i PROVE Append(UpTo(i - 1), head.hash[i])[j] = head.hash[j]
    <3>1. CASE j = i
      BY <1>1, <1>2, <1>6, <3>1
    <3>2. CASE j # i
      <4>1. j \in 1 .. i - 1
        BY <1>1, <3>2
      <4>2. Append(UpTo(i - 1), head.hash[i])[j] = UpTo(i - 1)[j]
        BY <1>2, <1>6, <4>1
      <4> QED
        BY <4>1, <4>2 DEF UpTo
    <3> QED
      BY <3>1, <3>2
  <2>3. Append(UpTo(i - 1), head.hash[i]) = [j \in 1 .. i |-> head.hash[j]]
    BY <1>1, <2>1, <2>2
  <2> QED
    BY <2>3 DEF UpTo
<1> QED
  BY <1>3, <1>6, <1>7

LEMMA NothingIsUpTo == UpTo(0) = <<>>
BY DEF UpTo

LEMMA WholeIsUpTo == ASSUME ChainTyped PROVE UpTo(head.seq) = head.hash
BY DEF ChainTyped, Links, UpTo

(* As many rows as places.                                                     *)
LEMMA PlacesCount ==
  ASSUME ChainTyped, RowsApart, NEW n \in 0 .. head.seq
  PROVE  IsFiniteSet({Sealed(j) : j \in 1 .. n}) /\ Cardinality({Sealed(j) : j \in 1 .. n}) = n
<1> DEFINE T == {Sealed(j) : j \in 1 .. n}
           f == [j \in 1 .. n |-> Sealed(j)]
<1>1. head.seq \in Nat /\ n \in Nat /\ 1 .. n \subseteq 1 .. head.seq
  BY DEF ChainTyped, Links
<1>2. f \in Bijection(1 .. n, T)
  <2>1. f \in [1 .. n -> T] /\ \A y \in T : \E j \in 1 .. n : f[j] = y
    OBVIOUS
  <2>2. \A i, j \in 1 .. n : f[i] = f[j] => i = j
    BY <1>1 DEF RowsApart
  <2> QED
    BY <2>1, <2>2 DEF Bijection, Injection, Surjection, IsInjective
<1>3. ExistsBijection(1 .. n, T)
  BY <1>2 DEF ExistsBijection
<1>4. IsFiniteSet(1 .. n) /\ Cardinality(1 .. n) = n
  BY <1>1, FS_Interval
<1> HIDE DEF T
<1>5. IsFiniteSet(T) /\ Cardinality(T) = n
  BY <1>3, <1>4, FS_Bijection
<1> QED
  BY <1>5 DEF T

(* The chain before its first damaged place.                                   *)
SoundBelow(m) == m \in 1 .. head.seq + 1 /\ \A i \in 1 .. m - 1 : i \notin damage

LEMMA SoundRows ==
  ASSUME ChainTyped, ChainHolds, NEW m, SoundBelow(m), NEW i \in 1 .. m - 1
  PROVE  /\ i \in 1 .. head.seq /\ Sealed(i) \in Chained /\ content[Sealed(i)] = "written" /\ link[Sealed(i)].seq = i
<1>1. i \in 1 .. head.seq /\ i \notin damage /\ i # 0
  BY DEF SoundBelow, ChainTyped, Links
<1>2. Sealed(i) \in Events /\ content[Sealed(i)] = "written" /\ link[Sealed(i)].seq = i
  BY <1>1, PlaceIs DEF ChainHolds, DamageIs, RowsLinked
<1> QED
  BY <1>1, <1>2 DEF Chained, Present

LEMMA ChainedRow ==
  ASSUME ChainTyped, ChainHolds, NEW e \in Chained
  PROVE  e \in Events /\ content[e] # "none" /\ link[e].seq \in 1 .. head.seq /\ Sealed(link[e].seq) = e
BY DEF ChainHolds, OthersWait, Chained, Present

LEMMA BelowIs ==
  ASSUME ChainTyped, ChainHolds, NEW m, SoundBelow(m), NEW i \in 1 .. m
  PROVE  /\ {f \in Chained : link[f].seq < i} = {Sealed(j) : j \in 1 .. i - 1}
         /\ IsFiniteSet({f \in Chained : link[f].seq < i})
         /\ Cardinality({f \in Chained : link[f].seq < i}) = i - 1
<1>1. head.seq \in Nat /\ i - 1 \in 0 .. head.seq /\ 1 .. i - 1 \subseteq 1 .. m - 1
  BY DEF SoundBelow, ChainTyped, Links
<1>2. ASSUME NEW f \in Chained, link[f].seq < i PROVE f \in {Sealed(j) : j \in 1 .. i - 1}
  <2>1. link[f].seq \in 1 .. head.seq /\ Sealed(link[f].seq) = f
    BY ChainedRow
  <2>2. link[f].seq \in 1 .. i - 1
    BY <1>1, <1>2, <2>1
  <2> QED
    BY <2>1, <2>2
<1>3. ASSUME NEW j \in 1 .. i - 1 PROVE Sealed(j) \in Chained /\ link[Sealed(j)].seq < i
  <2>1. j \in 1 .. m - 1 /\ j < i
    BY <1>1
  <2> QED
    BY <2>1, SoundRows
<1>4. {f \in Chained : link[f].seq < i} = {Sealed(j) : j \in 1 .. i - 1}
  BY <1>2, <1>3
<1> QED
  BY <1>1, <1>4, PlacesCount DEF ChainHolds

LEMMA ChainedFinite ==
  ASSUME IsFiniteSet(Present)
  PROVE  /\ IsFiniteSet(Chained) /\ IsFiniteSet(Waiting) /\ Cardinality(Chained) \in Nat /\ Cardinality(Waiting) \in Nat
         /\ Cardinality(Present) = Cardinality(Chained) + Cardinality(Waiting)
<1>1. Chained \in SUBSET Present /\ Waiting \in SUBSET Present /\ Present = Chained \union Waiting
      /\ Chained \intersect Waiting = {}
  BY DEF Chained, Waiting
<1>2. IsFiniteSet(Chained) /\ IsFiniteSet(Waiting)
  BY <1>1, FS_Subset
<1>3. Cardinality(Chained) \in Nat /\ Cardinality(Waiting) \in Nat /\ Cardinality({}) = 0
  BY <1>2, FS_CardinalityType, FS_EmptySet
<1>4. Cardinality(Chained \union Waiting) = Cardinality(Chained) + Cardinality(Waiting) - Cardinality(Chained \intersect Waiting)
  BY <1>2, FS_Union
<1>5. Cardinality(Present) = Cardinality(Chained \union Waiting) /\ Cardinality(Chained \intersect Waiting) = 0
  BY <1>1, <1>3
<1> QED
  BY <1>2, <1>3, <1>4, <1>5

(* A row's place in the order in which a verification reads the rows.          *)
LEMMA RankIs ==
  ASSUME ChainTyped, ChainHolds, IsFiniteSet(Present), NEW m, SoundBelow(m), NEW e \in Chained
  PROVE  /\ link[e].seq \in Nat /\ Cardinality(Before(e)) \in Nat
         /\ link[e].seq <= m => Cardinality(Before(e)) = link[e].seq - 1
         /\ link[e].seq > m => Cardinality(Before(e)) >= m - 1
<1>1. link[e].seq \in 1 .. head.seq /\ link[e].seq \in Nat /\ m \in 1 .. head.seq + 1 /\ head.seq \in Nat
  BY ChainedRow DEF SoundBelow, ChainTyped, Links
<1>2. IsFiniteSet(Before(e)) /\ Cardinality(Before(e)) \in Nat
  <2>1. Before(e) \in SUBSET Chained /\ IsFiniteSet(Chained)
    BY ChainedFinite DEF Before
  <2>2. IsFiniteSet(Before(e))
    BY <2>1, FS_Subset
  <2> QED
    BY <2>2, FS_CardinalityType
<1>3. CASE link[e].seq <= m
  <2>1. link[e].seq \in 1 .. m
    BY <1>1, <1>3
  <2> QED
    BY <1>1, <1>2, <1>3, <2>1, BelowIs DEF Before
<1>4. CASE link[e].seq > m
  <2> DEFINE T == {f \in Chained : link[f].seq < m}
  <2>1. m \in 1 .. m
    BY <1>1
  <2>2. Cardinality(T) = m - 1
    BY <2>1, BelowIs
  <2>3. T \in SUBSET Before(e)
    <3>1. ASSUME NEW f \in Chained, link[f].seq < m PROVE link[f].seq < link[e].seq
      <4>1. link[f].seq \in Nat
        BY ChainedRow, <1>1
      <4> QED
        BY <1>1, <1>4, <3>1, <4>1
    <3> QED
      BY <3>1 DEF Before
  <2> HIDE DEF T
  <2>4. Cardinality(T) <= Cardinality(Before(e))
    BY <1>2, <2>3, FS_Subset
  <2> QED
    BY <1>1, <1>2, <1>4, <2>2, <2>4
<1> QED
  BY <1>1, <1>2, <1>3, <1>4

LEMMA ReadsInOrder ==
  ASSUME ChainTyped, ChainHolds, IsFiniteSet(Present), NEW m, SoundBelow(m)
  PROVE  /\ m - 1 <= Cardinality(Chained)
         /\ Len(ByChainSeq) = Cardinality(Chained)
         /\ \A i \in 1 .. m - 1 : ByChainSeq[i] = Sealed(i)
<1>1. m \in 1 .. head.seq + 1 /\ head.seq \in Nat /\ IsFiniteSet(Chained) /\ Cardinality(Chained) \in Nat
  BY ChainedFinite DEF SoundBelow, ChainTyped, Links
<1>2. m - 1 <= Cardinality(Chained)
  <2> DEFINE T == {f \in Chained : link[f].seq < m}
  <2>1. m \in 1 .. m
    BY <1>1
  <2>2. Cardinality(T) = m - 1 /\ T \in SUBSET Chained
    BY <2>1, BelowIs
  <2> HIDE DEF T
  <2>3. Cardinality(T) <= Cardinality(Chained)
    BY <1>1, <2>2, FS_Subset
  <2> QED
    BY <2>2, <2>3
<1>3. Len(ByChainSeq) = Cardinality(Chained)
  BY <1>1 DEF ByChainSeq
<1>4. ASSUME NEW i \in 1 .. m - 1 PROVE ByChainSeq[i] = Sealed(i)
  <2>1. i \in 1 .. Cardinality(Chained) /\ i \in Nat /\ i < m
    BY <1>1, <1>2
  <2>2. Sealed(i) \in Chained /\ Cardinality(Before(Sealed(i))) = i - 1
    BY <1>1, <2>1, SoundRows, RankIs
  <2>3. ASSUME NEW e \in Chained, Cardinality(Before(e)) = i - 1 PROVE e = Sealed(i)
    <3>1. link[e].seq = i
      BY <1>1, <2>1, <2>3, RankIs
    <3> QED
      BY <3>1, ChainedRow
  <2>4. ByChainSeq[i] = CHOOSE e \in Chained : Cardinality(Before(e)) = i - 1
    BY <2>1 DEF ByChainSeq
  <2> QED
    BY <2>2, <2>3, <2>4
<1> QED
  BY <1>2, <1>3, <1>4

-----------------------------------------------------------------------------
(* What a verification finds.                                                  *)
LEMMA PrevOfSound ==
  ASSUME ChainTyped, ChainHolds, IsFiniteSet(Present), NEW m, SoundBelow(m), NEW i \in 1 .. m
  PROVE  PrevOf(ByChainSeq, i) = UpTo(i - 1)
<1>1. m \in Nat /\ i \in Nat
  BY DEF SoundBelow, ChainTyped, Links
<1>2. CASE i = 1
  BY <1>2, NothingIsUpTo DEF PrevOf, Genesis
<1>3. CASE i # 1
  <2>1. i - 1 \in 1 .. m - 1
    BY <1>1, <1>3
  <2>2. ByChainSeq[i - 1] = Sealed(i - 1) /\ i - 1 \in 1 .. head.seq
    BY <2>1, ReadsInOrder, SoundRows
  <2>3. link[Sealed(i - 1)].hash = UpTo(i - 1)
    BY <2>2 DEF ChainHolds, RowsLinked
  <2> QED
    BY <1>3, <2>2, <2>3 DEF PrevOf
<1> QED
  BY <1>2, <1>3

LEMMA SoundHolds ==
  ASSUME ChainTyped, ChainHolds, IsFiniteSet(Present), NEW m, SoundBelow(m), NEW i \in 1 .. m - 1
  PROVE  ~ BreaksAt(ByChainSeq, i)
<1>1. m \in Nat /\ i \in 1 .. m
  BY DEF SoundBelow, ChainTyped, Links
<1>2. ByChainSeq[i] = Sealed(i) /\ i \in 1 .. head.seq /\ content[Sealed(i)] = "written"
  BY ReadsInOrder, SoundRows
<1>3. PrevOf(ByChainSeq, i) = UpTo(i - 1)
  BY <1>1, PrevOfSound
<1>4. link[Sealed(i)].seq = i /\ link[Sealed(i)].prev = UpTo(i - 1) /\ link[Sealed(i)].hash = UpTo(i)
  BY <1>2 DEF ChainHolds, RowsLinked
<1>5. UpTo(i) = RowHash(UpTo(i - 1), Sealed(i), "written")
  BY <1>2, PlaceIs DEF RowHash, Body
<1> QED
  BY <1>2, <1>3, <1>4, <1>5 DEF BreaksAt

(* An untouched chain: no row breaks it, and the last one agrees with the head. *)
LEMMA UntouchedVerifies ==
  ASSUME ChainTyped, ChainHolds, IsFiniteSet(Present), damage = {}
  PROVE  /\ FirstBreak(ByChainSeq) = 0 /\ Len(ByChainSeq) = head.seq
         /\ PrevOf(ByChainSeq, Len(ByChainSeq) + 1) = head.hash
<1> DEFINE m == head.seq + 1
<1>1. SoundBelow(m) /\ head.seq \in Nat /\ m \in 1 .. m /\ m - 1 = head.seq
  BY DEF SoundBelow, ChainTyped, Links
<1>2. Chained = {f \in Chained : link[f].seq < m}
  <2> SUFFICES ASSUME NEW f \in Chained PROVE link[f].seq < m
    OBVIOUS
  <2> QED
    BY <1>1, ChainedRow
<1>3. Cardinality(Chained) = head.seq
  BY <1>1, <1>2, BelowIs
<1>4. Len(ByChainSeq) = head.seq /\ DOMAIN ByChainSeq = 1 .. m - 1
  BY <1>1, <1>3, ReadsInOrder DEF ByChainSeq
<1>5. {i \in DOMAIN ByChainSeq : BreaksAt(ByChainSeq, i)} = {}
  BY <1>1, <1>4, SoundHolds
<1>6. PrevOf(ByChainSeq, m) = UpTo(head.seq)
  BY <1>1, PrevOfSound
<1> QED
  BY <1>4, <1>5, <1>6, WholeIsUpTo DEF FirstBreak

(* The first damaged place breaks the chain: its row is not what was hashed,   *)
(* or the row read there is from further on, or the rows end before it.        *)
LEMMA DamageBreaks ==
  ASSUME ChainTyped, ChainHolds, IsFiniteSet(Present), NEW m \in 1 .. head.seq, SoundBelow(m), m \in damage,
         m <= Cardinality(Chained)
  PROVE  BreaksAt(ByChainSeq, m)
<1>1. head.seq \in Nat /\ m \in Nat /\ m \in 1 .. m /\ Cardinality(Chained) \in Nat /\ IsFiniteSet(Chained)
  BY ChainedFinite DEF ChainTyped, Links
<1>2. PICK e \in Chained : Cardinality(Before(e)) = m - 1
  <2> DEFINE Below == {f \in Chained : link[f].seq < m}
             Rest == {link[f].seq : f \in Chained \ Below}
  <2>1. IsFiniteSet(Below) /\ Cardinality(Below) = m - 1 /\ Below \subseteq Chained
    BY <1>1, BelowIs
  <2>2. Chained \ Below # {}
    <3> HIDE DEF Below
    <3>1. Below # Chained
      BY <1>1, <2>1
    <3> QED
      BY <2>1, <3>1
  <2>3. Rest \in SUBSET Nat /\ Rest # {}
    <3>1. ASSUME NEW f \in Chained PROVE link[f].seq \in Nat
      <4>1. link[f].seq \in 1 .. head.seq
        BY ChainedRow
      <4> QED
        BY <1>1, <4>1
    <3> QED
      BY <2>2, <3>1
  <2>4. Min(Rest) \in Rest /\ \A j \in Rest : Min(Rest) <= j
    <3> HIDE DEF Rest
    <3> QED
      BY <2>3, MinIs
  <2>5. PICK e \in Chained \ Below : link[e].seq = Min(Rest)
    BY <2>4
  <2>6. e \in Chained /\ link[e].seq >= m
    <3>1. link[e].seq \in Nat /\ ~ (link[e].seq < m)
      BY <1>1, <2>5, ChainedRow
    <3> QED
      BY <1>1, <2>5, <3>1
  <2>7. Before(e) = Below
    <3>1. ASSUME NEW f \in Chained, link[f].seq < link[e].seq PROVE link[f].seq < m
      <4>1. f \in Chained \ Below => link[f].seq \in Rest
        OBVIOUS
      <4>0. link[f].seq \in 1 .. head.seq /\ link[e].seq \in 1 .. head.seq
        BY <2>6, ChainedRow
      <4>2. link[f].seq \in Nat /\ link[e].seq \in Nat
        BY <1>1, <4>0
      <4>3. ~ (f \in Chained \ Below)
        <5> HIDE DEF Rest, Below
        <5>1. f \in Chained \ Below => link[e].seq <= link[f].seq
          BY <2>4, <2>5, <4>1
        <5> QED
          BY <3>1, <4>2, <5>1
      <4> QED
        BY <4>3
    <3>2. ASSUME NEW f \in Chained, link[f].seq < m PROVE link[f].seq < link[e].seq
      <4>1. link[f].seq \in Nat /\ link[e].seq \in Nat
        BY <1>1, <2>6, ChainedRow
      <4> QED
        BY <1>1, <2>6, <3>2, <4>1
    <3> QED
      BY <3>1, <3>2 DEF Before
  <2> QED
    BY <2>1, <2>6, <2>7
<1>3. ByChainSeq[m] \in Chained /\ Cardinality(Before(ByChainSeq[m])) = m - 1
  <2>1. ByChainSeq[m] = CHOOSE f \in Chained : Cardinality(Before(f)) = m - 1
    BY <1>1 DEF ByChainSeq
  <2> QED
    BY <1>2, <2>1
<1>4. PICK r \in Chained : r = ByChainSeq[m]
  BY <1>3
<1>5. link[r].seq \in Nat /\ link[r].seq >= m
  BY <1>1, <1>3, <1>4, RankIs
<1>6. CASE link[r].seq # m
  BY <1>4, <1>6 DEF BreaksAt
<1>7. CASE link[r].seq = m
  <2>1. r = Sealed(m) /\ content[r] # "none" /\ r \in Events
    BY <1>7, ChainedRow
  <2>2. content[r] = "edited"
    BY <2>1 DEF ChainHolds, DamageIs, ChainTyped
  <2>3. link[r].hash = UpTo(m) /\ UpTo(m) = Append(UpTo(m - 1), <<r, "written">>) /\ UpTo(m - 1) \in Seq(Bodies)
    BY <2>1, PlaceIs DEF ChainHolds, RowsLinked
  <2>4. PrevOf(ByChainSeq, m) = UpTo(m - 1)
    BY <1>1, PrevOfSound
  <2>5. ASSUME NEW s \in Seq(Bodies) PROVE Append(s, <<r, "written">>) # Append(s, <<r, "edited">>)
    <3>1. Append(s, <<r, "written">>)[Len(s) + 1] = <<r, "written">> /\ Append(s, <<r, "edited">>)[Len(s) + 1] = <<r, "edited">>
      OBVIOUS
    <3> QED
      BY <3>1
  <2>6. link[r].hash # RowHash(PrevOf(ByChainSeq, m), r, content[r])
    BY <2>2, <2>3, <2>4, <2>5 DEF RowHash, Body
  <2> QED
    BY <1>4, <2>6 DEF BreaksAt
<1> QED
  BY <1>6, <1>7

LEMMA DamageFound ==
  ASSUME ChainTyped, ChainHolds, IsFiniteSet(Present), damage # {}
  PROVE  /\ Min(damage) \in 1 .. head.seq
         /\ \/ FirstBreak(ByChainSeq) = Min(damage)
            \/ FirstBreak(ByChainSeq) = 0 /\ Len(ByChainSeq) + 1 = Min(damage)
<1>1. damage \in SUBSET (1 .. head.seq) /\ head.seq \in Nat /\ 1 .. head.seq \subseteq Nat
  BY DEF ChainHolds, DamageIs, ChainTyped, Links
<1>2. Min(damage) \in damage /\ \A j \in damage : Min(damage) <= j
  <2>1. damage \in SUBSET Nat
    BY <1>1
  <2> QED
    BY <2>1, MinIs
<1>3. PICK m \in 1 .. head.seq : m = Min(damage)
  BY <1>1, <1>2
<1>4. SoundBelow(m)
  <2>1. ASSUME NEW i \in 1 .. m - 1, i \in damage PROVE FALSE
    BY <1>2, <1>3, <2>1
  <2> QED
    BY <1>1, <2>1 DEF SoundBelow
<1>5. /\ m - 1 <= Cardinality(Chained) /\ Len(ByChainSeq) = Cardinality(Chained) /\ Cardinality(Chained) \in Nat
      /\ DOMAIN ByChainSeq = 1 .. Cardinality(Chained)
  BY <1>4, ReadsInOrder, ChainedFinite DEF ByChainSeq
<1> DEFINE breaks == {i \in DOMAIN ByChainSeq : BreaksAt(ByChainSeq, i)}
<1>6. \A i \in breaks : i >= m
  <2> SUFFICES ASSUME NEW i \in breaks, i < m PROVE FALSE
    BY <1>5
  <2>1. i \in 1 .. m - 1 /\ BreaksAt(ByChainSeq, i)
    BY <1>5
  <2> QED
    BY <1>4, <2>1, SoundHolds
<1>7. CASE m <= Cardinality(Chained)
  <2>1. m \in breaks
    BY <1>2, <1>3, <1>4, <1>5, <1>7, DamageBreaks
  <2>2. breaks \in SUBSET Nat /\ breaks # {}
    BY <1>5, <2>1
  <2>3. Min(breaks) \in breaks /\ \A j \in breaks : Min(breaks) <= j
    <3> HIDE DEF breaks
    <3> QED
      BY <2>2, MinIs
  <2>4. Min(breaks) = m
    <3> HIDE DEF breaks
    <3>1. Min(breaks) \in Nat /\ m \in Nat /\ Min(breaks) <= m /\ Min(breaks) >= m
      BY <1>6, <2>1, <2>2, <2>3
    <3> QED
      BY <3>1
  <2>5. FirstBreak(ByChainSeq) = Min(breaks)
    BY <2>2 DEF FirstBreak
  <2> QED
    BY <1>3, <2>4, <2>5
<1>8. CASE ~ (m <= Cardinality(Chained))
  <2>1. Cardinality(Chained) + 1 = m
    BY <1>1, <1>5, <1>8
  <2>2. breaks = {}
    <3> SUFFICES ASSUME NEW i \in breaks PROVE FALSE
      OBVIOUS
    <3>1. i \in 1 .. Cardinality(Chained) /\ i >= m
      BY <1>5, <1>6
    <3> QED
      BY <1>5, <2>1, <3>1
  <2> QED
    BY <1>3, <1>5, <2>1, <2>2 DEF FirstBreak
<1> QED
  BY <1>7, <1>8

-----------------------------------------------------------------------------
(* What a step leaves alone.                                                   *)
ChainRows == <<content, link, head, damage>>

LEMMA RowsStay ==
  ASSUME ChainHolds, IsFiniteSet(Present), UNCHANGED ChainRows
  PROVE  ChainHolds' /\ IsFiniteSet(Present)' /\ Waiting' = Waiting
<1>1. content' = content /\ link' = link /\ head' = head /\ damage' = damage
  BY DEF ChainRows
<1>2. ChainHolds'
  BY <1>1 DEF ChainHolds, RowsApart, RowsLinked, OthersWait, DamageIs, Sealed, UpTo, Unsealed, Genesis
<1>3. Present' = Present /\ Waiting' = Waiting
  BY <1>1 DEF Present, Waiting, Chained
<1> QED
  BY <1>2, <1>3

LEMMA SealersStay ==
  ASSUME OneSealer, UNCHANGED <<head, sealer>>, Waiting \subseteq Waiting'
  PROVE  OneSealer'
<1>1. head' = head /\ sealer' = sealer
  OBVIOUS
<1>2. ASSUME NEW s \in Sealers, NEW i \in 1 .. Len(sealer[s].batch) PROVE sealer[s].batch[i] \in Waiting'
  BY DEF OneSealer
<1> QED
  BY <1>1, <1>2 DEF OneSealer, Holding

LEMMA ReaderStays ==
  ASSUME ChainTyped, HalfRead, ReportIsTrue, IsFiniteSet(Present), IsFiniteSet(Present)', UNCHANGED <<reader, head>>,
         Waiting \subseteq Waiting'
  PROVE  HalfRead' /\ ReportIsTrue'
<1>1. Cardinality(Waiting) \in Nat /\ Cardinality(Waiting)' \in Nat /\ Cardinality(Waiting)' >= Cardinality(Waiting)
  <2>1. IsFiniteSet(Waiting) /\ Cardinality(Waiting) \in Nat
    BY ChainedFinite
  <2>2. Waiting' \in SUBSET Present'
    BY DEF Waiting
  <2>3. IsFiniteSet(Waiting')
    BY <2>2, FS_Subset
  <2>4. Waiting \in SUBSET Waiting'
    OBVIOUS
  <2>5. Cardinality(Waiting') \in Nat /\ Cardinality(Waiting) <= Cardinality(Waiting')
    BY <2>3, <2>4, FS_CardinalityType, FS_Subset
  <2> QED
    BY <2>1, <2>5
<1>2. reader' = reader /\ head' = head
  OBVIOUS
<1>3. ReportIsTrue'
  BY <1>2 DEF ReportIsTrue, DamageIsReported, CleanChainVerifies, OkAccountsForAll, Told
<1>4. reader.checked \in Nat /\ reader.there \in Nat /\ reader.unsealed \in Nat
  BY DEF ChainTyped, ReaderOf
<1>5. ASSUME reader.at \in {"chain", "counted"}, ~reader.sealed
      PROVE  reader.checked + (IF reader.at = "chain" THEN Cardinality(Waiting') ELSE reader.unsealed) >= reader.there
  <2>1. reader.checked + (IF reader.at = "chain" THEN Cardinality(Waiting) ELSE reader.unsealed) >= reader.there
    BY <1>5 DEF HalfRead
  <2>2. CASE reader.at = "chain"
    BY <1>1, <1>4, <2>1, <2>2
  <2>3. CASE reader.at # "chain"
    BY <2>1, <2>3
  <2> QED
    BY <2>2, <2>3
<1>6. HalfRead'
  BY <1>2, <1>5 DEF HalfRead, HeadAgrees
<1> QED
  BY <1>3, <1>6

(* A step of the writers, or of somebody who damages the chain.                *)
LEMMA RowsStep ==
  ASSUME ChainInv, UNCHANGED <<head, sealer, reader>>, content' \in [Events -> {"none", "written", "edited"}],
         ChainHolds', IsFiniteSet(Present)', Waiting \subseteq Waiting'
  PROVE  ChainInv'
<1>1. ChainTyped'
  BY DEF ChainInv, ChainTyped, SealerOf, ReaderOf, Links, Bodies
<1>2. OneSealer'
  BY SealersStay DEF ChainInv
<1>3. HalfRead' /\ ReportIsTrue'
  BY ReaderStays DEF ChainInv
<1> QED
  BY <1>1, <1>2, <1>3 DEF ChainInv

LEMMA RecordKeeps ==
  ASSUME ChainInv, NEW e \in Events, RecordAudit(e)
  PROVE  ChainInv'
<1>1. /\ content[e] = "none" /\ link[e].seq = 0 /\ content' = [content EXCEPT ![e] = "written"]
      /\ UNCHANGED <<link, head, sealer, reader, damage>>
  BY DEF RecordAudit, Unsealed
<1>2. content \in [Events -> {"none", "written", "edited"}] /\ ChainHolds /\ ChainTyped /\ IsFiniteSet(Present)
  BY DEF ChainInv, ChainTyped
<1>3. \A f \in Events : f # e => content'[f] = content[f]
  BY <1>1, <1>2
<1>4. content'[e] = "written" /\ content' \in [Events -> {"none", "written", "edited"}]
  BY <1>1, <1>2
<1>5. \A i \in 1 .. head.seq : Sealed(i) \in Events /\ Sealed(i) # e
  <2> SUFFICES ASSUME NEW i \in 1 .. head.seq PROVE Sealed(i) \in Events /\ Sealed(i) # e
    OBVIOUS
  <2>1. Sealed(i) \in Events /\ link[Sealed(i)].seq = i /\ i # 0
    BY <1>2, PlaceIs DEF ChainHolds, RowsLinked
  <2> QED
    BY <1>1, <2>1
<1>6. ChainHolds'
  <2>1. RowsApart' /\ RowsLinked'
    BY <1>1, <1>2 DEF ChainHolds, RowsApart, RowsLinked, Sealed, UpTo
  <2>2. OthersWait'
    BY <1>1, <1>2, <1>3, <1>4 DEF ChainHolds, OthersWait, Sealed, Unsealed, Genesis
  <2>3. DamageIs'
    BY <1>1, <1>2, <1>3, <1>5 DEF ChainHolds, DamageIs, Sealed
  <2> QED
    BY <2>1, <2>2, <2>3 DEF ChainHolds
<1>7. Present' = Present \union {e} /\ Waiting \subseteq Waiting'
  BY <1>1, <1>2, <1>3, <1>4 DEF Present, Waiting, Chained
<1>8. IsFiniteSet(Present)'
  BY <1>2, <1>7, FS_AddElement
<1> QED
  BY <1>1, <1>4, <1>6, <1>7, <1>8, RowsStep

LEMMA DamageKeeps ==
  ASSUME ChainInv, NEW e \in Events, EditSealed(e) \/ DeleteSealed(e)
  PROVE  ChainInv'
<1>1. PICK text \in {"none", "edited"} : content' = [content EXCEPT ![e] = text]
  BY DEF EditSealed, DeleteSealed
<1>2. /\ e \in Chained /\ damage' = damage \union {link[e].seq}
      /\ UNCHANGED <<link, head, sealer, reader>>
  BY DEF EditSealed, DeleteSealed
<1>3. content \in [Events -> {"none", "written", "edited"}] /\ ChainHolds /\ ChainTyped /\ IsFiniteSet(Present)
  BY DEF ChainInv, ChainTyped
<1>4. \A f \in Events : f # e => content'[f] = content[f]
  BY <1>1, <1>3
<1>5. content'[e] = text /\ text # "written" /\ content' \in [Events -> {"none", "written", "edited"}]
  BY <1>1, <1>3
<1>6. link[e].seq \in 1 .. head.seq /\ Sealed(link[e].seq) = e /\ content[e] # "none" /\ link[e].seq # 0
  BY <1>2, <1>3, ChainedRow
<1>7. \A i \in 1 .. head.seq : Sealed(i) \in Events /\ (Sealed(i) = e <=> i = link[e].seq)
  BY <1>3, <1>6, PlaceIs DEF ChainHolds, RowsLinked
<1>8. ChainHolds'
  <2>1. RowsApart' /\ RowsLinked'
    BY <1>2, <1>3 DEF ChainHolds, RowsApart, RowsLinked, Sealed, UpTo
  <2>2. OthersWait'
    BY <1>2, <1>3, <1>4, <1>6 DEF ChainHolds, OthersWait, Sealed, Unsealed, Genesis
  <2>3. DamageIs'
    <3>1. head' = head /\ \A i \in 1 .. head.seq : Sealed(i)' = Sealed(i)
      BY <1>2 DEF Sealed
    <3>2. damage = {i \in 1 .. head.seq : content[Sealed(i)] # "written"}
      BY <1>3 DEF ChainHolds, DamageIs
    <3>3. \A i \in 1 .. head.seq : content'[Sealed(i)] # "written" <=> content[Sealed(i)] # "written" \/ i = link[e].seq
      BY <1>4, <1>5, <1>7
    <3>4. damage' = {i \in 1 .. head.seq : content'[Sealed(i)] # "written"}
      BY <1>2, <1>6, <3>2, <3>3
    <3> QED
      BY <3>1, <3>4 DEF DamageIs
  <2> QED
    BY <2>1, <2>2, <2>3 DEF ChainHolds
<1>9. Present' \in SUBSET Present /\ Waiting \subseteq Waiting'
  BY <1>2, <1>3, <1>4, <1>6 DEF Present, Waiting, Chained
<1>10. IsFiniteSet(Present)'
  BY <1>3, <1>9, FS_Subset
<1> QED
  BY <1>2, <1>5, <1>8, <1>9, <1>10, RowsStep

-----------------------------------------------------------------------------
(* The sealer's steps.                                                         *)
LEMMA SealerStep ==
  ASSUME ChainInv, UNCHANGED <<content, link, head, damage, reader>>, sealer' \in [Sealers -> SealerOf], OneSealer'
  PROVE  ChainInv'
<1>1. ChainTyped'
  BY DEF ChainInv, ChainTyped, Links, Bodies, ReaderOf
<1>2. ChainHolds' /\ IsFiniteSet(Present)' /\ Waiting' = Waiting
  BY RowsStay DEF ChainInv, ChainRows
<1>3. HalfRead' /\ ReportIsTrue'
  BY <1>2, ReaderStays DEF ChainInv
<1> QED
  BY <1>1, <1>2, <1>3 DEF ChainInv

LEMMA IdleSealerIs ==
  IdleSealer \in SealerOf /\ IdleSealer.at = "idle" /\ IdleSealer.batch = <<>>
BY DEF IdleSealer, SealerOf, Unsealed, Genesis, Links

LEMMA WaitingSame ==
  ASSUME UNCHANGED <<content, link>>
  PROVE  Waiting' = Waiting
BY DEF Waiting, Chained, Present

LEMMA BeginKeeps ==
  ASSUME ChainInv, NEW s \in Sealers, BeginSeal(s)
  PROVE  ChainInv'
<1>1. /\ sealer[s].at = "idle" /\ UNCHANGED <<content, link, head, damage, reader>>
      /\ sealer' = [sealer EXCEPT ![s] = [sealer[s] EXCEPT !.at = "begun"]]
  BY DEF BeginSeal
<1>2. sealer \in [Sealers -> SealerOf] /\ sealer[s] \in SealerOf /\ OneSealer
  BY DEF ChainInv, ChainTyped
<1> DEFINE q == [sealer[s] EXCEPT !.at = "begun"]
<1>3. q \in SealerOf /\ q.at = "begun" /\ q.batch = sealer[s].batch
  BY <1>2 DEF SealerOf
<1> HIDE DEF q
<1>4. sealer' \in [Sealers -> SealerOf] /\ sealer'[s] = q /\ \A t \in Sealers : t # s => sealer'[t] = sealer[t]
  BY <1>1, <1>2, <1>3 DEF q
<1>5. OneSealer'
  BY <1>1, <1>2, <1>3, <1>4, WaitingSame DEF OneSealer, Holding
<1> QED
  BY <1>1, <1>4, <1>5, SealerStep

LEMMA LockKeeps ==
  ASSUME ChainInv, NEW s \in Sealers, LockHead(s)
  PROVE  ChainInv'
<1> DEFINE q == [at |-> "locked", head |-> head, batch |-> <<>>]
<1>1. /\ \A t \in Sealers : ~ Holding(t)
      /\ UNCHANGED <<content, link, head, damage, reader>>
      /\ sealer' = [sealer EXCEPT ![s] = q]
  BY DEF LockHead
<1>2. sealer \in [Sealers -> SealerOf] /\ head \in Links /\ OneSealer
  BY DEF ChainInv, ChainTyped
<1>3. q \in SealerOf /\ q.at = "locked" /\ q.batch = <<>> /\ q.head = head
  BY <1>2 DEF SealerOf
<1> HIDE DEF q
<1>4. sealer' \in [Sealers -> SealerOf] /\ sealer'[s] = q /\ \A t \in Sealers : t # s => sealer'[t] = sealer[t]
  BY <1>1, <1>2, <1>3
<1>5. OneSealer'
  <2>1. \A t \in Sealers : t # s => ~ Holding(t)'
    BY <1>1, <1>4 DEF Holding
  <2>2. Len(sealer'[s].batch) = 0
    BY <1>3, <1>4
  <2> QED
    BY <1>1, <1>2, <1>3, <1>4, <2>1, <2>2, WaitingSame DEF OneSealer
<1> QED
  BY <1>1, <1>4, <1>5, SealerStep

(* The rows of a batch are waiting, and each is in it once.                    *)
LEMMA BatchIs ==
  ASSUME IsFiniteSet(Present), NEW b \in Batches
  PROVE  /\ b \in Seq(Events) /\ \A i \in 1 .. Len(b) : b[i] \in Waiting
         /\ \A i, j \in 1 .. Len(b) : b[i] = b[j] => i = j
<1> DEFINE size == IF Cardinality(Free) < Limit THEN Cardinality(Free) ELSE Limit
<1>1. PICK S \in kSubset(size, Free) : b \in SetToSeqs(S)
  BY DEF Batches
<1>2. S \in SUBSET Waiting /\ Waiting \in SUBSET Present /\ Waiting \subseteq Events
  BY <1>1 DEF kSubset, Free, Waiting, Present
<1>3. IsFiniteSet(S) /\ Cardinality(S) \in Nat
  <2>1. S \in SUBSET Present
    BY <1>2
  <2>2. IsFiniteSet(S)
    BY <2>1, FS_Subset
  <2> QED
    BY <2>2, FS_CardinalityType
<1>4. /\ b \in [1 .. Cardinality(S) -> S]
      /\ \A i, j \in 1 .. Cardinality(S) : i # j => b[i] # b[j]
  BY <1>1 DEF SetToSeqs
<1>5. b \in Seq(S) /\ Len(b) = Cardinality(S)
  BY <1>3, <1>4
<1>6. b \in Seq(Events)
  <2>1. b \in [1 .. Cardinality(S) -> Events]
    BY <1>2, <1>4
  <2> QED
    BY <1>3, <2>1
<1> QED
  BY <1>2, <1>4, <1>5, <1>6

LEMMA FetchKeeps ==
  ASSUME ChainInv, NEW s \in Sealers, FetchRows(s)
  PROVE  ChainInv'
<1>1. PICK b \in Batches : sealer' = [sealer EXCEPT ![s] = [at |-> "fetched", head |-> sealer[s].head, batch |-> b]]
  BY DEF FetchRows
<1> DEFINE q == [at |-> "fetched", head |-> sealer[s].head, batch |-> b]
<1>2. sealer[s].at = "locked" /\ UNCHANGED <<content, link, head, damage, reader>>
  BY DEF FetchRows
<1>3. sealer \in [Sealers -> SealerOf] /\ sealer[s] \in SealerOf /\ OneSealer /\ IsFiniteSet(Present)
  BY DEF ChainInv, ChainTyped
<1>4. /\ b \in Seq(Events) /\ \A i \in 1 .. Len(b) : b[i] \in Waiting
      /\ \A i, j \in 1 .. Len(b) : b[i] = b[j] => i = j
  BY <1>3, BatchIs
<1>5. Holding(s) /\ sealer[s].head = head
  BY <1>2, <1>3 DEF Holding, OneSealer
<1>6. q \in SealerOf /\ q.at = "fetched" /\ q.batch = b /\ q.head = head
  BY <1>3, <1>4, <1>5 DEF SealerOf
<1>7. sealer' = [sealer EXCEPT ![s] = q]
  BY <1>1
<1> HIDE DEF q
<1>8. sealer' \in [Sealers -> SealerOf] /\ sealer'[s] = q /\ \A t \in Sealers : t # s => sealer'[t] = sealer[t]
  BY <1>3, <1>6, <1>7
<1>9. OneSealer'
  <2>1. \A t \in Sealers : t # s => ~ Holding(t)'
    BY <1>3, <1>5, <1>8 DEF OneSealer, Holding
  <2>2. Waiting' = Waiting /\ head' = head
    BY <1>2, WaitingSame
  <2>3. ASSUME NEW t \in Sealers
        PROVE /\ Holding(t)' => sealer'[t].head = head
              /\ sealer'[t].at # "fetched" => sealer'[t].batch = <<>>
              /\ \A i \in 1 .. Len(sealer'[t].batch) : sealer'[t].batch[i] \in Waiting
              /\ \A i, j \in 1 .. Len(sealer'[t].batch) : sealer'[t].batch[i] = sealer'[t].batch[j] => i = j
    <3>1. CASE t = s
      BY <1>4, <1>6, <1>8, <3>1
    <3>2. CASE t # s
      BY <1>3, <1>8, <2>1, <3>2 DEF OneSealer
    <3> QED
      BY <3>1, <3>2
  <2> QED
    BY <2>1, <2>2, <2>3 DEF OneSealer
<1> QED
  BY <1>2, <1>8, <1>9, SealerStep

LEMMA AbortKeeps ==
  ASSUME ChainInv, NEW s \in Sealers, AbortSeal(s)
  PROVE  ChainInv'
<1>1. UNCHANGED <<content, link, head, damage, reader>> /\ sealer' = [sealer EXCEPT ![s] = IdleSealer]
  BY DEF AbortSeal
<1>2. sealer \in [Sealers -> SealerOf] /\ OneSealer
  BY DEF ChainInv, ChainTyped
<1>3. /\ sealer' \in [Sealers -> SealerOf] /\ sealer'[s] = IdleSealer
      /\ \A t \in Sealers : t # s => sealer'[t] = sealer[t]
  BY <1>1, <1>2, IdleSealerIs
<1>4. OneSealer'
  <2>1. ~ Holding(s)' /\ Len(sealer'[s].batch) = 0 /\ sealer'[s].batch = <<>>
    BY <1>3, IdleSealerIs DEF Holding
  <2> QED
    BY <1>1, <1>2, <1>3, <2>1, WaitingSame DEF OneSealer, Holding
<1> QED
  BY <1>1, <1>3, <1>4, SealerStep

-----------------------------------------------------------------------------
(* Sealing a batch makes the head's hash longer by its rows.                   *)
Longer(b) == head.hash \o [j \in 1 .. Len(b) |-> <<b[j], "written">>]
LongerUpTo(b, i) == [k \in 1 .. i |-> Longer(b)[k]]
LongerSealed(b, i) == Longer(b)[i][1]
Sealable(b) ==
  /\ b \in Seq(Events)
  /\ \A i \in 1 .. Len(b) : b[i] \in Waiting
  /\ \A i, j \in 1 .. Len(b) : b[i] = b[j] => i = j

LEMMA JoinIs ==
  ASSUME NEW p \in Seq(Bodies), NEW q \in Seq(Bodies)
  PROVE  /\ p \o q \in Seq(Bodies) /\ Len(p \o q) = Len(p) + Len(q)
         /\ \A k \in 1 .. Len(p) : (p \o q)[k] = p[k]
         /\ \A j \in 1 .. Len(q) : (p \o q)[Len(p) + j] = q[j]
<1>1. p \o q \in Seq(Bodies) /\ Len(p \o q) = Len(p) + Len(q) /\ Len(p) \in Nat /\ Len(q) \in Nat
  OBVIOUS
<1>2. ASSUME NEW k \in 1 .. Len(p) PROVE (p \o q)[k] = p[k]
  BY <1>1
<1>3. ASSUME NEW j \in 1 .. Len(q) PROVE (p \o q)[Len(p) + j] = q[j]
  <2>1. Len(p) + j \in 1 .. Len(p) + Len(q) /\ Len(p) + j > Len(p) /\ (Len(p) + j) - Len(p) = j
    BY <1>1
  <2>2. (p \o q)[Len(p) + j] = q[(Len(p) + j) - Len(p)]
    BY <1>1, <2>1
  <2> QED
    BY <2>1, <2>2
<1> QED
  BY <1>1, <1>2, <1>3

LEMMA AppendIs ==
  ASSUME NEW p \in Seq(Bodies), NEW x \in Bodies
  PROVE  /\ Append(p, x) \in Seq(Bodies) /\ Len(Append(p, x)) = Len(p) + 1
         /\ \A k \in 1 .. Len(p) : Append(p, x)[k] = p[k]
         /\ Append(p, x)[Len(p) + 1] = x
OBVIOUS

LEMMA LongerIs ==
  ASSUME ChainTyped, NEW b, Sealable(b)
  PROVE  /\ Longer(b) \in Seq(Bodies) /\ Len(Longer(b)) = head.seq + Len(b)
         /\ \A i \in 1 .. head.seq : Longer(b)[i] = head.hash[i]
         /\ \A j \in 1 .. Len(b) : Longer(b)[head.seq + j] = <<b[j], "written">>
<1> DEFINE t == [j \in 1 .. Len(b) |-> <<b[j], "written">>]
<1>1. head.hash \in Seq(Bodies) /\ Len(head.hash) = head.seq /\ head.seq \in Nat /\ b \in Seq(Events) /\ Len(b) \in Nat
  BY DEF ChainTyped, Links, Sealable
<1>2. \A j \in 1 .. Len(b) : <<b[j], "written">> \in Bodies
  BY <1>1 DEF Bodies
<1>3. t \in [1 .. Len(b) -> Bodies]
  BY <1>2
<1>4. t \in Seq(Bodies) /\ Len(t) = Len(b)
  BY <1>1, <1>3
<1>5. \A j \in 1 .. Len(b) : t[j] = <<b[j], "written">>
  OBVIOUS
<1>6. Longer(b) = head.hash \o t
  BY DEF Longer
<1> HIDE DEF t
<1>10. /\ head.hash \o t \in Seq(Bodies) /\ Len(head.hash \o t) = head.seq + Len(b)
       /\ \A k \in 1 .. head.seq : (head.hash \o t)[k] = head.hash[k]
       /\ \A j \in 1 .. Len(b) : (head.hash \o t)[head.seq + j] = t[j]
  <2> DEFINE p == head.hash
  <2>1. p \in Seq(Bodies) /\ t \in Seq(Bodies) /\ Len(p) = head.seq /\ Len(t) = Len(b)
    BY <1>1, <1>4
  <2> HIDE DEF p
  <2>2. /\ p \o t \in Seq(Bodies) /\ Len(p \o t) = Len(p) + Len(t)
        /\ \A k \in 1 .. Len(p) : (p \o t)[k] = p[k]
        /\ \A j \in 1 .. Len(t) : (p \o t)[Len(p) + j] = t[j]
    BY <2>1, JoinIs
  <2>3. /\ p \o t \in Seq(Bodies) /\ Len(p \o t) = head.seq + Len(b)
        /\ \A k \in 1 .. head.seq : (p \o t)[k] = p[k]
        /\ \A j \in 1 .. Len(b) : (p \o t)[head.seq + j] = t[j]
    BY <2>1, <2>2
  <2> QED
    BY <2>3 DEF p
<1>7. Longer(b) \in Seq(Bodies) /\ Len(Longer(b)) = head.seq + Len(b)
  BY <1>6, <1>10
<1>8. ASSUME NEW i \in 1 .. head.seq PROVE Longer(b)[i] = head.hash[i]
  BY <1>6, <1>10
<1>9. ASSUME NEW j \in 1 .. Len(b) PROVE Longer(b)[head.seq + j] = <<b[j], "written">>
  BY <1>5, <1>6, <1>10
<1> QED
  BY <1>7, <1>8, <1>9

LEMMA WaitingRow ==
  ASSUME ChainTyped, ChainHolds, NEW e \in Waiting
  PROVE  e \in Events /\ content[e] = "written" /\ link[e] = Unsealed /\ link[e].seq = 0
BY DEF ChainTyped, ChainHolds, OthersWait, Waiting, Chained, Present

LEMMA LinkAtIs ==
  ASSUME ChainTyped, ChainHolds, NEW b, Sealable(b), NEW i \in 1 .. Len(b)
  PROVE  LinkAt(head, b, i) = [seq |-> head.seq + i, prev |-> LongerUpTo(b, head.seq + i - 1), hash |-> LongerUpTo(b, head.seq + i)]
<1> DEFINE u == BodiesUpTo(b, i - 1)
           before == head.hash \o u
<1>1. head.hash \in Seq(Bodies) /\ Len(head.hash) = head.seq /\ head.seq \in Nat /\ b \in Seq(Events) /\ i \in Nat /\ i >= 1
  BY DEF ChainTyped, Links, Sealable
<1>2. \A j \in 1 .. Len(b) : b[j] \in Events /\ content[b[j]] = "written"
  BY WaitingRow DEF Sealable
<1>3. \A j \in 1 .. i - 1 : Body(b[j], content[b[j]]) = <<b[j], "written">> /\ <<b[j], "written">> \in Bodies
  BY <1>1, <1>2 DEF Body, Bodies
<1>4. u \in [1 .. i - 1 -> Bodies] /\ \A j \in 1 .. i - 1 : u[j] = <<b[j], "written">>
  BY <1>3 DEF BodiesUpTo
<1>5. u \in Seq(Bodies) /\ Len(u) = i - 1
  BY <1>1, <1>4
<1> HIDE DEF u
<1>6. /\ before \in Seq(Bodies) /\ Len(before) = head.seq + i - 1
      /\ \A k \in 1 .. head.seq : before[k] = head.hash[k]
      /\ \A j \in 1 .. i - 1 : before[head.seq + j] = u[j]
  <2>1. /\ before \in Seq(Bodies) /\ Len(before) = head.seq + (i - 1)
        /\ \A k \in 1 .. head.seq : before[k] = head.hash[k]
        /\ \A j \in 1 .. i - 1 : before[head.seq + j] = u[j]
    <3> DEFINE p == head.hash
    <3>1. p \in Seq(Bodies) /\ u \in Seq(Bodies) /\ Len(p) = head.seq /\ Len(u) = i - 1
      BY <1>1, <1>5
    <3> HIDE DEF p
    <3>2. /\ p \o u \in Seq(Bodies) /\ Len(p \o u) = Len(p) + Len(u)
          /\ \A k \in 1 .. Len(p) : (p \o u)[k] = p[k]
          /\ \A j \in 1 .. Len(u) : (p \o u)[Len(p) + j] = u[j]
      BY <3>1, JoinIs
    <3>3. /\ p \o u \in Seq(Bodies) /\ Len(p \o u) = head.seq + (i - 1)
          /\ \A k \in 1 .. head.seq : (p \o u)[k] = p[k]
          /\ \A j \in 1 .. i - 1 : (p \o u)[head.seq + j] = u[j]
      BY <3>1, <3>2
    <3> QED
      BY <3>3 DEF p
  <2> QED
    BY <1>1, <2>1
<1> HIDE DEF before
<1>7. \A k \in 1 .. head.seq + i - 1 : before[k] = Longer(b)[k]
  <2> SUFFICES ASSUME NEW k \in 1 .. head.seq + i - 1 PROVE before[k] = Longer(b)[k]
    OBVIOUS
  <2>1. CASE k <= head.seq
    <3>1. k \in 1 .. head.seq
      BY <1>1, <2>1
    <3>2. before[k] = head.hash[k]
      BY <1>6, <3>1
    <3> QED
      BY <3>1, <3>2, LongerIs
  <2>2. CASE k > head.seq
    <3>1. PICK j \in 1 .. i - 1 : k = head.seq + j
      <4>1. k - head.seq \in 1 .. i - 1 /\ k = head.seq + (k - head.seq)
        BY <1>1, <2>2
      <4> QED
        BY <4>1
    <3>2. before[k] = u[j]
      BY <1>6, <3>1
    <3>3. j \in 1 .. Len(b)
      BY <1>1
    <3> QED
      BY <1>4, <3>1, <3>2, <3>3, LongerIs
  <2> QED
    BY <1>1, <2>1, <2>2
<1>8. before = LongerUpTo(b, head.seq + i - 1)
  BY <1>1, <1>6, <1>7 DEF LongerUpTo
<1>9. RowHash(before, b[i], content[b[i]]) = Append(before, <<b[i], "written">>) /\ <<b[i], "written">> \in Bodies
  BY <1>2 DEF RowHash, Body, Bodies
<1>10. Append(before, <<b[i], "written">>) = LongerUpTo(b, head.seq + i)
  <2> DEFINE v == Append(before, <<b[i], "written">>)
  <2>0. /\ v \in Seq(Bodies) /\ Len(v) = Len(before) + 1
        /\ \A k \in 1 .. Len(before) : v[k] = before[k]
        /\ v[Len(before) + 1] = <<b[i], "written">>
    BY <1>6, <1>9, AppendIs
  <2>1. v \in Seq(Bodies) /\ Len(v) = head.seq + i /\ Len(before) + 1 = head.seq + i
    BY <1>1, <1>6, <2>0
  <2>2. ASSUME NEW k \in 1 .. head.seq + i PROVE v[k] = Longer(b)[k]
    <3>1. CASE k = head.seq + i
      <4>1. v[k] = <<b[i], "written">>
        BY <2>0, <2>1, <3>1
      <4> QED
        BY <3>1, <4>1, LongerIs
    <3>2. CASE k # head.seq + i
      <4>1. k \in 1 .. head.seq + i - 1
        BY <1>1, <3>2
      <4>2. v[k] = before[k]
        BY <1>6, <2>0, <4>1
      <4> QED
        BY <1>7, <4>1, <4>2
    <3> QED
      BY <3>1, <3>2
  <2> HIDE DEF v
  <2>3. v = [k \in 1 .. head.seq + i |-> Longer(b)[k]]
    BY <1>1, <2>1, <2>2
  <2> QED
    BY <2>3 DEF LongerUpTo, v
<1>11. LinkAt(head, b, i) = [seq |-> head.seq + i, prev |-> before, hash |-> RowHash(before, b[i], content[b[i]])]
  BY DEF LinkAt, u, before
<1> QED
  BY <1>8, <1>9, <1>10, <1>11

(* The whole chain after a commit, with the batch and without.                 *)
LEMMA CommitIs ==
  ASSUME ChainTyped, ChainHolds, NEW s \in Sealers, CommitSeal(s), NEW b, b = sealer[s].batch, sealer[s].head = head, Sealable(b)
  PROVE  /\ head' = [seq |-> head.seq + Len(b), prev |-> head'.prev, hash |-> Longer(b)]
         /\ head' \in Links
         /\ \A j \in 1 .. Len(b) :
              link'[b[j]] = [seq |-> head.seq + j, prev |-> LongerUpTo(b, head.seq + j - 1), hash |-> LongerUpTo(b, head.seq + j)]
         /\ \A e \in Events : (\A j \in 1 .. Len(b) : b[j] # e) => link'[e] = link[e]
<1>1. /\ link' = [e \in Events |-> IF InBatch(s, e) THEN LinkAt(head, b, CHOOSE i \in 1 .. Len(b) : b[i] = e) ELSE link[e]]
      /\ head' = IF Len(b) = 0 THEN head ELSE LinkAt(head, b, Len(b))
  BY DEF CommitSeal
<1>2. head.hash \in Seq(Bodies) /\ Len(head.hash) = head.seq /\ head.seq \in Nat /\ b \in Seq(Events) /\ Len(b) \in Nat /\ head \in Links
  BY DEF ChainTyped, Links, Sealable
<1>3. \A e : InBatch(s, e) <=> \E j \in 1 .. Len(b) : b[j] = e
  BY <1>2 DEF InBatch
<1>4. ASSUME NEW j \in 1 .. Len(b)
      PROVE link'[b[j]] = [seq |-> head.seq + j, prev |-> LongerUpTo(b, head.seq + j - 1), hash |-> LongerUpTo(b, head.seq + j)]
  <2>1. b[j] \in Events /\ InBatch(s, b[j])
    BY <1>2, <1>3
  <2>2. (CHOOSE i \in 1 .. Len(b) : b[i] = b[j]) = j
    BY DEF Sealable
  <2>3. link'[b[j]] = LinkAt(head, b, j)
    BY <1>1, <2>1, <2>2
  <2> QED
    BY <2>3, LinkAtIs
<1>5. Longer(b) \in Seq(Bodies) /\ Len(Longer(b)) = head.seq + Len(b)
  BY LongerIs
<1>6. ASSUME NEW i \in Nat, i <= head.seq + Len(b) PROVE LongerUpTo(b, i) \in Seq(Bodies)
  <2>1. \A k \in 1 .. i : Longer(b)[k] \in Bodies
    BY <1>2, <1>5, <1>6
  <2>2. LongerUpTo(b, i) \in [1 .. i -> Bodies]
    BY <2>1 DEF LongerUpTo
  <2> QED
    BY <2>2
<1>7. LongerUpTo(b, head.seq + Len(b)) = Longer(b)
  BY <1>2, <1>5 DEF LongerUpTo
<1>8. CASE Len(b) = 0
  <2>1. head' = head
    BY <1>1, <1>8
  <2>2. \A k \in 1 .. head.seq : Longer(b)[k] = head.hash[k]
    BY LongerIs
  <2>3. Longer(b) = head.hash
    BY <1>2, <1>5, <1>8, <2>2
  <2>4. head = [seq |-> head.seq + Len(b), prev |-> head.prev, hash |-> Longer(b)]
    BY <1>2, <1>8, <2>3 DEF Links
  <2> QED
    BY <1>1, <1>2, <1>3, <1>4, <2>1, <2>4
<1>9. CASE Len(b) # 0
  <2>1. Len(b) \in 1 .. Len(b) /\ head.seq + Len(b) - 1 \in Nat /\ head.seq + Len(b) \in Nat
    BY <1>2, <1>9
  <2>2. head' = [seq |-> head.seq + Len(b), prev |-> LongerUpTo(b, head.seq + Len(b) - 1), hash |-> LongerUpTo(b, head.seq + Len(b))]
    BY <1>1, <1>9, <2>1, LinkAtIs
  <2>3. LongerUpTo(b, head.seq + Len(b) - 1) \in Seq(Bodies)
    BY <1>2, <1>6, <2>1
  <2>4. head' \in Links
    BY <1>5, <1>7, <2>1, <2>2, <2>3 DEF Links
  <2> QED
    BY <1>1, <1>3, <1>4, <1>7, <2>2, <2>4
<1> QED
  BY <1>8, <1>9

LEMMA PlacesAfter ==
  ASSUME ChainTyped, ChainHolds, NEW s \in Sealers, CommitSeal(s), NEW b, b = sealer[s].batch, sealer[s].head = head, Sealable(b)
  PROVE  /\ head.seq \in Nat /\ Len(b) \in Nat /\ head'.seq = head.seq + Len(b) /\ head'.hash = Longer(b) /\ head' \in Links
         /\ \A i \in 1 .. head.seq : LongerSealed(b, i) = Sealed(i) /\ link'[Sealed(i)] = link[Sealed(i)]
         /\ \A i \in 1 .. head.seq, j \in 1 .. Len(b) : Sealed(i) # b[j]
         /\ \A j \in 1 .. Len(b) :
              /\ LongerSealed(b, head.seq + j) = b[j] /\ content[b[j]] = "written"
              /\ link'[b[j]] = [seq |-> head.seq + j, prev |-> LongerUpTo(b, head.seq + j - 1), hash |-> LongerUpTo(b, head.seq + j)]
         /\ \A e \in Events : (\A j \in 1 .. Len(b) : b[j] # e) => link'[e] = link[e]
         /\ \A i : UpTo(i)' = LongerUpTo(b, i) /\ Sealed(i)' = LongerSealed(b, i)
         /\ \A i \in 0 .. head.seq : UpTo(i) = LongerUpTo(b, i)
<1>0. head.seq \in Nat /\ Len(b) \in Nat /\ b \in Seq(Events) /\ content' = content
  BY DEF ChainTyped, Links, Sealable, CommitSeal
<1>1. head'.seq = head.seq + Len(b) /\ head'.hash = Longer(b) /\ head' \in Links
  <2>1. head' = [seq |-> head.seq + Len(b), prev |-> head'.prev, hash |-> Longer(b)] /\ head' \in Links
    BY CommitIs
  <2> QED
    BY <2>1
<1>2. ASSUME NEW j \in 1 .. Len(b)
      PROVE  link'[b[j]] = [seq |-> head.seq + j, prev |-> LongerUpTo(b, head.seq + j - 1), hash |-> LongerUpTo(b, head.seq + j)]
  BY CommitIs
<1>3. ASSUME NEW e \in Events, \A j \in 1 .. Len(b) : b[j] # e PROVE link'[e] = link[e]
  BY <1>3, CommitIs
<1>4. ASSUME NEW i \in 1 .. head.seq, NEW j \in 1 .. Len(b) PROVE Sealed(i) # b[j]
  <2>1. link[b[j]].seq = 0
    BY WaitingRow DEF Sealable
  <2>2. link[Sealed(i)].seq = i /\ i # 0
    BY DEF ChainHolds, RowsLinked
  <2> QED
    BY <2>1, <2>2
<1>5. ASSUME NEW i \in 1 .. head.seq PROVE LongerSealed(b, i) = Sealed(i) /\ link'[Sealed(i)] = link[Sealed(i)]
  <2>1. Longer(b)[i] = head.hash[i]
    BY LongerIs
  <2>2. Sealed(i) \in Events
    BY PlaceIs
  <2> QED
    BY <1>3, <1>4, <2>1, <2>2 DEF Sealed, LongerSealed
<1>6. ASSUME NEW j \in 1 .. Len(b) PROVE LongerSealed(b, head.seq + j) = b[j] /\ content[b[j]] = "written"
  <2>1. Longer(b)[head.seq + j] = <<b[j], "written">>
    BY LongerIs
  <2>2. content[b[j]] = "written"
    BY WaitingRow DEF Sealable
  <2> QED
    BY <2>1, <2>2 DEF LongerSealed
<1>7. \A i : UpTo(i)' = LongerUpTo(b, i) /\ Sealed(i)' = LongerSealed(b, i)
  BY <1>1 DEF UpTo, LongerUpTo, Sealed, LongerSealed
<1>8. ASSUME NEW i \in 0 .. head.seq PROVE UpTo(i) = LongerUpTo(b, i)
  <2>1. \A k \in 1 .. i : Longer(b)[k] = head.hash[k]
    <3>1. \A k \in 1 .. i : k \in 1 .. head.seq
      BY <1>0
    <3> QED
      BY <3>1, LongerIs
  <2> QED
    BY <2>1 DEF UpTo, LongerUpTo
<1> QED
  BY <1>0, <1>1, <1>2, <1>3, <1>4, <1>5, <1>6, <1>7, <1>8

LEMMA CommitHolds ==
  ASSUME ChainTyped, ChainHolds, NEW s \in Sealers, CommitSeal(s), NEW b, b = sealer[s].batch, sealer[s].head = head, Sealable(b)
  PROVE  ChainHolds'
<1> DEFINE N == head.seq
           n == Len(b)
           L(i) == LongerSealed(b, i)
           U(i) == LongerUpTo(b, i)
<1>0. /\ N \in Nat /\ n \in Nat /\ head'.seq = N + n /\ content' = content /\ damage' = damage
      /\ \A i : Sealed(i)' = L(i) /\ UpTo(i)' = U(i)
  <2>1. content' = content /\ damage' = damage
    BY DEF CommitSeal
  <2> QED
    BY <2>1, PlacesAfter
<1>1. ASSUME NEW i \in 1 .. N
      PROVE  L(i) = Sealed(i) /\ link'[Sealed(i)] = link[Sealed(i)] /\ U(i) = UpTo(i) /\ U(i - 1) = UpTo(i - 1) /\ i \in 1 .. N + n
  <2>1. i \in 0 .. N /\ i - 1 \in 0 .. N
    BY <1>0
  <2> QED
    BY <1>0, <2>1, PlacesAfter
<1>2. ASSUME NEW j \in 1 .. n, NEW i, i = N + j
      PROVE  /\ L(i) = b[j] /\ content[b[j]] = "written"
             /\ link'[b[j]].seq = i /\ link'[b[j]].prev = U(i - 1) /\ link'[b[j]].hash = U(i)
  <2>1. /\ L(N + j) = b[j] /\ content[b[j]] = "written"
        /\ link'[b[j]] = [seq |-> N + j, prev |-> U(N + j - 1), hash |-> U(N + j)]
    BY PlacesAfter
  <2> HIDE DEF N, n, L, U
  <2>2. link'[b[j]].seq = N + j /\ link'[b[j]].prev = U(N + j - 1) /\ link'[b[j]].hash = U(N + j)
    BY <2>1
  <2>3. N + j = i /\ N + j - 1 = i - 1
    BY <1>0, <1>2
  <2>4. U(N + j) = U(i) /\ U(N + j - 1) = U(i - 1) /\ L(N + j) = L(i)
    BY <2>3
  <2> QED
    BY <2>1, <2>2, <2>3, <2>4
<1>3. ASSUME NEW i \in 1 .. N + n, i \notin 1 .. N PROVE \E j \in 1 .. n : i = N + j
  <2>1. i - N \in 1 .. n /\ i = N + (i - N)
    BY <1>0, <1>3
  <2> QED
    BY <2>1
<1>4. ASSUME NEW i \in 1 .. N, NEW j \in 1 .. n PROVE Sealed(i) # b[j]
  BY PlacesAfter
<1> HIDE DEF N, n, L, U
<1>5. RowsApart'
  <2> SUFFICES ASSUME NEW i \in 1 .. N + n, NEW k \in 1 .. N + n, L(i) = L(k) PROVE i = k
    BY <1>0 DEF RowsApart
  <2>1. CASE i \in 1 .. N /\ k \in 1 .. N
    BY <1>1, <2>1 DEF ChainHolds, RowsApart, N
  <2>2. CASE i \in 1 .. N /\ k \notin 1 .. N
    <3>1. PICK j \in 1 .. n : k = N + j
      BY <1>3, <2>2
    <3> QED
      BY <1>1, <1>2, <1>4, <2>2, <3>1
  <2>3. CASE i \notin 1 .. N /\ k \in 1 .. N
    <3>1. PICK j \in 1 .. n : i = N + j
      BY <1>3, <2>3
    <3> QED
      BY <1>1, <1>2, <1>4, <2>3, <3>1
  <2>4. CASE i \notin 1 .. N /\ k \notin 1 .. N
    <3>1. PICK j \in 1 .. n : i = N + j
      BY <1>3, <2>4
    <3>2. PICK l \in 1 .. n : k = N + l
      BY <1>3, <2>4
    <3>3. b[j] = b[l]
      BY <1>2, <3>1, <3>2
    <3> QED
      BY <3>1, <3>2, <3>3 DEF Sealable, n
  <2> QED
    BY <2>1, <2>2, <2>3, <2>4
<1>6. RowsLinked'
  <2> SUFFICES ASSUME NEW i \in 1 .. N + n
               PROVE  link'[L(i)].seq = i /\ link'[L(i)].prev = U(i - 1) /\ link'[L(i)].hash = U(i)
    BY <1>0 DEF RowsLinked
  <2>1. CASE i \in 1 .. N
    <3>1. link[Sealed(i)].seq = i /\ link[Sealed(i)].prev = UpTo(i - 1) /\ link[Sealed(i)].hash = UpTo(i)
      BY <2>1 DEF ChainHolds, RowsLinked, N
    <3> QED
      BY <1>1, <2>1, <3>1
  <2>2. CASE i \notin 1 .. N
    <3>1. PICK j \in 1 .. n : i = N + j
      BY <1>3, <2>2
    <3> QED
      BY <1>2, <3>1
  <2> QED
    BY <2>1, <2>2
<1>9. \A e : link'[e].seq \in Nat => head'.hash[link'[e].seq][1] = L(link'[e].seq)
  <2>1. \A i : head'.hash[i][1] = L(i)
    BY <1>0 DEF Sealed
  <2> QED
    BY <2>1
<1>7. OthersWait'
  <2> SUFFICES ASSUME NEW e \in Events
               PROVE  IF link'[e].seq = 0 THEN link'[e] = Unsealed /\ content[e] # "edited"
                      ELSE link'[e].seq \in 1 .. N + n /\ L(link'[e].seq) = e
    BY <1>0, <1>9 DEF OthersWait, Unsealed, Genesis, Sealed
  <2>1. CASE \E j \in 1 .. n : b[j] = e
    <3>1. PICK j \in 1 .. n : b[j] = e
      BY <2>1
    <3>4. PICK i : i = N + j
      OBVIOUS
    <3>2. link'[e].seq = i /\ L(i) = e
      BY <1>2, <3>1, <3>4
    <3>3. i \in 1 .. N + n /\ i # 0
      BY <1>0, <3>4
    <3> QED
      BY <3>2, <3>3
  <2>2. CASE \A j \in 1 .. n : b[j] # e
    <3>1. link'[e] = link[e]
      BY <2>2, PlacesAfter DEF n
    <3>2. IF link[e].seq = 0 THEN link[e] = Unsealed /\ content[e] # "edited"
          ELSE link[e].seq \in 1 .. N /\ Sealed(link[e].seq) = e
      BY DEF ChainHolds, OthersWait, N
    <3>3. PICK k : k = link[e].seq
      OBVIOUS
    <3>4. k # 0 => k \in 1 .. N /\ Sealed(k) = e /\ L(k) = Sealed(k) /\ k \in 1 .. N + n
      BY <1>0, <1>1, <3>2, <3>3
    <3> QED
      BY <3>1, <3>2, <3>3, <3>4
  <2> QED
    BY <2>1, <2>2
<1>8. DamageIs'
  <2>1. damage = {i \in 1 .. N : content[Sealed(i)] # "written"}
    BY DEF ChainHolds, DamageIs, N
  <2>2. ASSUME NEW i \in 1 .. N + n PROVE i \in damage <=> content[L(i)] # "written"
    <3>1. CASE i \in 1 .. N
      BY <1>1, <2>1, <3>1
    <3>2. CASE i \notin 1 .. N
      <4>1. PICK j \in 1 .. n : i = N + j
        BY <1>3, <3>2
      <4> QED
        BY <1>2, <2>1, <3>2, <4>1
    <3> QED
      BY <3>1, <3>2
  <2>3. damage = {i \in 1 .. N + n : content[L(i)] # "written"}
    BY <1>0, <2>1, <2>2
  <2> QED
    BY <1>0, <2>3 DEF DamageIs
<1> QED
  BY <1>5, <1>6, <1>7, <1>8 DEF ChainHolds

LEMMA CommitKeeps ==
  ASSUME ChainInv, NEW s \in Sealers, CommitSeal(s)
  PROVE  ChainInv'
<1>1. PICK b : b = sealer[s].batch
  OBVIOUS
<1>2. /\ ChainTyped /\ ChainHolds /\ IsFiniteSet(Present) /\ OneSealer /\ HalfRead /\ ReportIsTrue
      /\ sealer \in [Sealers -> SealerOf] /\ sealer[s] \in SealerOf /\ reader \in ReaderOf
  BY DEF ChainInv, ChainTyped
<1>3. Holding(s) /\ sealer[s].head = head /\ Sealable(b)
  BY <1>1, <1>2 DEF CommitSeal, Holding, OneSealer, Sealable, SealerOf
<1>4. ChainHolds'
  BY <1>1, <1>2, <1>3, CommitHolds
<1>5. head.seq \in Nat /\ Len(b) \in Nat /\ head'.seq = head.seq + Len(b) /\ head'.hash = Longer(b) /\ head' \in Links
  BY <1>1, <1>2, <1>3, PlacesAfter
<1>6. /\ sealer' = [sealer EXCEPT ![s] = IdleSealer] /\ content' = content
      /\ reader' = [reader EXCEPT !.sealed = reader.sealed \/ Len(b) # 0]
      /\ Len(b) = 0 => head' = head
  BY <1>1 DEF CommitSeal
<1>7. /\ sealer' \in [Sealers -> SealerOf] /\ sealer'[s] = IdleSealer
      /\ \A t \in Sealers : t # s => sealer'[t] = sealer[t]
  BY <1>2, <1>6, IdleSealerIs
<1>8. /\ reader' \in ReaderOf' /\ reader'.sealed = (reader.sealed \/ Len(b) # 0)
      /\ reader'.at = reader.at /\ reader'.checked = reader.checked /\ reader'.last = reader.last /\ reader'.broken = reader.broken
      /\ reader'.unsealed = reader.unsealed /\ reader'.there = reader.there /\ reader'.harmed = reader.harmed
  <2>1. /\ reader'.sealed = (reader.sealed \/ Len(b) # 0) /\ reader'.last = reader.last
        /\ reader'.at = reader.at /\ reader'.checked = reader.checked /\ reader'.broken = reader.broken
        /\ reader'.unsealed = reader.unsealed /\ reader'.there = reader.there /\ reader'.harmed = reader.harmed
    BY <1>2, <1>6 DEF ReaderOf
  <2>2. reader.sealed \in BOOLEAN /\ (reader.sealed \/ Len(b) # 0) \in BOOLEAN
    BY <1>2 DEF ReaderOf
  <2>3. reader' \in ReaderOf'
    BY <1>2, <1>6, <2>1, <2>2 DEF ReaderOf
  <2> QED
    BY <2>1, <2>3
<1>9. ChainTyped'
  <2>1. head'.seq = Len(head'.hash)
    <3>1. Len(Longer(b)) = head.seq + Len(b)
      BY <1>2, <1>3, LongerIs
    <3> QED
      BY <1>5, <3>1
  <2>2. content' \in [Events -> {"none", "written", "edited"}]
    BY <1>2, <1>6 DEF ChainTyped
  <2> QED
    BY <1>5, <1>7, <1>8, <2>1, <2>2 DEF ChainTyped, SealerOf, Links, Bodies
<1>10. IsFiniteSet(Present)'
  BY <1>2, <1>6 DEF Present
<1>11. OneSealer'
  <2>1. ~ Holding(s)' /\ Len(sealer'[s].batch) = 0 /\ sealer'[s].batch = <<>>
    BY <1>7, IdleSealerIs DEF Holding
  <2>2. ASSUME NEW t \in Sealers, t # s
        PROVE ~ Holding(t)' /\ sealer'[t].batch = <<>> /\ Len(sealer'[t].batch) = 0
    <3>1. ~ Holding(t) /\ sealer[t].at # "fetched"
      BY <1>2, <1>3, <2>2 DEF OneSealer, Holding
    <3>2. sealer[t].batch = <<>>
      BY <1>2, <3>1 DEF OneSealer
    <3> QED
      BY <1>7, <2>2, <3>1, <3>2 DEF Holding
  <2> QED
    BY <2>1, <2>2 DEF OneSealer
<1>12. Len(b) = 0 => Waiting' = Waiting
  <2> SUFFICES ASSUME Len(b) = 0 PROVE Waiting' = Waiting
    OBVIOUS
  <2>1. \A e \in Events : link'[e] = link[e]
    BY <1>1, <1>2, <1>3, PlacesAfter
  <2> QED
    BY <1>6, <2>1 DEF Waiting, Chained, Present
<1>13. HalfRead'
  <2> SUFFICES ASSUME reader.at \in {"chain", "counted"} PROVE HalfRead'
    BY <1>8 DEF HalfRead
  <2>1. reader.checked \in Nat
    BY <1>2 DEF ReaderOf
  <2>2. /\ reader.checked <= head.seq /\ (reader.sealed => reader.checked < head.seq)
        /\ reader.harmed = {} => reader.broken = 0 /\ (reader.sealed \/ HeadAgrees)
        /\ reader.harmed # {} =>
             \/ reader.broken = Min(reader.harmed)
             \/ reader.broken = 0 /\ reader.checked + 1 = Min(reader.harmed) /\ reader.checked < head.seq
        /\ reader.sealed \/ reader.checked + (IF reader.at = "chain" THEN Cardinality(Waiting) ELSE reader.unsealed) >= reader.there
    BY <1>2 DEF HalfRead
  <2>3. reader'.checked <= head'.seq /\ (reader'.sealed => reader'.checked < head'.seq) /\ (reader.checked < head.seq => reader.checked < head'.seq)
    <3>1. head.seq <= head'.seq /\ head'.seq \in Nat /\ (Len(b) # 0 => head.seq < head'.seq)
      BY <1>5
    <3>2. reader.checked <= head'.seq /\ (reader.checked < head.seq => reader.checked < head'.seq)
          /\ (Len(b) # 0 => reader.checked < head'.seq)
      BY <1>5, <2>1, <2>2, <3>1
    <3> QED
      BY <1>8, <2>2, <3>2
  <2>4. reader.harmed = {} => reader'.broken = 0 /\ (reader'.sealed \/ HeadAgrees')
    BY <1>6, <1>8, <2>2 DEF HeadAgrees
  <2>5. reader'.sealed \/ reader'.checked + (IF reader'.at = "chain" THEN Cardinality(Waiting)' ELSE reader'.unsealed) >= reader'.there
    BY <1>8, <1>12, <2>2
  <2> QED
    BY <1>8, <2>2, <2>3, <2>4, <2>5 DEF HalfRead
<1>14. ReportIsTrue'
  BY <1>2, <1>8 DEF ReportIsTrue, DamageIsReported, CleanChainVerifies, OkAccountsForAll, Told
<1> QED
  BY <1>4, <1>9, <1>10, <1>11, <1>13, <1>14 DEF ChainInv

-----------------------------------------------------------------------------
(* The verification's steps.                                                   *)
LEMMA ReaderStep ==
  ASSUME ChainInv, UNCHANGED <<content, link, head, sealer, damage>>, reader' \in ReaderOf', HalfRead', ReportIsTrue'
  PROVE  ChainInv'
<1>1. ChainTyped'
  BY DEF ChainInv, ChainTyped, Links, Bodies, SealerOf
<1>2. ChainHolds' /\ IsFiniteSet(Present)' /\ Waiting' = Waiting
  BY RowsStay DEF ChainInv, ChainRows
<1>3. OneSealer'
  BY <1>2, SealersStay DEF ChainInv
<1> QED
  BY <1>1, <1>2, <1>3 DEF ChainInv

LEMMA ChainedWithin ==
  ASSUME ChainTyped, ChainHolds, IsFiniteSet(Present)
  PROVE  Cardinality(Chained) \in Nat /\ Cardinality(Chained) <= head.seq
<1> DEFINE T == {Sealed(j) : j \in 1 .. head.seq}
<1>1. head.seq \in 0 .. head.seq
  BY DEF ChainTyped, Links
<1>2. IsFiniteSet(T) /\ Cardinality(T) = head.seq
  BY <1>1, PlacesCount DEF ChainHolds
<1>3. Chained \in SUBSET T
  BY ChainedRow
<1> HIDE DEF T
<1>4. Cardinality(Chained) <= Cardinality(T)
  BY <1>2, <1>3, FS_Subset
<1> QED
  BY <1>2, <1>4, ChainedFinite

LEMMA ReadKeeps ==
  ASSUME ChainInv, ReadChain
  PROVE  ChainInv'
<1> DEFINE last == PrevOf(ByChainSeq, Len(ByChainSeq) + 1)
           broken == FirstBreak(ByChainSeq)
<1>1. /\ UNCHANGED <<content, link, head, sealer, damage>>
      /\ reader' = [at |-> "chain", checked |-> Len(ByChainSeq), last |-> last, broken |-> broken, unsealed |-> 0,
                    there |-> Cardinality(Present), harmed |-> damage, sealed |-> FALSE]
  BY DEF ReadChain
<1>2. ChainTyped /\ ChainHolds /\ IsFiniteSet(Present) /\ head.seq \in Nat
  BY DEF ChainInv, ChainTyped, Links
<1>3. damage \in SUBSET (Nat \ {0})
  BY <1>2 DEF ChainHolds, DamageIs
<1>4. /\ Len(ByChainSeq) = Cardinality(Chained) /\ Len(ByChainSeq) \in Nat /\ Len(ByChainSeq) <= head.seq
      /\ Cardinality(Waiting) \in Nat /\ Cardinality(Present) = Len(ByChainSeq) + Cardinality(Waiting)
      /\ Cardinality(Present) \in Nat
  <2>1. Cardinality(Chained) \in Nat /\ Cardinality(Chained) <= head.seq
    BY <1>2, ChainedWithin
  <2>2. Len(ByChainSeq) = Cardinality(Chained)
    BY <2>1 DEF ByChainSeq
  <2>3. Cardinality(Waiting) \in Nat /\ Cardinality(Present) = Cardinality(Chained) + Cardinality(Waiting)
    BY <1>2, ChainedFinite
  <2> QED
    BY <2>1, <2>2, <2>3
<1>5. damage = {} => broken = 0 /\ Len(ByChainSeq) = head.seq /\ last = head.hash
  BY <1>2, UntouchedVerifies
<1>6. damage # {} =>
        /\ Min(damage) \in 1 .. head.seq
        /\ broken = Min(damage) \/ (broken = 0 /\ Len(ByChainSeq) + 1 = Min(damage))
  BY <1>2, DamageFound
<1> HIDE DEF last, broken
<1>7. broken \in Nat
  BY <1>2, <1>5, <1>6
<1>8. reader' \in ReaderOf'
  BY <1>1, <1>3, <1>4, <1>7 DEF ReaderOf
<1>9. HalfRead'
  <2>1. Cardinality(Waiting)' = Cardinality(Waiting)
    BY <1>1, WaitingSame
  <2>2. damage = {} => HeadAgrees'
    BY <1>1, <1>5 DEF HeadAgrees
  <2>3. damage # {} => broken = Min(damage) \/ (broken = 0 /\ Len(ByChainSeq) + 1 = Min(damage) /\ Len(ByChainSeq) < head.seq)
    BY <1>2, <1>4, <1>6
  <2>4. Len(ByChainSeq) + Cardinality(Waiting) >= Cardinality(Present)
    BY <1>4
  <2>5. /\ reader'.at = "chain" /\ reader'.checked = Len(ByChainSeq) /\ reader'.broken = broken
        /\ reader'.there = Cardinality(Present) /\ reader'.harmed = damage /\ reader'.sealed = FALSE
    BY <1>1
  <2> QED
    BY <1>1, <1>4, <1>5, <2>1, <2>2, <2>3, <2>4, <2>5 DEF HalfRead
<1>10. ReportIsTrue'
  BY <1>1 DEF ReportIsTrue, DamageIsReported, CleanChainVerifies, OkAccountsForAll, Told
<1> QED
  BY <1>1, <1>8, <1>9, <1>10, ReaderStep

LEMMA CountKeeps ==
  ASSUME ChainInv, CountUnsealed
  PROVE  ChainInv'
<1>1. /\ UNCHANGED <<content, link, head, sealer, damage>> /\ reader.at = "chain"
      /\ reader' = [reader EXCEPT !.at = "counted", !.unsealed = Cardinality(Waiting)]
  BY DEF CountUnsealed
<1>2. reader \in ReaderOf /\ HalfRead /\ Cardinality(Waiting) \in Nat
  BY ChainedFinite DEF ChainInv, ChainTyped
<1>3. /\ reader'.at = "counted" /\ reader'.unsealed = Cardinality(Waiting) /\ reader'.checked = reader.checked
      /\ reader'.last = reader.last /\ reader'.broken = reader.broken /\ reader'.there = reader.there
      /\ reader'.harmed = reader.harmed /\ reader'.sealed = reader.sealed
  BY <1>1, <1>2 DEF ReaderOf
<1>4. reader' \in ReaderOf'
  BY <1>1, <1>2, <1>3 DEF ReaderOf
<1>5. HalfRead'
  BY <1>1, <1>2, <1>3 DEF HalfRead, HeadAgrees
<1>6. ReportIsTrue'
  BY <1>3 DEF ReportIsTrue, DamageIsReported, CleanChainVerifies, OkAccountsForAll, Told
<1> QED
  BY <1>1, <1>4, <1>5, <1>6, ReaderStep

LEMMA HeadKeeps ==
  ASSUME ChainInv, ReadHead
  PROVE  ChainInv'
<1>1. /\ UNCHANGED <<content, link, head, sealer, damage>> /\ reader.at = "counted"
      /\ reader' = [reader EXCEPT !.at = "told",
                                  !.broken = IF reader.broken = 0 /\ ~HeadAgrees THEN reader.checked + 1 ELSE reader.broken]
  BY DEF ReadHead
<1>2. /\ reader \in ReaderOf /\ HalfRead /\ head.seq \in Nat
      /\ reader.checked \in Nat /\ reader.broken \in Nat /\ reader.harmed \in SUBSET (Nat \ {0})
  BY DEF ChainInv, ChainTyped, Links, ReaderOf
<1>3. /\ reader'.at = "told" /\ reader'.unsealed = reader.unsealed /\ reader'.checked = reader.checked
      /\ reader'.broken = (IF reader.broken = 0 /\ ~HeadAgrees THEN reader.checked + 1 ELSE reader.broken)
      /\ reader'.last = reader.last /\ reader'.there = reader.there
      /\ reader'.harmed = reader.harmed /\ reader'.sealed = reader.sealed
  BY <1>1, <1>2 DEF ReaderOf
<1>4. reader' \in ReaderOf'
  <2>1. PICK b \in Nat : b = IF reader.broken = 0 /\ ~HeadAgrees THEN reader.checked + 1 ELSE reader.broken
    BY <1>2
  <2>2. reader' = [reader EXCEPT !.at = "told", !.broken = b]
    BY <1>1, <2>1
  <2> QED
    BY <1>2, <1>3, <2>2 DEF ReaderOf
<1>5. HalfRead'
  BY <1>3 DEF HalfRead
<1>6. DamageIsReported'
  <2> SUFFICES ASSUME reader.harmed # {} PROVE reader'.broken = Min(reader.harmed)
    BY <1>3 DEF DamageIsReported
  <2>1. Min(reader.harmed) \in reader.harmed
    <3>1. reader.harmed \in SUBSET Nat
      BY <1>2
    <3> QED
      BY <3>1, MinIs
  <2>2. Min(reader.harmed) # 0
    BY <1>2, <2>1
  <2>3. CASE reader.broken = Min(reader.harmed)
    BY <1>3, <2>2, <2>3
  <2>4. CASE reader.broken = 0 /\ reader.checked + 1 = Min(reader.harmed) /\ reader.checked < head.seq
    <3>1. ~ HeadAgrees
      BY <1>2, <2>4 DEF HeadAgrees
    <3> QED
      BY <1>3, <2>4, <3>1
  <2> QED
    BY <1>1, <1>2, <2>3, <2>4 DEF HalfRead
<1>7. CleanChainVerifies'
  <2> SUFFICES ASSUME reader.harmed = {}, ~ reader.sealed PROVE reader'.broken = 0
    BY <1>3 DEF CleanChainVerifies
  <2>1. reader.broken = 0 /\ HeadAgrees
    BY <1>1, <1>2 DEF HalfRead
  <2> QED
    BY <1>3, <2>1
<1>8. OkAccountsForAll'
  <2> SUFFICES ASSUME reader'.broken = 0 PROVE reader.checked + reader.unsealed >= reader.there
    BY <1>3 DEF OkAccountsForAll
  <2>1. HeadAgrees
    BY <1>2, <1>3
  <2>2. ~ reader.sealed
    BY <1>1, <1>2, <2>1 DEF HalfRead, HeadAgrees
  <2> QED
    BY <1>1, <1>2, <2>2 DEF HalfRead
<1> QED
  BY <1>1, <1>4, <1>5, <1>6, <1>7, <1>8, ReaderStep DEF ReportIsTrue

-----------------------------------------------------------------------------
LEMMA ChainStart == ASSUME ChainInit PROVE ChainInv
<1>1. content = [e \in Events |-> "none"] /\ link = [e \in Events |-> Unsealed] /\ head = Unsealed /\ damage = {}
      /\ sealer = [s \in Sealers |-> IdleSealer] /\ reader = NoReport
  BY DEF ChainInit
<1>2. Unsealed \in Links /\ Unsealed.seq = 0 /\ Len(Unsealed.hash) = 0
  BY DEF Unsealed, Genesis, Links
<1>3. reader \in ReaderOf /\ reader.at = "idle"
  BY <1>1 DEF NoReport, ReaderOf
<1>4. ChainTyped
  BY <1>1, <1>2, <1>3, IdleSealerIs DEF ChainTyped
<1>5. ChainHolds
  BY <1>1, <1>2 DEF ChainHolds, RowsApart, RowsLinked, OthersWait, DamageIs
<1>6. Present = {}
  BY <1>1 DEF Present
<1>7. IsFiniteSet(Present)
  BY <1>6, FS_EmptySet
<1>8. OneSealer
  BY <1>1, IdleSealerIs DEF OneSealer, Holding
<1>9. HalfRead /\ ReportIsTrue
  BY <1>3 DEF HalfRead, ReportIsTrue, DamageIsReported, CleanChainVerifies, OkAccountsForAll, Told
<1> QED
  BY <1>4, <1>5, <1>7, <1>8, <1>9 DEF ChainInv

LEMMA ChainStep == ASSUME ChainInv, [ChainNext]_chainVars PROVE ChainInv'
<1>1. ASSUME NEW e \in Events, RecordAudit(e) \/ EditSealed(e) \/ DeleteSealed(e) PROVE ChainInv'
  BY <1>1, RecordKeeps, DamageKeeps
<1>2. ASSUME NEW s \in Sealers, BeginSeal(s) \/ LockHead(s) \/ FetchRows(s) \/ CommitSeal(s) \/ AbortSeal(s) PROVE ChainInv'
  BY <1>2, BeginKeeps, LockKeeps, FetchKeeps, CommitKeeps, AbortKeeps
<1>3. CASE ReadChain \/ CountUnsealed \/ ReadHead
  BY <1>3, ReadKeeps, CountKeeps, HeadKeeps
<1>4. CASE UNCHANGED chainVars
  <2>1. UNCHANGED <<content, link, head, sealer, damage>> /\ reader' = reader
    BY <1>4 DEF chainVars
  <2>2. reader' \in ReaderOf'
    BY <2>1 DEF ChainInv, ChainTyped, ReaderOf
  <2>3. Waiting' = Waiting /\ IsFiniteSet(Present)' /\ IsFiniteSet(Present)
    BY <2>1, RowsStay DEF ChainInv, ChainRows
  <2>4. HalfRead' /\ ReportIsTrue'
    BY <2>1, <2>3, ReaderStays DEF ChainInv
  <2> QED
    BY <2>1, <2>2, <2>4, ReaderStep
<1> QED
  BY <1>1, <1>2, <1>3, <1>4 DEF ChainNext

(* What verify_audit_chain tells is true (audit/chain.py:6): it names the first *)
(* of the places that were damaged before it began, whatever was sealed behind  *)
(* it or meanwhile; it reports no break in a chain nobody touched and nobody    *)
(* was sealing; and "intact" leaves out no row that was there.                  *)
THEOREM ReportsAreTrue == ChainSpec => []ReportIsTrue
<1>1. ChainInit => ChainInv
  BY ChainStart
<1>2. ChainInv /\ [ChainNext]_chainVars => ChainInv'
  BY ChainStep
<1>3. ChainInv => ReportIsTrue
  BY DEF ChainInv
<1> QED
  BY <1>1, <1>2, <1>3, PTL DEF ChainSpec
=============================================================================
