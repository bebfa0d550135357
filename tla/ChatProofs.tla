----------------------------- MODULE ChatProofs -----------------------------
(***************************************************************************)
(* What is proved about Chat, for any number of requests, turns and tries, *)
(* any cap and any visitor.  No request sees what another is doing: all    *)
(* that holds between them goes through the transcript and the leads.      *)
(***************************************************************************)
EXTENDS Chat, FiniteSetTheorems, WellFoundedInduction, TLAPS

(* Types without the bounds of the model, and what a request knows at each of  *)
(* its steps: its turn was written, its message is stored, its lead is there.  *)
MessageOf == [role : {"user", "bot"}, turn : Nat, intent : Intent, decision : Decision]
Pcs == {"idle", "replay", "store", "lead", "recent", "gate", "write", "hand", "decide",
        "book", "cap", "classify", "generate", "answer"}
RequestOf ==
  [pc : Pcs, turn : Nat, text : AllKinds \union {"none"}, row : Nat, seen : Nat, lead : Nat,
   as : Lead, field : Fields \union {"none"}, got : SUBSET Fields, grounded : BOOLEAN,
   suffix : Intent, reply : Reply]
Typed ==
  /\ said \in Seq(AllKinds) /\ log \in Seq(MessageOf) /\ leads \in Seq(Lead)
  /\ req \in [Requests -> RequestOf]
  /\ overlapped \in BOOLEAN

Row == 1 .. Len(log)
Person == 1 .. Len(leads)
Capturing == {"lead", "recent", "gate", "write", "hand", "decide"}
Working == Capturing \union {"book", "cap", "classify"}
UserRows == {i \in Row : log[i].role = "user"}
GateRows == {i \in Row : log[i].role = "bot" /\ log[i].decision = "identity_gate"}
Place(q) ==
  /\ q.pc # "idle" => q.turn \in 1 .. Len(said)
  /\ q.pc = "replay" => q.turn \in WithId
  /\ q.pc \in Working => q.row \in UserRows /\ log[q.row].turn = q.turn
  /\ q.pc \in Capturing => GateOn
  /\ q.pc \in {"write", "hand"} => q.field \in Fields
  /\ q.pc \in {"write", "decide"} => q.lead \in Person \union {0}
  /\ q.pc \in {"recent", "gate"} => q.lead \in Person \union {0}
  /\ q.pc = "hand" => q.lead \in Person
  /\ q.pc = "generate" => q.reply.decision # "identity_gate"
Placed ==
  /\ \A i \in Row : log[i].turn \in 1 .. Len(said)
  /\ \A r \in Requests : Place(req[r])
  /\ \A e \in handed : e.channel = "call" => e.lead \in Person /\ e.row \in Row
  /\ classified \subseteq UserRows

(* Two requests for one turn, or two at all, were seen to run at once; a turn  *)
(* sent with its id has one row, and no answer while a request is at it.       *)
Tried ==
  /\ \A p, r \in Requests : p # r /\ req[p].pc # "idle" /\ req[r].pc # "idle" =>
       overlapped /\ (req[p].turn = req[r].turn => req[r].turn \in crossed)
  /\ \A r \in Requests : req[r].pc \notin {"idle", "replay"} /\ req[r].turn \in WithId \ crossed =>
       Stored("bot", req[r].turn) = {}
  /\ \A t \in WithId : \A i, j \in Stored("user", t) : i = j
  /\ ~overlapped => crossed = {}
  /\ ToldIsStored

(* Nobody passes the gate before the name was asked for, unless the visitor    *)
(* came with a name.                                                           *)
Asked == GateRows # {}
Nameless ==
  /\ classified = {} /\ leads = <<>>
  /\ \A r \in Requests : /\ req[r].pc \notin {"write", "hand", "decide", "book", "cap", "classify", "generate"}
                         /\ req[r].pc = "recent" => "name" \notin req[r].as.has
Named ==
  /\ Len(leads) = 1 /\ "name" \in leads[1].has
  /\ \A r \in Requests : /\ req[r].pc # "gate"
                         /\ req[r].pc \in Capturing \ {"lead"} => req[r].lead = 1
                         /\ req[r].pc \in {"recent", "write"} => "name" \in req[r].as.has
NameKnown == GateOn => Asked \/ Nameless \/ Named

(* A gate's answer has the message it answers, which is never classified: the  *)
(* last message of the turn before it.  One message has one such answer.       *)
Passed == classified \union {req[r].row : r \in {p \in Requests : req[p].pc = "classify"}}
Meets(u, g) ==
  /\ u \in UserRows /\ u < g /\ log[u].turn = log[g].turn
  /\ \A j \in UserRows : log[j].turn = log[g].turn /\ j < g => j <= u
Unmet(u, t) ==
  /\ u \in UserRows /\ log[u].turn = t
  /\ \A j \in UserRows \union GateRows : log[j].turn = t => j <= u
Counted ==
  crossed = {} =>
    /\ \A g \in GateRows : \E u \in UserRows : Meets(u, g) /\ u \notin Passed
    /\ \A g, h \in GateRows : g < h /\ log[g].turn = log[h].turn =>
         \E u \in UserRows : log[u].turn = log[g].turn /\ g < u /\ u < h
    /\ \A r \in Requests : req[r].pc \in Working => Unmet(req[r].row, req[r].turn)
    /\ \A r \in Requests : req[r].pc = "answer" /\ req[r].reply.decision = "identity_gate" =>
         \E u \in UserRows : Unmet(u, req[r].turn) /\ u \notin Passed
    /\ IsFiniteSet(Passed) /\ Cardinality(Passed) <= TurnCap

(* A visitor who waits has one lead, and a request reads it as it is.          *)
Newest == IF leads = <<>> THEN Nobody ELSE leads[Len(leads)]
OneLead ==
  ~overlapped =>
    /\ Len(leads) <= 1
    /\ \A r \in Requests :
         /\ req[r].pc \in {"recent", "gate", "write", "decide"} =>
              req[r].lead = Len(leads) /\ req[r].as = Newest
         /\ req[r].pc = "hand" => req[r].lead = 1 /\ req[r].field \in leads[1].agreed
    /\ EvidenceKept

(* ... and nothing is stored behind the message being answered.                *)
Quiet ==
  ~overlapped =>
    /\ \A r \in Requests : req[r].pc # "idle" => req[r].turn = Len(said)
    /\ \A r \in Requests : req[r].pc \in Working => req[r].row = Len(log)
    /\ \A r \in Requests : req[r].pc \in {"gate", "write", "hand"} => req[r].seen = Len(log)
    /\ \A i \in UserRows :
         log[i].turn = Len(said) /\ Len(said) \in WithId /\ Stored("bot", Len(said)) = {} => i = Len(log)
    /\ ConsentFollowsDisclosure

ChatInv == Typed /\ Placed /\ Tried /\ NameKnown /\ Counted /\ OneLead /\ Quiet

-----------------------------------------------------------------------------
(* The transcript.                                                             *)

(* A set of places in the transcript has a last one.                           *)
LEMMA LatestIs ==
  ASSUME NEW n \in Nat, NEW S \in SUBSET (1 .. n), S # {}
  PROVE  Latest(S) \in S /\ \A j \in S : j <= Latest(S)
<1>t. \A k \in S : k \in Nat
  <2> SUFFICES ASSUME NEW k \in S PROVE k \in Nat
    OBVIOUS
  <2>1. k \in 1 .. n
    OBVIOUS
  <2> QED
    BY <2>1
<1> DEFINE Left == {n - i : i \in S}
           Less == {ss \in Nat \X Nat : ss[1] < ss[2]}
<1>w. IsWellFoundedOn(Less, Nat)
  BY NatLessThanWellFounded DEF OpToRel
<1>1. Left \subseteq Nat /\ Left # {}
  <2>1. \A i \in S : n - i \in Nat
    OBVIOUS
  <2>2. PICK i \in S : TRUE
    OBVIOUS
  <2>3. n - i \in Left
    OBVIOUS
  <2> QED
    BY <2>1, <2>3
<1>2. PICK x \in Left : \A y \in Left : ~ (<<y, x>> \in Less)
  <2> HIDE DEF Left, Less
  <2> QED BY <1>1, <1>w, WFMin
<1>3. PICK i \in S : x = n - i
  OBVIOUS
<1>4. \A j \in S : j <= i
  <2> SUFFICES ASSUME NEW j \in S, j > i PROVE FALSE
    <3> HIDE DEF Left, Less
    <3> QED BY <1>t
  <2>1. n - j \in Left /\ n - j \in Nat /\ x \in Nat /\ n - j < x
    BY <1>3
  <2>2. << n - j, x >> \in Less
    BY <2>1
  <2> QED
    BY <1>2, <2>1, <2>2
<1> QED
  BY <1>3, <1>4 DEF Latest

(* The places of one role, of one turn.                                        *)
LEMMA StoredIs ==
  ASSUME Typed, NEW role, NEW t
  PROVE  Stored(role, t) \subseteq Row
BY DEF Stored, Row

(* A message is put behind the others, or its turn has one already.            *)
LEMMA Appends ==
  ASSUME Typed, NEW role \in {"user", "bot"}, NEW t \in Nat, NEW reply \in Reply,
         AppendMessage(role, t, reply)
  PROVE  /\ log' \in Seq(MessageOf)
         /\ Conflicts(role, t) => log' = log
         /\ ~Conflicts(role, t) =>
              /\ Len(log') = Len(log) + 1
              /\ \A i \in Row : log'[i] = log[i]
              /\ log'[Len(log) + 1] = [role |-> role, turn |-> t, intent |-> reply.intent,
                                       decision |-> reply.decision]
<1> DEFINE m == [role |-> role, turn |-> t, intent |-> reply.intent, decision |-> reply.decision]
<1>1. m \in MessageOf
  BY DEF MessageOf, Reply
<1>2. log \in Seq(MessageOf)
  BY DEF Typed
<1>3. log' = IF Conflicts(role, t) THEN log ELSE Append(log, m)
  BY DEF AppendMessage
<1> HIDE DEF m
<1>4. /\ Append(log, m) \in Seq(MessageOf) /\ Len(Append(log, m)) = Len(log) + 1
      /\ \A i \in 1 .. Len(log) : Append(log, m)[i] = log[i]
      /\ Append(log, m)[Len(log) + 1] = m
  BY <1>1, <1>2
<1> QED
  BY <1>2, <1>3, <1>4 DEF Row, m

(* What was read off the first messages stays: nothing is ever taken back.     *)
LEMMA LastBotStays ==
  ASSUME NEW n \in Nat, \A i \in 1 .. n : log'[i] = log[i]
  PROVE  LastBot(n)' = LastBot(n)
<1>1. Bots(n)' = Bots(n)
  BY DEF Bots
<1>2. Latest(Bots(n))' = Latest(Bots(n)) /\ Bots(n) \subseteq 1 .. n
  BY <1>1 DEF Latest, Bots
<1>3. CASE Bots(n) = {}
  BY <1>1, <1>3 DEF LastBot
<1>4. CASE Bots(n) # {}
  <2>1. Latest(Bots(n)) \in 1 .. n
    BY <1>2, <1>4, LatestIs
  <2> QED
    BY <1>1, <1>2, <1>4, <2>1 DEF LastBot
<1> QED
  BY <1>3, <1>4

(* The visitor's own message does not count as the bot's last.                 *)
LEMMA LastBotBefore ==
  ASSUME NEW n \in Nat \ {0}, log[n].role = "user"
  PROVE  LastBot(n) = LastBot(n - 1)
<1>1. Bots(n) = Bots(n - 1)
  BY DEF Bots
<1> QED
  BY <1>1 DEF LastBot

-----------------------------------------------------------------------------
(* What each action does, to the request that takes it and to what all share.  *)
Others(r) == \A p \in Requests : p # r => req'[p] = req[p]
Shared == <<said, log, leads, handed, classified, differs, crossed, overlapped>>
Still == UNCHANGED Shared
Rests(r) == req'[r] = Idle
Tells(r, decisions) ==
  /\ req'[r].pc = "answer" /\ req'[r].turn = req[r].turn
  /\ req'[r].reply.decision \in decisions
Keeps(r) == req'[r].turn = req[r].turn /\ req'[r].row = req[r].row
KeepsLead(r) == req'[r].lead = req[r].lead /\ req'[r].as = req[r].as
Ungated == Decision \ {"identity_gate"}

LEMMA IdleIs == Idle \in RequestOf /\ Idle.pc = "idle"
BY DEF Idle, RequestOf, Pcs, Nobody, Lead, GoOn, Says, Reply, Intent, Decision, Fields

LEMMA BecomesDoes ==
  ASSUME Typed, NEW r \in Requests, NEW q \in RequestOf, Becomes(r, q)
  PROVE  req' \in [Requests -> RequestOf] /\ req'[r] = q /\ Others(r)
BY DEF Typed, Becomes, Others

LEMMA GoesDoes ==
  ASSUME Typed, NEW r \in Requests, NEW pc \in Pcs, Goes(r, pc)
  PROVE  /\ req' \in [Requests -> RequestOf] /\ Others(r) /\ req'[r].pc = pc
         /\ Keeps(r) /\ KeepsLead(r) /\ req'[r].seen = req[r].seen /\ req'[r].field = req[r].field
<1>1. req[r] \in RequestOf /\ req \in [Requests -> RequestOf]
  BY DEF Typed
<1>2. [req[r] EXCEPT !.pc = pc] \in RequestOf
  BY <1>1 DEF RequestOf
<1>3. req' = [req EXCEPT ![r] = [req[r] EXCEPT !.pc = pc]]
  BY DEF Goes
<1> QED
  BY <1>1, <1>2, <1>3 DEF Others, Keeps, KeepsLead, RequestOf

LEMMA AnswersDo ==
  ASSUME Typed, NEW r \in Requests, NEW reply \in Reply, Answers(r, reply)
  PROVE  /\ req' \in [Requests -> RequestOf] /\ Others(r)
         /\ req'[r].pc = "answer" /\ req'[r].turn = req[r].turn /\ req'[r].reply = reply
<1>1. req[r].turn \in Nat
  BY DEF Typed, RequestOf
<1> DEFINE q == [Idle EXCEPT !.pc = "answer", !.turn = req[r].turn, !.reply = reply]
<1>2. q \in RequestOf /\ q.pc = "answer" /\ q.turn = req[r].turn /\ q.reply = reply
  BY <1>1 DEF Idle, RequestOf, Pcs, Nobody, Lead, Intent, Fields
<1>3. Becomes(r, q)
  BY DEF Answers
<1> QED
  BY <1>2, <1>3, BecomesDoes

(* The next field of the message to be written, or none.                       *)
LEMMA NextFieldIs ==
  ASSUME NEW q \in RequestOf, NEW before
  PROVE  LET n == NextField(q, before)
         IN  /\ n \in RequestOf /\ n.pc \in {"write", "decide"}
             /\ n.pc = "write" => n.field \in Fields
             /\ n.turn = q.turn /\ n.row = q.row /\ n.seen = q.seen /\ n.lead = q.lead /\ n.as = q.as
BY DEF NextField, RequestOf, Pcs, Fields

LEMMA SendDoes ==
  ASSUME Typed, ChatAssumption, NEW r \in Requests, NEW t \in Turn, Send(r, t)
  PROVE  /\ Typed' /\ Others(r) /\ UNCHANGED <<log, leads, handed, classified, differs>>
         /\ req[r].pc = "idle" /\ t \in 1 .. Len(said')
         /\ \/ t = Len(said) + 1 /\ Len(said') = Len(said) + 1
            \/ t = Len(said) /\ said' = said
         /\ req'[r].turn = t /\ req'[r].pc = (IF t \in WithId THEN "replay" ELSE "store")
         /\ overlapped' = (overlapped \/ Active # {})
         /\ crossed' = IF \E p \in Active : req[p].turn = t THEN crossed \union {t} ELSE crossed
<1>1. said \in Seq(AllKinds) /\ Len(said) \in Nat /\ t \in Nat
  BY DEF Typed, Turn
<1>2. /\ said' \in Seq(AllKinds) /\ t \in 1 .. Len(said')
      /\ \/ t = Len(said) + 1 /\ Len(said') = Len(said) + 1
         \/ t = Len(said) /\ said' = said
  <2>1. CASE t = Len(said) + 1 /\ \E k \in Kinds : said' = Append(said, k)
    <3>1. PICK k \in AllKinds : said' = Append(said, k)
      BY <2>1 DEF ChatAssumption
    <3> QED
      BY <1>1, <2>1, <3>1
  <2>2. CASE t = Len(said) /\ t >= 1 /\ said' = said
    BY <1>1, <2>2
  <2> QED
    BY <2>1, <2>2 DEF Send
<1>3. said'[t] \in AllKinds
  BY <1>2
<1> DEFINE q == [Idle EXCEPT !.pc = IF t \in WithId THEN "replay" ELSE "store",
                             !.turn = t, !.text = said'[t]]
<1>4. q \in RequestOf /\ q.turn = t /\ q.pc = (IF t \in WithId THEN "replay" ELSE "store")
  BY <1>1, <1>3 DEF Idle, RequestOf, Pcs, Nobody, Lead, GoOn, Says, Reply, Intent, Decision, Fields
<1>5. Becomes(r, q)
  BY DEF Send
<1>6. req' \in [Requests -> RequestOf] /\ req'[r] = q /\ Others(r)
  BY <1>4, <1>5, BecomesDoes
<1>7. (overlapped \/ Active # {}) \in BOOLEAN
  BY DEF Typed
<1>8. overlapped' \in BOOLEAN
  BY <1>7 DEF Send
<1> QED
  BY <1>2, <1>4, <1>6, <1>8 DEF Send, Typed, At

LEMMA ReplayDoes ==
  ASSUME Typed, NEW r \in Requests, Replay(r)
  PROVE  /\ Typed' /\ Others(r) /\ Still /\ req[r].pc = "replay"
         /\ \/ Rests(r)
            \/ /\ Stored("bot", req[r].turn) = {}
               /\ req'[r].pc = "store" /\ Keeps(r)
<1>1. Still /\ req[r].pc = "replay"
  BY DEF Replay, history, Still, Shared, At
<1>2. CASE Stored("bot", req[r].turn) # {}
  <2>1. Becomes(r, Idle)
    BY <1>2 DEF Replay
  <2> QED
    BY <1>1, <2>1, IdleIs, BecomesDoes DEF Typed, Rests, Still, Shared
<1>3. CASE Stored("bot", req[r].turn) = {}
  <2>1. Goes(r, "store")
    BY <1>3 DEF Replay
  <2>2. "store" \in Pcs
    BY DEF Pcs
  <2> QED
    BY <1>1, <1>3, <2>1, <2>2, GoesDoes DEF Typed, Still, Shared
<1> QED
  BY <1>2, <1>3

LEMMA StoreUserDoes ==
  ASSUME Typed, NEW r \in Requests, StoreUser(r)
  PROVE  /\ Typed' /\ Others(r) /\ UNCHANGED <<said, leads, handed, classified, differs, crossed, overlapped>>
         /\ req[r].pc = "store" /\ AppendMessage("user", req[r].turn, GoOn)
         /\ req'[r].pc = (IF GateOn THEN "lead" ELSE "book") /\ req'[r].turn = req[r].turn
         /\ IF Conflicts("user", req[r].turn) THEN req'[r].row \in Stored("user", req[r].turn)
            ELSE req'[r].row = Len(log) + 1
<1> DEFINE q == req[r]
           row == IF Conflicts("user", q.turn) THEN CHOOSE i \in Stored("user", q.turn) : TRUE
                  ELSE Len(log) + 1
<1>1. q \in RequestOf /\ q.turn \in Nat /\ Len(log) \in Nat
  BY DEF Typed, RequestOf
<1>2. IF Conflicts("user", q.turn) THEN row \in Stored("user", q.turn) ELSE row = Len(log) + 1
  BY DEF Conflicts
<1>3. row \in Nat
  BY <1>1, <1>2, StoredIs DEF Row
<1> HIDE DEF row
<1>4. AppendMessage("user", q.turn, GoOn)
  BY DEF StoreUser
<1>5. GoOn \in Reply
  BY DEF GoOn, Says, Reply, Intent, Decision
<1>6. log' \in Seq(MessageOf)
  BY <1>1, <1>4, <1>5, Appends
<1>7. Becomes(r, [q EXCEPT !.pc = IF GateOn THEN "lead" ELSE "book", !.row = row])
  BY DEF StoreUser, row
<1>8. /\ [q EXCEPT !.pc = IF GateOn THEN "lead" ELSE "book", !.row = row] \in RequestOf
  BY <1>1, <1>3 DEF RequestOf, Pcs
<1>9. /\ req' \in [Requests -> RequestOf] /\ Others(r)
      /\ req'[r] = [q EXCEPT !.pc = IF GateOn THEN "lead" ELSE "book", !.row = row]
  BY <1>7, <1>8, BecomesDoes
<1>10. /\ req'[r].pc = (IF GateOn THEN "lead" ELSE "book") /\ req'[r].turn = q.turn
       /\ req'[r].row = row
  BY <1>1, <1>9 DEF RequestOf
<1> QED
  BY <1>2, <1>4, <1>6, <1>9, <1>10 DEF StoreUser, Typed, history, At

LEMMA ReadLeadDoes ==
  ASSUME Typed, NEW r \in Requests, ReadLead(r)
  PROVE  /\ Typed' /\ Others(r) /\ Still /\ req[r].pc = "lead"
         /\ req'[r].pc = "recent" /\ Keeps(r)
         /\ req'[r].lead = Len(leads) /\ req'[r].as = Newest
<1>1. Still /\ req[r].pc = "lead"
  BY DEF ReadLead, history, Still, Shared, At
<1>2. req[r] \in RequestOf /\ leads \in Seq(Lead) /\ Len(leads) \in Nat
  BY DEF Typed
<1>3. Newest \in Lead
  <2>1. Nobody \in Lead
    BY DEF Nobody, Lead, Fields
  <2>2. leads # <<>> => Len(leads) \in 1 .. Len(leads)
    BY <1>2
  <2> QED
    BY <1>2, <2>1, <2>2 DEF Newest
<1>4. Becomes(r, [req[r] EXCEPT !.pc = "recent", !.lead = Len(leads), !.as = Newest])
  BY DEF ReadLead, Newest
<1>5. [req[r] EXCEPT !.pc = "recent", !.lead = Len(leads), !.as = Newest] \in RequestOf
  BY <1>2, <1>3 DEF RequestOf, Pcs
<1>6. /\ req' \in [Requests -> RequestOf] /\ Others(r)
      /\ req'[r] = [req[r] EXCEPT !.pc = "recent", !.lead = Len(leads), !.as = Newest]
  BY <1>4, <1>5, BecomesDoes
<1> QED
  BY <1>1, <1>2, <1>6 DEF Typed, Keeps, RequestOf, Still, Shared

LEMMA ReadRecentDoes ==
  ASSUME Typed, NEW r \in Requests, ReadRecent(r)
  PROVE  /\ Typed' /\ Others(r) /\ Still /\ req[r].pc = "recent"
         /\ Keeps(r) /\ KeepsLead(r) /\ req'[r].seen = Len(log)
         /\ IF "name" \in req[r].as.has
            THEN req'[r].pc \in {"write", "decide"} /\ (req'[r].pc = "write" => req'[r].field \in Fields)
            ELSE req'[r].pc = "gate"
<1> DEFINE q == [req[r] EXCEPT !.seen = Len(log)]
           n == IF "name" \in q.as.has THEN NextField(q, "name") ELSE [q EXCEPT !.pc = "gate"]
<1>1. Still /\ req[r].pc = "recent"
  BY DEF ReadRecent, history, Still, Shared, At
<1>2. req[r] \in RequestOf /\ Len(log) \in Nat
  BY DEF Typed
<1>3. /\ q \in RequestOf /\ q.turn = req[r].turn /\ q.row = req[r].row /\ q.lead = req[r].lead
      /\ q.as = req[r].as /\ q.seen = Len(log)
  BY <1>2 DEF RequestOf
<1>4. Becomes(r, n)
  BY DEF ReadRecent
<1> HIDE DEF q
<1>5. /\ n \in RequestOf /\ n.turn = q.turn /\ n.row = q.row /\ n.lead = q.lead /\ n.as = q.as /\ n.seen = q.seen
      /\ IF "name" \in q.as.has
         THEN n.pc \in {"write", "decide"} /\ (n.pc = "write" => n.field \in Fields)
         ELSE n.pc = "gate"
  <2>1. CASE "name" \in q.as.has
    BY <1>3, <2>1, NextFieldIs
  <2>2. CASE "name" \notin q.as.has
    BY <1>3, <2>2 DEF RequestOf, Pcs
  <2> QED
    BY <2>1, <2>2
<1> HIDE DEF n
<1>6. req' \in [Requests -> RequestOf] /\ Others(r) /\ req'[r] = n
  BY <1>4, <1>5, BecomesDoes
<1> QED
  BY <1>1, <1>3, <1>5, <1>6 DEF Typed, Keeps, KeepsLead, Still, Shared

(* The question a name is the answer to was written by the visitor.            *)
LEMMA DeferredIs ==
  ASSUME Typed, Placed, NEW q \in RequestOf
  PROVE  Deferred(q) \in AllKinds \union {"none"}
<1> DEFINE asks == {i \in 2 .. Len(log) : log[i].intent = "ask_name" /\ log[i - 1].role = "user"}
<1>1. CASE asks = {}
  BY <1>1 DEF Deferred, RequestOf
<1>2. CASE asks # {}
  <2>1. asks \in SUBSET (1 .. Len(log)) /\ Len(log) \in Nat
    BY DEF Typed
  <2>2. Latest(asks) \in asks
    BY <1>2, <2>1, LatestIs
  <2>3. Latest(asks) - 1 \in Row
    BY <2>1, <2>2 DEF Row
  <2>4. said[log[Latest(asks) - 1].turn] \in AllKinds
    BY <2>3 DEF Placed, Typed
  <2> QED
    BY <1>2, <2>4 DEF Deferred
<1> QED
  BY <1>1, <1>2

LEMMA GateDoes ==
  ASSUME Typed, Placed, NEW r \in Requests, Gate(r)
  PROVE  /\ Typed' /\ Others(r) /\ Still /\ req[r].pc = "gate"
         /\ \/ GateRows = {} /\ Tells(r, {"identity_gate"})
            \/ /\ GateRows # {} /\ Keeps(r) /\ KeepsLead(r) /\ req'[r].seen = req[r].seen
               /\ req'[r].pc \in {"write", "decide"} /\ (req'[r].pc = "write" => req'[r].field \in Fields)
<1> DEFINE q == req[r]
<1>1. Still /\ q.pc = "gate"
  BY DEF Gate, history, Still, Shared, At
<1>2. q \in RequestOf
  BY DEF Typed
<1>3. (Count("bot", {"identity_gate"}) = 0) <=> (GateRows = {})
  <2>1. IsFiniteSet(Row)
    BY FS_Interval DEF Row, Typed
  <2>2. GateRows = {i \in 1 .. Len(log) : log[i].role = "bot" /\ log[i].decision \in {"identity_gate"}}
    BY DEF GateRows, Row
  <2>3. IsFiniteSet(GateRows)
    BY <2>1, FS_Subset DEF GateRows
  <2> QED
    BY <2>2, <2>3, FS_EmptySet DEF Count
<1>4. CASE Count("bot", {"identity_gate"}) = 0
  <2>1. Answers(r, Says("ask_name", "identity_gate"))
    BY <1>4 DEF Gate
  <2>2. Says("ask_name", "identity_gate") \in Reply /\ Says("ask_name", "identity_gate").decision = "identity_gate"
    BY DEF Says, Reply, Intent, Decision
  <2> QED
    BY <1>1, <1>3, <1>4, <2>1, <2>2, AnswersDo DEF Typed, Tells, Still, Shared
<1>5. CASE ~(Count("bot", {"identity_gate"}) = 0)
  <2> DEFINE Written(k) == [q EXCEPT !.pc = "write", !.field = "name", !.text = k]
  <2>1. PICK n : Becomes(r, n) /\ (n = NextField(q, "name") \/ \E k \in AllKinds \union {"none"} : n = Written(k))
    <3>1. q.text \in AllKinds \union {"none"}
      BY <1>2 DEF RequestOf
    <3>2. Deferred(q) \in AllKinds \union {"none"}
      BY <1>2, DeferredIs
    <3>3. \/ Becomes(r, NextField(q, "name"))
          \/ Becomes(r, Written(Deferred(q))) \/ Becomes(r, Written(q.text))
      BY <1>5 DEF Gate
    <3> HIDE DEF Written, q
    <3> QED
      BY <3>1, <3>2, <3>3
  <2>2. /\ n \in RequestOf /\ n.pc \in {"write", "decide"} /\ (n.pc = "write" => n.field \in Fields)
        /\ n.turn = q.turn /\ n.row = q.row /\ n.seen = q.seen /\ n.lead = q.lead /\ n.as = q.as
    <3>1. CASE n = NextField(q, "name")
      BY <1>2, <3>1, NextFieldIs
    <3>2. CASE \E k \in AllKinds \union {"none"} : n = Written(k)
      BY <1>2, <3>2 DEF RequestOf, Pcs, Fields
    <3> QED
      BY <2>1, <3>1, <3>2
  <2>3. req' \in [Requests -> RequestOf] /\ Others(r) /\ req'[r] = n
    BY <2>1, <2>2, BecomesDoes
  <2> QED
    BY <1>1, <1>3, <1>5, <2>2, <2>3 DEF Typed, Keeps, KeepsLead, Still, Shared
<1> QED
  BY <1>4, <1>5

LEMMA SaveDoes ==
  ASSUME Typed, Placed, NEW r \in Requests, Save(r)
  PROVE  /\ Typed' /\ Others(r) /\ UNCHANGED <<said, log, handed, classified, differs, crossed, overlapped>>
         /\ req[r].pc = "write" /\ req'[r].pc = "hand" /\ Keeps(r)
         /\ req'[r].seen = req[r].seen /\ req'[r].field = req[r].field
         /\ req'[r].lead = (IF req[r].lead = 0 THEN Len(leads) + 1 ELSE req[r].lead)
         /\ req'[r].lead \in 1 .. Len(leads')
         /\ leads'[req'[r].lead].agreed = req[r].as.agreed \union {req[r].field}
         /\ IF req[r].lead = 0 THEN Len(leads') = Len(leads) + 1
            ELSE /\ Len(leads') = Len(leads)
                 /\ leads'[req[r].lead].has = leads[req[r].lead].has \union {req[r].field}
         /\ \A i \in Person : i # req[r].lead => leads'[i] = leads[i]
<1> DEFINE q == req[r]
           lead == IF q.lead = 0 THEN Len(leads) + 1 ELSE q.lead
           agreed == q.as.agreed \union {q.field}
<1>1. q \in RequestOf /\ q.pc = "write" /\ q.field \in Fields /\ q.lead \in Person \union {0}
      /\ leads \in Seq(Lead) /\ Len(leads) \in Nat
  <2>1. q.pc = "write" /\ Place(q)
    BY DEF Save, At, Placed
  <2> QED
    BY <2>1 DEF Typed, Place
<1>2. lead \in Nat /\ agreed \in SUBSET Fields /\ q.as \in Lead
  BY <1>1 DEF RequestOf, Lead, Person
<1>3. leads' = IF q.lead = 0 THEN Append(leads, [has |-> {q.field}, agreed |-> agreed])
               ELSE [leads EXCEPT ![lead].has = @ \union {q.field}, ![lead].agreed = agreed]
  BY DEF Save, Agreed
<1> HIDE DEF agreed
<1>4. ASSUME q.lead = 0
      PROVE  /\ leads' \in Seq(Lead) /\ Len(leads') = Len(leads) + 1
             /\ leads'[lead].agreed = agreed
             /\ \A i \in Person : leads'[i] = leads[i]
  <2> DEFINE l == [has |-> {q.field}, agreed |-> agreed]
  <2>1. l \in Lead /\ l.agreed = agreed
    BY <1>1, <1>2 DEF Lead
  <2>2. leads' = Append(leads, l) /\ lead = Len(leads) + 1
    BY <1>3, <1>4
  <2> HIDE DEF l
  <2> QED
    BY <1>1, <2>1, <2>2 DEF Person
<1>5. ASSUME q.lead \in Person
      PROVE  /\ leads' \in Seq(Lead) /\ Len(leads') = Len(leads)
             /\ leads'[lead].agreed = agreed
             /\ leads'[q.lead].has = leads[q.lead].has \union {q.field}
             /\ \A i \in Person : i # q.lead => leads'[i] = leads[i]
  <2>1. q.lead # 0 /\ lead = q.lead /\ leads[lead] \in Lead
    BY <1>1, <1>5 DEF Person
  <2> DEFINE l == [[leads[lead] EXCEPT !.has = @ \union {q.field}] EXCEPT !.agreed = agreed]
  <2>2. l \in Lead /\ l.agreed = agreed /\ l.has = leads[lead].has \union {q.field}
    BY <1>1, <1>2, <2>1 DEF Lead
  <2>3. leads' = [leads EXCEPT ![lead] = l]
    BY <1>1, <1>3, <1>5, <2>1 DEF Person
  <2> HIDE DEF l
  <2> QED
    BY <1>1, <1>5, <2>1, <2>2, <2>3 DEF Person
<1>6. Becomes(r, [q EXCEPT !.pc = "hand", !.lead = lead])
  BY DEF Save
<1>7. [q EXCEPT !.pc = "hand", !.lead = lead] \in RequestOf
  BY <1>1, <1>2 DEF RequestOf, Pcs
<1>8. req' \in [Requests -> RequestOf] /\ Others(r) /\ req'[r] = [q EXCEPT !.pc = "hand", !.lead = lead]
  BY <1>6, <1>7, BecomesDoes
<1>9. /\ req'[r].pc = "hand" /\ Keeps(r) /\ req'[r].lead = lead
      /\ req'[r].seen = q.seen /\ req'[r].field = q.field
  BY <1>1, <1>8 DEF RequestOf, Keeps
<1>10. leads' \in Seq(Lead) /\ lead \in 1 .. Len(leads') /\ leads'[lead].agreed = agreed
  BY <1>1, <1>4, <1>5 DEF Person
<1>11. UNCHANGED <<said, log, handed, classified, differs, crossed, overlapped>>
  BY DEF Save, history
<1>12. \A i \in Person : i # q.lead => leads'[i] = leads[i]
  BY <1>1, <1>4, <1>5
<1>13. IF q.lead = 0 THEN Len(leads') = Len(leads) + 1
       ELSE Len(leads') = Len(leads) /\ leads'[q.lead].has = leads[q.lead].has \union {q.field}
  BY <1>1, <1>4, <1>5 DEF Person
<1>14. Typed'
  BY <1>8, <1>10, <1>11 DEF Typed
<1> QED
  BY <1>1, <1>8, <1>9, <1>10, <1>11, <1>12, <1>13, <1>14 DEF agreed

LEMMA HandOverDoes ==
  ASSUME Typed, Placed, NEW r \in Requests, HandOver(r)
  PROVE  /\ Typed' /\ Others(r) /\ UNCHANGED <<said, log, leads, classified, differs, crossed, overlapped>>
         /\ req[r].pc = "hand" /\ Keeps(r) /\ req'[r].seen = req[r].seen
         /\ req'[r].pc \in {"write", "decide"} /\ (req'[r].pc = "write" => req'[r].field \in Fields)
         /\ req'[r].lead = req[r].lead /\ req'[r].as = leads[req[r].lead]
         /\ \A e \in handed' \ handed :
              e.channel = "call" => /\ e.lead = req[r].lead /\ e.row = req[r].row
                                    /\ req[r].field = "phone"
                                    /\ LastBot(req[r].seen).intent \in PhoneAskIntents
<1> DEFINE q == [req[r] EXCEPT !.as = leads[req[r].lead],
                               !.got = IF req[r].field = "name" THEN @ ELSE @ \union {req[r].field}]
           n == NextField(q, q.field)
<1>1. req[r] \in RequestOf /\ req[r].field \in Fields /\ req[r].lead \in Person /\ req[r].pc = "hand"
  <2>1. req[r].pc = "hand" /\ Place(req[r])
    BY DEF HandOver, At, Placed
  <2> QED
    BY <2>1 DEF Typed, Place
<1>2. leads[req[r].lead] \in Lead
  BY <1>1 DEF Typed, Person
<1>3. /\ q \in RequestOf /\ q.turn = req[r].turn /\ q.row = req[r].row /\ q.seen = req[r].seen
      /\ q.lead = req[r].lead /\ q.as = leads[req[r].lead] /\ q.field = req[r].field
  BY <1>1, <1>2 DEF RequestOf
<1>4. /\ Becomes(r, n)
      /\ handed' = handed \union {[channel |-> c, lead |-> q.lead, row |-> q.row] : c \in Channels(q)}
  BY DEF HandOver
<1>5. UNCHANGED <<said, log, leads, classified, differs, crossed, overlapped>>
  BY DEF HandOver, history
<1> HIDE DEF q
<1>6. /\ n \in RequestOf /\ n.pc \in {"write", "decide"} /\ (n.pc = "write" => n.field \in Fields)
      /\ n.turn = q.turn /\ n.row = q.row /\ n.seen = q.seen /\ n.lead = q.lead /\ n.as = q.as
  BY <1>3, NextFieldIs
<1> HIDE DEF n
<1>7. req' \in [Requests -> RequestOf] /\ Others(r) /\ req'[r] = n
  BY <1>4, <1>6, BecomesDoes
<1>8. ASSUME NEW e \in handed' \ handed, e.channel = "call"
      PROVE  e.lead = q.lead /\ e.row = q.row /\ q.field = "phone" /\ LastBot(q.seen).intent \in PhoneAskIntents
  <2>1. PICK c \in Channels(q) : e = [channel |-> c, lead |-> q.lead, row |-> q.row]
    BY <1>4
  <2>2. c = "call"
    BY <1>8, <2>1
  <2>3. q.field = "phone" /\ Consented(q)
    BY <2>1, <2>2 DEF Channels
  <2> QED
    BY <2>1, <2>3 DEF Consented
<1> QED
  BY <1>1, <1>3, <1>5, <1>6, <1>7, <1>8 DEF Typed, Keeps

LEMMA IdentityReplyIs ==
  ASSUME NEW q
  PROVE  IdentityReply(q) \in Reply /\ IdentityReply(q).decision \in Ungated
BY DEF IdentityReply, Says, Reply, Intent, Decision, Ungated, GoOn, PhoneAskIntents, WrapUps

LEMMA DecideDoes ==
  ASSUME Typed, Placed, NEW r \in Requests, Decide(r)
  PROVE  /\ Typed' /\ Others(r) /\ UNCHANGED <<said, log, leads, classified, differs, crossed, overlapped>>
         /\ req[r].pc = "decide"
         /\ \/ Tells(r, Ungated)
            \/ req'[r].pc = "book" /\ Keeps(r)
         /\ \A e \in handed' \ handed : e.channel # "call"
<1> DEFINE reply == IdentityReply(req[r])
<1>1. UNCHANGED <<said, log, leads, classified, differs, crossed, overlapped>> /\ req[r].pc = "decide"
  BY DEF Decide, history, At
<1>2. \A e \in handed' \ handed : e.channel # "call"
  BY DEF Decide
<1>3. reply \in Reply /\ reply.decision \in Ungated
  BY IdentityReplyIs
<1>4. Goes(r, "book") \/ Answers(r, reply)
  BY DEF Decide
<1> HIDE DEF reply
<1>5. CASE Goes(r, "book")
  <2>1. "book" \in Pcs
    BY DEF Pcs
  <2> QED
    BY <1>1, <1>2, <1>5, <2>1, GoesDoes DEF Typed
<1>6. CASE Answers(r, reply)
  BY <1>1, <1>2, <1>3, <1>6, AnswersDo DEF Typed, Tells
<1> QED
  BY <1>4, <1>5, <1>6

LEMMA BookDoes ==
  ASSUME Typed, NEW r \in Requests, Book(r)
  PROVE  /\ Typed' /\ Others(r) /\ Still /\ req[r].pc = "book"
         /\ \/ Tells(r, Ungated)
            \/ req'[r].pc = "cap" /\ Keeps(r)
<1>1. Still /\ req[r].pc = "book"
  BY DEF Book, history, Still, Shared, At
<1>2. PICK reply \in BookingReplies(req[r]) : Goes(r, "cap") \/ Answers(r, reply)
  BY DEF Book
<1>3. reply \in Reply /\ reply.decision \in Ungated
  BY DEF BookingReplies, Says, Reply, Intent, Decision, Ungated, GoOn, AllLabels
<1>4. CASE Goes(r, "cap")
  <2>1. "cap" \in Pcs
    BY DEF Pcs
  <2> QED
    BY <1>1, <1>4, <2>1, GoesDoes DEF Typed, Still, Shared
<1>5. CASE Answers(r, reply)
  BY <1>1, <1>3, <1>5, AnswersDo DEF Typed, Tells, Still, Shared
<1> QED
  BY <1>2, <1>4, <1>5

LEMMA CapDoes ==
  ASSUME Typed, NEW r \in Requests, Cap(r)
  PROVE  /\ Typed' /\ Others(r) /\ Still /\ req[r].pc = "cap"
         /\ \/ Tells(r, Ungated)
            \/ req'[r].pc = "classify" /\ Keeps(r) /\ ~(Turns > TurnCap)
<1>1. Still /\ req[r].pc = "cap"
  BY DEF Cap, history, Still, Shared, At
<1>2. CASE Turns > TurnCap
  <2>1. Answers(r, Says("none", "escalate"))
    BY <1>2 DEF Cap
  <2>2. Says("none", "escalate") \in Reply /\ Says("none", "escalate").decision \in Ungated
    BY DEF Says, Reply, Intent, Decision, Ungated
  <2> QED
    BY <1>1, <2>1, <2>2, AnswersDo DEF Typed, Tells, Still, Shared
<1>3. CASE ~(Turns > TurnCap)
  <2>1. Goes(r, "classify") /\ "classify" \in Pcs
    BY <1>3 DEF Cap, Pcs
  <2> QED
    BY <1>1, <1>3, <2>1, GoesDoes DEF Typed, Still, Shared
<1> QED
  BY <1>2, <1>3

LEMMA ClassifyDoes ==
  ASSUME Typed, ChatAssumption, NEW r \in Requests, Classify(r)
  PROVE  /\ Typed' /\ Others(r) /\ UNCHANGED <<said, log, leads, handed, differs, crossed, overlapped>>
         /\ req[r].pc = "classify" /\ classified' = classified \union {req[r].row}
         /\ \/ Tells(r, Ungated)
            \/ req'[r].pc = "generate" /\ req'[r].turn = req[r].turn /\ req'[r].reply.decision \in Ungated
<1> DEFINE q == req[r]
<1>1. /\ q \in RequestOf /\ q.pc = "classify" /\ classified' = classified \union {q.row}
      /\ UNCHANGED <<said, log, leads, handed, differs, crossed, overlapped>>
  BY DEF Classify, At, Typed
<1>2. CASE \E label \in Labels : \E reply \in LabelReplies(label) : Answers(r, reply)
  <2>1. PICK label \in Labels : \E reply \in LabelReplies(label) : Answers(r, reply)
    BY <1>2
  <2>2. PICK reply \in LabelReplies(label) : Answers(r, reply)
    BY <2>1
  <2>3. label \in AllLabels
    BY DEF ChatAssumption
  <2>4. OffTopicReply \in Reply /\ OffTopicReply.decision \in Ungated
    BY DEF OffTopicReply, Says, Reply, Intent, Decision, Ungated, AllLabels
  <2>5. reply \in Reply /\ reply.decision \in Ungated
    BY <2>3, <2>4 DEF LabelReplies, Says, Reply, Intent, Decision, Ungated, AllLabels
  <2> QED
    BY <1>1, <2>2, <2>5, AnswersDo DEF Typed, Tells
<1>3. CASE \E label \in Labels : \E grounded \in Grounds(label) :
             Becomes(r, [Idle EXCEPT !.pc = "generate", !.turn = q.turn, !.grounded = grounded,
                                     !.suffix = Suffix(q, label), !.reply = Says(label, "answer")])
  <2>0. PICK label \in Labels : \E grounded \in Grounds(label) :
             Becomes(r, [Idle EXCEPT !.pc = "generate", !.turn = q.turn, !.grounded = grounded,
                                     !.suffix = Suffix(q, label), !.reply = Says(label, "answer")])
    BY <1>3
  <2>1. PICK grounded \in Grounds(label) :
             Becomes(r, [Idle EXCEPT !.pc = "generate", !.turn = q.turn, !.grounded = grounded,
                                     !.suffix = Suffix(q, label), !.reply = Says(label, "answer")])
    BY <2>0
  <2>2. label \in AllLabels /\ grounded \in BOOLEAN /\ Suffix(q, label) \in Intent /\ q.turn \in Nat
    BY <1>1 DEF ChatAssumption, Grounds, Suffix, Intent, PhoneAskIntents, RequestOf
  <2> DEFINE n == [Idle EXCEPT !.pc = "generate", !.turn = q.turn, !.grounded = grounded,
                               !.suffix = Suffix(q, label), !.reply = Says(label, "answer")]
  <2>3. n \in RequestOf /\ n.pc = "generate" /\ n.turn = q.turn /\ n.reply.decision \in Ungated
    BY <2>2 DEF Idle, RequestOf, Pcs, Nobody, Lead, Says, Reply, Intent, Decision, Fields, Ungated
  <2>4. Becomes(r, n)
    BY <2>1
  <2> HIDE DEF n
  <2>5. req' \in [Requests -> RequestOf] /\ Others(r) /\ req'[r] = n
    BY <2>3, <2>4, BecomesDoes
  <2> QED
    BY <1>1, <2>3, <2>5 DEF Typed
<1>4. \/ \E label \in Labels : \E reply \in LabelReplies(label) : Answers(r, reply)
      \/ \E label \in Labels : \E grounded \in Grounds(label) :
             Becomes(r, [Idle EXCEPT !.pc = "generate", !.turn = q.turn, !.grounded = grounded,
                                     !.suffix = Suffix(q, label), !.reply = Says(label, "answer")])
  BY DEF Classify
<1> QED
  BY <1>2, <1>3, <1>4

LEMMA GenerateDoes ==
  ASSUME Typed, NEW r \in Requests, Generate(r)
  PROVE  /\ Typed' /\ Others(r) /\ Still /\ req[r].pc = "generate"
         /\ Tells(r, Ungated \union {req[r].reply.decision})
<1> DEFINE q == req[r]
           clean == IF q.suffix = "none" THEN q.reply ELSE Says(q.suffix, "answer")
           blocked == Says(q.reply.intent, "blocked")
           unanswered == Says(q.reply.intent, "escalate")
<1>1. Still /\ q.pc = "generate" /\ q.suffix \in Intent /\ q.reply \in Reply
  BY DEF Generate, history, Still, Shared, At, Typed, RequestOf
<1>2. PICK reply \in {clean, blocked, unanswered} : Answers(r, reply)
  BY DEF Generate
<1>3. reply \in Reply /\ reply.decision \in Ungated \union {q.reply.decision}
  BY <1>1, <1>2 DEF Says, Reply, Decision, Ungated
<1> QED
  BY <1>1, <1>2, <1>3, AnswersDo DEF Typed, Tells, Still, Shared

LEMMA AnswerDoes ==
  ASSUME Typed, NEW r \in Requests, Answer(r)
  PROVE  /\ Typed' /\ Others(r) /\ UNCHANGED <<said, leads, handed, classified, crossed, overlapped>>
         /\ req[r].pc = "answer" /\ AppendMessage("bot", req[r].turn, req[r].reply)
         /\ Rests(r)
         /\ differs' \subseteq differs \union {req[r].turn}
         /\ ~Conflicts("bot", req[r].turn) => differs' = differs
<1>1. /\ req[r].pc = "answer" /\ AppendMessage("bot", req[r].turn, req[r].reply)
      /\ Becomes(r, Idle) /\ UNCHANGED <<said, leads, handed, classified, crossed, overlapped>>
  BY DEF Answer, At
<1>2. req' \in [Requests -> RequestOf] /\ Others(r) /\ req'[r] = Idle
  BY <1>1, IdleIs, BecomesDoes
<1>3. req[r].turn \in Nat /\ req[r].reply \in Reply
  BY DEF Typed, RequestOf
<1>4. log' \in Seq(MessageOf)
  BY <1>1, <1>3, Appends
<1>5. /\ differs' \subseteq differs \union {req[r].turn}
      /\ ~Conflicts("bot", req[r].turn) => differs' = differs
  BY DEF Answer
<1> QED
  BY <1>1, <1>2, <1>4, <1>5 DEF Typed, Rests

LEMMA FailDoes ==
  ASSUME Typed, NEW r \in Requests, Fail(r)
  PROVE  Typed' /\ Others(r) /\ Still /\ Rests(r)
<1>1. Becomes(r, Idle) /\ Still
  BY DEF Fail, history, Still, Shared
<1> QED
  BY <1>1, IdleIs, BecomesDoes DEF Typed, Rests, Still, Shared

-----------------------------------------------------------------------------
(* Requests know their places.                                                 *)
Grows ==
  /\ Len(said) <= Len(said') /\ Len(leads) <= Len(leads') /\ Len(log) <= Len(log')
  /\ \A i \in Row : log'[i] = log[i]

LEMMA RowsStay ==
  ASSUME Typed, Typed', Grows
  PROVE  /\ Row \subseteq Row' /\ Person \subseteq Person' /\ 1 .. Len(said) \subseteq 1 .. Len(said)'
         /\ UserRows \subseteq UserRows' /\ GateRows \subseteq GateRows'
         /\ \A i \in Row : (i \in UserRows' => i \in UserRows) /\ (i \in GateRows' => i \in GateRows)
<1>1. /\ Len(said) \in Nat /\ Len(said)' \in Nat /\ Len(leads) \in Nat /\ Len(leads)' \in Nat
      /\ Len(log) \in Nat /\ Len(log)' \in Nat
  BY DEF Typed
<1>2. Row \subseteq Row' /\ Person \subseteq Person' /\ 1 .. Len(said) \subseteq 1 .. Len(said)'
  BY <1>1 DEF Grows, Row, Person
<1> QED
  BY <1>2 DEF Grows, UserRows, GateRows

LEMMA PlaceStays ==
  ASSUME Typed, Typed', Grows, NEW q, Place(q)
  PROVE  Place(q)'
<1>1. q.pc \in Working => q.row \in UserRows' /\ log'[q.row].turn = q.turn
  BY RowsStay DEF Place, Grows, UserRows
<1> QED
  BY <1>1, RowsStay DEF Place

LEMMA PlacedBut ==
  ASSUME Typed, Typed', Placed, Grows, NEW r \in Requests, Others(r), Place(req[r])',
         \A i \in Row' \ Row : log'[i].turn \in 1 .. Len(said)',
         \A e \in handed' \ handed : e.channel = "call" => e.lead \in Person /\ e.row \in Row,
         classified' \subseteq UserRows'
  PROVE  Placed'
<1>1. \A i \in Row' : log'[i].turn \in 1 .. Len(said)'
  BY RowsStay DEF Placed, Grows
<1>2. ASSUME NEW p \in Requests PROVE Place(req[p])'
  <2>1. CASE p = r
    BY <2>1
  <2>2. CASE p # r
    <3>1. req'[p] = req[p] /\ Place(req[p])
      BY <2>2 DEF Others, Placed
    <3>2. PICK q : q = req[p]
      OBVIOUS
    <3>3. Place(q)'
      BY <3>1, <3>2, PlaceStays
    <3> QED
      BY <3>1, <3>2, <3>3
  <2> QED
    BY <2>1, <2>2
<1>3. \A e \in handed' : e.channel = "call" => e.lead \in Person' /\ e.row \in Row'
  BY RowsStay DEF Placed
<1> QED
  BY <1>1, <1>2, <1>3 DEF Placed

(* A step that leaves the transcript, the leads and the calls as they are.     *)
LEMMA PlacedOnward ==
  ASSUME Typed, Typed', Placed, NEW r \in Requests, Others(r), Place(req[r])',
         UNCHANGED <<said, log, leads, classified>>,
         \A e \in handed' \ handed : e.channel = "call" => e.lead \in Person /\ e.row \in Row
  PROVE  Placed'
<1>1. Grows /\ Row' = Row
  BY DEF Grows, Typed, Row
<1>2. classified' \subseteq UserRows'
  BY DEF Placed, UserRows, Row
<1> QED
  BY <1>1, <1>2, PlacedBut

LEMMA PlaceOfIdle == Place(Idle)
BY DEF Place, Idle, Working, Capturing

(* What is behind a stored message.                                            *)
LEMMA Behind ==
  ASSUME Typed, NEW role \in {"user", "bot"}, NEW t \in Nat, NEW reply \in Reply,
         AppendMessage(role, t, reply), Typed', Len(said') = Len(said), Len(leads') = Len(leads)
  PROVE  /\ Grows
         /\ Conflicts(role, t) => log' = log /\ Row' = Row
         /\ ~Conflicts(role, t) =>
              /\ Row' = Row \union {Len(log) + 1} /\ Len(log) + 1 \notin Row
              /\ Len(log') = Len(log) + 1
              /\ log'[Len(log) + 1] = [role |-> role, turn |-> t, intent |-> reply.intent,
                                       decision |-> reply.decision]
<1>1. Len(log) \in Nat /\ Len(said) \in Nat /\ Len(leads) \in Nat
  BY DEF Typed
<1>2. Conflicts(role, t) => log' = log /\ Row' = Row
  BY Appends DEF Row
<1>3. ~Conflicts(role, t) =>
              /\ Len(log') = Len(log) + 1
              /\ \A i \in Row : log'[i] = log[i]
              /\ log'[Len(log) + 1] = [role |-> role, turn |-> t, intent |-> reply.intent,
                                       decision |-> reply.decision]
  BY Appends
<1>4. ~Conflicts(role, t) => Row' = Row \union {Len(log) + 1} /\ Len(log) + 1 \notin Row
  BY <1>1, <1>3 DEF Row
<1> QED
  BY <1>1, <1>2, <1>3, <1>4 DEF Grows

LEMMA GoOnIs == GoOn \in Reply
BY DEF GoOn, Says, Reply, Intent, Decision

LEMMA PlacedNext ==
  ASSUME ChatAssumption, Typed, Placed, [Next]_vars
  PROVE  Typed' /\ Placed'
<1>0. CASE UNCHANGED vars
  <2>1. Typed'
    BY <1>0 DEF Typed, vars, history
  <2> QED
    BY <1>0, <2>1 DEF vars, history, Placed, Place, Row, Person, UserRows
<1>1. ASSUME NEW r \in Requests, NEW t \in Turn, Send(r, t) PROVE Typed' /\ Placed'
  <2>1. /\ Typed' /\ Others(r) /\ UNCHANGED <<log, leads, handed, classified>>
        /\ t \in 1 .. Len(said') /\ Len(said) <= Len(said')
        /\ req'[r].turn = t /\ req'[r].pc = (IF t \in WithId THEN "replay" ELSE "store")
    BY <1>1, SendDoes DEF Typed
  <2>2. Grows /\ Row' = Row /\ UserRows' = UserRows
    BY <2>1 DEF Grows, Typed, Row, UserRows
  <2>3. Place(req[r])'
    BY <2>1 DEF Place, Working, Capturing
  <2> QED
    BY <2>1, <2>2, <2>3, PlacedBut DEF Placed
<1> DEFINE P(r) == Typed' /\ Placed'
<1>2. ASSUME NEW r \in Requests, Replay(r) PROVE P(r)
  <2>1. /\ Typed' /\ Others(r) /\ Still /\ Place(req[r]) /\ req[r].pc = "replay"
        /\ Rests(r) \/ (req'[r].pc = "store" /\ Keeps(r))
    BY <1>2, ReplayDoes DEF Placed
  <2>2. Place(req[r])'
    BY <2>1, PlaceOfIdle DEF Place, Working, Capturing, Keeps, Rests, Still, Shared, Idle
  <2> QED
    BY <2>1, <2>2, PlacedOnward DEF Still, Shared
<1>3. ASSUME NEW r \in Requests, StoreUser(r) PROVE P(r)
  <2>1. /\ Typed' /\ Others(r) /\ UNCHANGED <<said, leads, handed, classified, differs, crossed, overlapped>>
        /\ req[r].pc = "store" /\ AppendMessage("user", req[r].turn, GoOn)
        /\ req'[r].pc = (IF GateOn THEN "lead" ELSE "book") /\ req'[r].turn = req[r].turn
        /\ IF Conflicts("user", req[r].turn) THEN req'[r].row \in Stored("user", req[r].turn)
           ELSE req'[r].row = Len(log) + 1
    BY <1>3, StoreUserDoes
  <2>2. PICK t \in 1 .. Len(said) : t = req[r].turn
    BY <2>1 DEF Placed, Place
  <2>3. /\ Grows
        /\ Conflicts("user", t) => log' = log /\ Row' = Row
        /\ ~Conflicts("user", t) =>
              /\ Row' = Row \union {Len(log) + 1} /\ Len(log) + 1 \notin Row
              /\ log'[Len(log) + 1].role = "user" /\ log'[Len(log) + 1].turn = t
    <3>1. /\ t \in Nat /\ Len(said') = Len(said) /\ Len(leads') = Len(leads)
          /\ AppendMessage("user", t, GoOn) /\ Typed'
      BY <2>1, <2>2
    <3>2. /\ Grows
          /\ Conflicts("user", t) => log' = log /\ Row' = Row
          /\ ~Conflicts("user", t) =>
              /\ Row' = Row \union {Len(log) + 1} /\ Len(log) + 1 \notin Row
              /\ log'[Len(log) + 1] = [role |-> "user", turn |-> t, intent |-> GoOn.intent,
                                       decision |-> GoOn.decision]
      BY <3>1, GoOnIs, Behind
    <3> QED
      BY <3>2
  <2>4. req'[r].row \in UserRows' /\ log'[req'[r].row].turn = t
    <3>1. CASE Conflicts("user", t)
      BY <2>1, <2>2, <2>3, <3>1 DEF Stored, UserRows, Row
    <3>2. CASE ~Conflicts("user", t)
      BY <2>1, <2>2, <2>3, <3>2 DEF UserRows
    <3> QED
      BY <3>1, <3>2
  <2>5. Place(req[r])'
    BY <2>1, <2>2, <2>4 DEF Place, Capturing, Working
  <2>6. \A i \in Row' \ Row : log'[i].turn \in 1 .. Len(said)'
    BY <2>1, <2>2, <2>3
  <2>7. classified' \subseteq UserRows'
    BY <2>1, <2>3, RowsStay DEF Placed
  <2> QED
    BY <2>1, <2>3, <2>5, <2>6, <2>7, PlacedBut
<1>4. ASSUME NEW r \in Requests, ReadLead(r) PROVE P(r)
  <2>1. /\ Typed' /\ Others(r) /\ Still /\ Place(req[r]) /\ req[r].pc = "lead"
        /\ req'[r].pc = "recent" /\ Keeps(r) /\ req'[r].lead = Len(leads)
    BY <1>4, ReadLeadDoes DEF Placed
  <2>2. Len(leads) \in Person \union {0}
    BY DEF Typed, Person
  <2>3. Place(req[r])'
    BY <2>1, <2>2 DEF Place, Working, Capturing, Keeps, Still, Shared, UserRows, Row, Person
  <2> QED
    BY <2>1, <2>3, PlacedOnward DEF Still, Shared
<1>5. ASSUME NEW r \in Requests, ReadRecent(r) PROVE P(r)
  <2>1. /\ Typed' /\ Others(r) /\ Still /\ Place(req[r]) /\ req[r].pc = "recent"
        /\ req'[r].pc \in {"gate", "write", "decide"} /\ (req'[r].pc = "write" => req'[r].field \in Fields)
        /\ Keeps(r) /\ KeepsLead(r)
    BY <1>5, ReadRecentDoes DEF Placed
  <2>2. Place(req[r])'
    BY <2>1 DEF Place, Working, Capturing, Keeps, KeepsLead, Still, Shared, UserRows, Row, Person
  <2> QED
    BY <2>1, <2>2, PlacedOnward DEF Still, Shared
<1>6. ASSUME NEW r \in Requests, Gate(r) PROVE P(r)
  <2>1. /\ Typed' /\ Others(r) /\ Still /\ Place(req[r]) /\ req[r].pc = "gate"
        /\ \/ Tells(r, {"identity_gate"})
           \/ /\ Keeps(r) /\ KeepsLead(r)
              /\ req'[r].pc \in {"write", "decide"} /\ (req'[r].pc = "write" => req'[r].field \in Fields)
    BY <1>6, GateDoes DEF Placed
  <2>2. Place(req[r])'
    BY <2>1 DEF Place, Working, Capturing, Keeps, KeepsLead, Tells, Still, Shared, UserRows, Row, Person
  <2> QED
    BY <2>1, <2>2, PlacedOnward DEF Still, Shared
<1>7. ASSUME NEW r \in Requests, Save(r) PROVE P(r)
  <2>1. /\ Typed' /\ Others(r) /\ UNCHANGED <<said, log, handed, classified, differs, crossed, overlapped>>
        /\ req[r].pc = "write" /\ req'[r].pc = "hand" /\ Keeps(r) /\ req'[r].field = req[r].field
        /\ req'[r].lead \in 1 .. Len(leads') /\ Place(req[r])
        /\ Len(leads) <= Len(leads')
    BY <1>7, SaveDoes DEF Placed, Typed
  <2>2. Place(req[r])'
    BY <2>1 DEF Place, Working, Capturing, Keeps, UserRows, Row, Person
  <2>3. Grows /\ Row' = Row /\ UserRows' = UserRows
    BY <2>1 DEF Grows, Typed, Row, UserRows
  <2> QED
    BY <2>1, <2>2, <2>3, PlacedBut DEF Placed
<1>8. ASSUME NEW r \in Requests, HandOver(r) PROVE P(r)
  <2>1. /\ Typed' /\ Others(r) /\ UNCHANGED <<said, log, leads, classified, differs, crossed, overlapped>>
        /\ Keeps(r) /\ req[r].pc = "hand" /\ req'[r].lead = req[r].lead /\ Place(req[r])
        /\ req'[r].pc \in {"write", "decide"} /\ (req'[r].pc = "write" => req'[r].field \in Fields)
        /\ \A e \in handed' \ handed : e.channel = "call" => e.lead = req[r].lead /\ e.row = req[r].row
    BY <1>8, HandOverDoes DEF Placed
  <2>2. req[r].lead \in Person /\ req[r].row \in Row
    BY <2>1 DEF Place, Working, Capturing, UserRows
  <2>3. Place(req[r])'
    BY <2>1, <2>2 DEF Place, Working, Capturing, Keeps, UserRows, Row, Person
  <2> QED
    BY <2>1, <2>2, <2>3, PlacedOnward
<1>9. ASSUME NEW r \in Requests, Decide(r) PROVE P(r)
  <2>1. /\ Typed' /\ Others(r) /\ UNCHANGED <<said, log, leads, classified, differs, crossed, overlapped>>
        /\ req[r].pc = "decide" /\ Place(req[r])
        /\ Tells(r, Ungated) \/ (req'[r].pc = "book" /\ Keeps(r))
        /\ \A e \in handed' \ handed : e.channel # "call"
    BY <1>9, DecideDoes DEF Placed
  <2>2. Place(req[r])'
    BY <2>1 DEF Place, Working, Capturing, Keeps, Tells, UserRows, Row, Person
  <2> QED
    BY <2>1, <2>2, PlacedOnward
<1>10. ASSUME NEW r \in Requests, Book(r) PROVE P(r)
  <2>1. /\ Typed' /\ Others(r) /\ Still /\ req[r].pc = "book" /\ Place(req[r])
        /\ Tells(r, Ungated) \/ (req'[r].pc = "cap" /\ Keeps(r))
    BY <1>10, BookDoes DEF Placed
  <2>2. Place(req[r])'
    BY <2>1 DEF Place, Working, Capturing, Keeps, Tells, Still, Shared, UserRows, Row, Person
  <2> QED
    BY <2>1, <2>2, PlacedOnward DEF Still, Shared
<1>11. ASSUME NEW r \in Requests, Cap(r) PROVE P(r)
  <2>1. /\ Typed' /\ Others(r) /\ Still /\ req[r].pc = "cap" /\ Place(req[r])
        /\ Tells(r, Ungated) \/ (req'[r].pc = "classify" /\ Keeps(r))
    BY <1>11, CapDoes DEF Placed
  <2>2. Place(req[r])'
    BY <2>1 DEF Place, Working, Capturing, Keeps, Tells, Still, Shared, UserRows, Row, Person
  <2> QED
    BY <2>1, <2>2, PlacedOnward DEF Still, Shared
<1>12. ASSUME NEW r \in Requests, Classify(r) PROVE P(r)
  <2>1. /\ Typed' /\ Others(r) /\ UNCHANGED <<said, log, leads, handed, differs, crossed, overlapped>>
        /\ req[r].pc = "classify" /\ classified' = classified \union {req[r].row} /\ Place(req[r])
        /\ \/ Tells(r, Ungated)
           \/ req'[r].pc = "generate" /\ req'[r].turn = req[r].turn /\ req'[r].reply.decision \in Ungated
    BY <1>12, ClassifyDoes DEF Placed
  <2>2. Place(req[r])'
    BY <2>1 DEF Place, Working, Capturing, Tells, UserRows, Row, Person, Ungated
  <2>3. Grows /\ Row' = Row /\ UserRows' = UserRows
    BY <2>1 DEF Grows, Typed, Row, UserRows
  <2>4. req[r].row \in UserRows
    BY <2>1 DEF Place, Working
  <2> QED
    BY <2>1, <2>2, <2>3, <2>4, PlacedBut DEF Placed
<1>13. ASSUME NEW r \in Requests, Generate(r) PROVE P(r)
  <2>1. /\ Typed' /\ Others(r) /\ Still /\ req[r].pc = "generate" /\ Place(req[r])
        /\ req'[r].pc = "answer" /\ req'[r].turn = req[r].turn
    BY <1>13, GenerateDoes DEF Placed, Tells
  <2>2. Place(req[r])'
    BY <2>1 DEF Place, Working, Capturing, Still, Shared
  <2> QED
    BY <2>1, <2>2, PlacedOnward DEF Still, Shared
<1>14. ASSUME NEW r \in Requests, Answer(r) PROVE P(r)
  <2>1. /\ Typed' /\ Others(r) /\ UNCHANGED <<said, leads, handed, classified, crossed, overlapped>>
        /\ req[r].pc = "answer" /\ AppendMessage("bot", req[r].turn, req[r].reply) /\ Rests(r)
    BY <1>14, AnswerDoes
  <2>2. req[r].turn \in 1 .. Len(said) /\ req[r].turn \in Nat /\ req[r].reply \in Reply
    BY <2>1 DEF Placed, Place, Typed, RequestOf
  <2>3. PICK t \in Nat, reply \in Reply : t = req[r].turn /\ reply = req[r].reply
    BY <2>2
  <2>4. /\ Grows
        /\ Conflicts("bot", t) => log' = log /\ Row' = Row
        /\ ~Conflicts("bot", t) =>
              Row' = Row \union {Len(log) + 1} /\ log'[Len(log) + 1].turn = t
    <3>1. /\ Len(said') = Len(said) /\ Len(leads') = Len(leads)
          /\ AppendMessage("bot", t, reply) /\ Typed'
      BY <2>1, <2>3
    <3>2. /\ Grows
          /\ Conflicts("bot", t) => log' = log /\ Row' = Row
          /\ ~Conflicts("bot", t) =>
              /\ Row' = Row \union {Len(log) + 1}
              /\ log'[Len(log) + 1] = [role |-> "bot", turn |-> t, intent |-> reply.intent,
                                       decision |-> reply.decision]
      BY <3>1, Behind
    <3> QED
      BY <3>2
  <2>5. Place(req[r])'
    BY <2>1, PlaceOfIdle DEF Rests, Place, Idle, Working, Capturing
  <2>6. \A i \in Row' \ Row : log'[i].turn \in 1 .. Len(said)'
    BY <2>1, <2>2, <2>3, <2>4
  <2>7. classified' \subseteq UserRows'
    BY <2>1, <2>4, RowsStay DEF Placed
  <2> QED
    BY <2>1, <2>4, <2>5, <2>6, <2>7, PlacedBut
<1>15. ASSUME NEW r \in Requests, Fail(r) PROVE P(r)
  <2>1. Typed' /\ Others(r) /\ Still /\ Rests(r)
    BY <1>15, FailDoes
  <2>2. Place(req[r])'
    BY <2>1 DEF Rests, Place, Idle, Working, Capturing
  <2> QED
    BY <2>1, <2>2, PlacedOnward DEF Still, Shared
<1> QED
  BY <1>0, <1>1, <1>2, <1>3, <1>4, <1>5, <1>6, <1>7, <1>8, <1>9, <1>10, <1>11, <1>12, <1>13, <1>14, <1>15 DEF Next, Step

-----------------------------------------------------------------------------
(* Requests that run at once are known, and a turn with an id has one answer.  *)
Proceeds(r) ==
  \/ Rests(r)
  \/ /\ req[r].pc # "idle" /\ req'[r].turn = req[r].turn
     /\ req[r].pc = "replay" => Stored("bot", req[r].turn) = {}

LEMMA StoredAfter ==
  ASSUME Typed, NEW role \in {"user", "bot"}, NEW t \in Nat, NEW reply \in Reply,
         AppendMessage(role, t, reply), Typed', Len(said') = Len(said), Len(leads') = Len(leads),
         NEW other, NEW s
  PROVE  /\ Stored(other, s) \subseteq Stored(other, s)'
         /\ (other # role \/ s # t \/ Conflicts(role, t)) => Stored(other, s)' = Stored(other, s)
         /\ Stored(other, s)' \subseteq Stored(other, s) \union {Len(log) + 1}
<1>1. /\ Grows
      /\ Conflicts(role, t) => log' = log /\ Row' = Row
      /\ ~Conflicts(role, t) =>
              /\ Row' = Row \union {Len(log) + 1} /\ Len(log) + 1 \notin Row
              /\ log'[Len(log) + 1].role = role /\ log'[Len(log) + 1].turn = t
  <2>1. /\ Grows
        /\ Conflicts(role, t) => log' = log /\ Row' = Row
        /\ ~Conflicts(role, t) =>
              /\ Row' = Row \union {Len(log) + 1} /\ Len(log) + 1 \notin Row
              /\ log'[Len(log) + 1] = [role |-> role, turn |-> t, intent |-> reply.intent,
                                       decision |-> reply.decision]
    BY Behind
  <2> QED
    BY <2>1
<1>2. Row \subseteq Row' /\ \A i \in Row : log'[i] = log[i]
  BY <1>1, RowsStay DEF Grows
<1>3. /\ Stored(other, s) = {i \in Row : log[i].role = other /\ log[i].turn = s}
      /\ Stored(other, s)' = {i \in Row' : log'[i].role = other /\ log'[i].turn = s}
  BY DEF Stored, Row
<1> QED
  BY <1>1, <1>2, <1>3

LEMMA TriedOnward ==
  ASSUME Typed, Tried, NEW r \in Requests, Others(r), Proceeds(r), Typed',
         UNCHANGED <<log, differs, crossed, overlapped>>
  PROVE  Tried'
<1>1. \A role, t : Stored(role, t)' = Stored(role, t)
  BY DEF Stored
<1>2. \A p \in Requests : req'[p].pc # "idle" => req[p].pc # "idle" /\ req'[p].turn = req[p].turn
  BY DEF Others, Proceeds, Rests, Idle
<1>3. \A p \in Requests : req'[p].pc \notin {"idle", "replay"} /\ req'[p].turn \in WithId \ crossed =>
        Stored("bot", req'[p].turn) = {}
  <2> SUFFICES ASSUME NEW p \in Requests, req'[p].pc \notin {"idle", "replay"},
                      req'[p].turn \in WithId \ crossed
               PROVE  Stored("bot", req'[p].turn) = {}
    OBVIOUS
  <2>1. CASE p # r
    BY <2>1 DEF Others, Tried
  <2>2. CASE p = r
    BY <2>2 DEF Proceeds, Rests, Idle, Tried
  <2> QED
    BY <2>1, <2>2
<1>4. \A p, q \in Requests : p # q /\ req'[p].pc # "idle" /\ req'[q].pc # "idle" =>
       overlapped /\ (req'[p].turn = req'[q].turn => req'[q].turn \in crossed)
  BY <1>2 DEF Tried
<1> QED
  BY <1>1, <1>3, <1>4 DEF Tried, ToldIsStored

LEMMA TriedNext ==
  ASSUME ChatAssumption, Typed, Placed, Tried, [Next]_vars
  PROVE  Tried'
<1>0. CASE UNCHANGED vars
  BY <1>0 DEF vars, history, Tried, Stored, ToldIsStored
<1>t. Typed' /\ Placed'
  BY PlacedNext
<1>1. ASSUME NEW r \in Requests, NEW t \in Turn, Send(r, t) PROVE Tried'
  <2>1. /\ Others(r) /\ UNCHANGED <<log, differs>> /\ req[r].pc = "idle"
        /\ req'[r].turn = t /\ req'[r].pc = (IF t \in WithId THEN "replay" ELSE "store")
        /\ overlapped' = (overlapped \/ Active # {})
        /\ crossed' = IF \E p \in Active : req[p].turn = t THEN crossed \union {t} ELSE crossed
    BY <1>1, SendDoes
  <2>2. \A role, s : Stored(role, s)' = Stored(role, s)
    BY <2>1 DEF Stored
  <2>3. \A p \in Requests : p # r /\ req[p].pc # "idle" =>
          overlapped' /\ (req[p].turn = t => t \in crossed')
    BY <2>1 DEF Active
  <2>4. crossed \subseteq crossed' /\ (overlapped => overlapped') /\ (~overlapped' => crossed' = {})
    BY <2>1 DEF Tried
  <2>5. \A p, q \in Requests : p # q /\ req'[p].pc # "idle" /\ req'[q].pc # "idle" =>
          overlapped' /\ (req'[p].turn = req'[q].turn => req'[q].turn \in crossed')
    <3> SUFFICES ASSUME NEW p \in Requests, NEW q \in Requests, p # q, req'[p].pc # "idle", req'[q].pc # "idle"
                 PROVE  overlapped' /\ (req'[p].turn = req'[q].turn => req'[q].turn \in crossed')
      OBVIOUS
    <3>1. CASE p = r
      BY <2>1, <2>3, <3>1 DEF Others
    <3>2. CASE q = r
      BY <2>1, <2>3, <3>2 DEF Others
    <3>3. CASE p # r /\ q # r
      BY <2>1, <2>4, <3>3 DEF Others, Tried
    <3> QED
      BY <3>1, <3>2, <3>3
  <2>6. \A p \in Requests : req'[p].pc \notin {"idle", "replay"} /\ req'[p].turn \in WithId \ crossed' =>
          Stored("bot", req'[p].turn) = {}
    <3> SUFFICES ASSUME NEW p \in Requests, req'[p].pc \notin {"idle", "replay"},
                        req'[p].turn \in WithId \ crossed'
                 PROVE  Stored("bot", req'[p].turn) = {}
      OBVIOUS
    <3>1. p # r
      BY <2>1
    <3> QED
      BY <2>1, <2>4, <3>1 DEF Others, Tried
  <2> QED
    BY <2>1, <2>2, <2>4, <2>5, <2>6 DEF Tried, ToldIsStored
<1>2. ASSUME NEW r \in Requests, StoreUser(r) PROVE Tried'
  <2>1. /\ Others(r) /\ UNCHANGED <<said, leads, differs, crossed, overlapped>>
        /\ req[r].pc = "store" /\ AppendMessage("user", req[r].turn, GoOn)
        /\ req'[r].pc # "idle" /\ req'[r].turn = req[r].turn
    BY <1>2, StoreUserDoes
  <2>2. PICK t \in Nat : t = req[r].turn
    BY DEF Typed, RequestOf
  <2>3. /\ \A s : Stored("bot", s)' = Stored("bot", s)
        /\ \A s : s # t \/ Conflicts("user", t) => Stored("user", s)' = Stored("user", s)
        /\ Stored("user", t)' \subseteq Stored("user", t) \union {Len(log) + 1}
    <3>1. AppendMessage("user", t, GoOn) /\ Len(said') = Len(said) /\ Len(leads') = Len(leads)
      BY <2>1, <2>2
    <3> QED
      BY <1>t, <3>1, GoOnIs, StoredAfter
  <2>4. \A s \in WithId : \A i, j \in Stored("user", s)' : i = j
    <3> SUFFICES ASSUME NEW s \in WithId PROVE \A i, j \in Stored("user", s)' : i = j
      OBVIOUS
    <3>1. CASE s # t \/ Conflicts("user", t)
      BY <2>3, <3>1 DEF Tried
    <3>2. CASE s = t /\ ~Conflicts("user", t)
      <4>1. Stored("user", t) = {}
        BY <3>2 DEF Conflicts
      <4> QED
        BY <2>3, <3>2, <4>1
    <3> QED
      BY <3>1, <3>2
  <2>5. \A p \in Requests : req'[p].turn = req[p].turn /\ (req'[p].pc # "idle" => req[p].pc # "idle")
                            /\ (req'[p].pc \notin {"idle", "replay"} => req[p].pc \notin {"idle", "replay"})
    BY <2>1 DEF Others
  <2>6. \A p, q \in Requests : p # q /\ req'[p].pc # "idle" /\ req'[q].pc # "idle" =>
          overlapped /\ (req'[p].turn = req'[q].turn => req'[q].turn \in crossed)
    BY <2>5 DEF Tried
  <2>7. \A p \in Requests : req'[p].pc \notin {"idle", "replay"} /\ req'[p].turn \in WithId \ crossed =>
          Stored("bot", req'[p].turn) = {}
    BY <2>5 DEF Tried
  <2> QED
    BY <2>1, <2>3, <2>4, <2>6, <2>7 DEF Tried, ToldIsStored
<1>3. ASSUME NEW r \in Requests, Answer(r) PROVE Tried'
  <2>1. /\ Others(r) /\ UNCHANGED <<said, leads, crossed, overlapped>>
        /\ req[r].pc = "answer" /\ AppendMessage("bot", req[r].turn, req[r].reply)
        /\ Rests(r)
        /\ differs' \subseteq differs \union {req[r].turn}
        /\ ~Conflicts("bot", req[r].turn) => differs' = differs
    BY <1>3, AnswerDoes
  <2>2. PICK t \in Nat, reply \in Reply : t = req[r].turn /\ reply = req[r].reply
    BY DEF Typed, RequestOf
  <2>3. /\ \A s : Stored("user", s)' = Stored("user", s)
        /\ \A s : s # t => Stored("bot", s)' = Stored("bot", s)
    <3>1. AppendMessage("bot", t, reply) /\ Len(said') = Len(said) /\ Len(leads') = Len(leads)
      BY <2>1, <2>2
    <3>2. \A s : Stored("user", s)' = Stored("user", s)
      BY <1>t, <3>1, StoredAfter
    <3>3. \A s : s # t => Stored("bot", s)' = Stored("bot", s)
      BY <1>t, <3>1, StoredAfter
    <3> QED
      BY <3>2, <3>3
  <2>4. Conflicts("bot", t) => t \in crossed
    BY <2>1, <2>2 DEF Conflicts, Tried
  <2>5. differs' \subseteq crossed'
    BY <2>1, <2>2, <2>4 DEF Tried, ToldIsStored
  <2>6. \A p \in Requests : req'[p].pc # "idle" => p # r /\ req'[p] = req[p]
    BY <2>1 DEF Others, Rests, Idle
  <2>7. \A p \in Requests : req'[p].pc # "idle" /\ req'[p].turn \notin crossed => req'[p].turn # t
    BY <2>1, <2>2, <2>6 DEF Tried
  <2>8. ASSUME NEW p \in Requests, req'[p].pc \notin {"idle", "replay"},
               req'[p].turn \in WithId \ crossed
        PROVE  Stored("bot", req[p].turn)' = {}
    <3>1. PICK s : s = req'[p].turn
      OBVIOUS
    <3>2. s # t /\ Stored("bot", s) = {}
      BY <2>6, <2>7, <2>8, <3>1 DEF Tried
    <3>3. Stored("bot", s)' = {}
      BY <2>3, <3>2
    <3> QED
      BY <3>1, <3>3 DEF Stored
  <2>9. \A p, q \in Requests : p # q /\ req'[p].pc # "idle" /\ req'[q].pc # "idle" =>
          overlapped /\ (req'[p].turn = req'[q].turn => req'[q].turn \in crossed)
    BY <2>6 DEF Tried
  <2> QED
    BY <2>1, <2>3, <2>5, <2>8, <2>9 DEF Tried, ToldIsStored
<1>4. ASSUME NEW r \in Requests,
             Others(r), Proceeds(r), UNCHANGED <<log, differs, crossed, overlapped>>
      PROVE  Tried'
  BY <1>t, <1>4, TriedOnward
<1>5. ASSUME NEW r \in Requests,
             \/ Replay(r) \/ ReadLead(r) \/ ReadRecent(r) \/ Gate(r) \/ Save(r) \/ HandOver(r)
             \/ Decide(r) \/ Book(r) \/ Cap(r) \/ Classify(r) \/ Generate(r) \/ Fail(r)
      PROVE  Tried'
  <2>1. Replay(r) => Others(r) /\ Proceeds(r) /\ UNCHANGED <<log, differs, crossed, overlapped>>
    BY ReplayDoes DEF Proceeds, Keeps, Still, Shared
  <2>2. ReadLead(r) => Others(r) /\ Proceeds(r) /\ UNCHANGED <<log, differs, crossed, overlapped>>
    BY ReadLeadDoes DEF Proceeds, Keeps, Still, Shared
  <2>3. ReadRecent(r) => Others(r) /\ Proceeds(r) /\ UNCHANGED <<log, differs, crossed, overlapped>>
    BY ReadRecentDoes DEF Proceeds, Keeps, Still, Shared
  <2>4. Gate(r) => Others(r) /\ Proceeds(r) /\ UNCHANGED <<log, differs, crossed, overlapped>>
    BY GateDoes DEF Proceeds, Keeps, Tells, Still, Shared
  <2>5. Save(r) => Others(r) /\ Proceeds(r) /\ UNCHANGED <<log, differs, crossed, overlapped>>
    BY SaveDoes DEF Proceeds, Keeps
  <2>6. HandOver(r) => Others(r) /\ Proceeds(r) /\ UNCHANGED <<log, differs, crossed, overlapped>>
    BY HandOverDoes DEF Proceeds, Keeps
  <2>7. Decide(r) => Others(r) /\ Proceeds(r) /\ UNCHANGED <<log, differs, crossed, overlapped>>
    BY DecideDoes DEF Proceeds, Keeps, Tells
  <2>8. Book(r) => Others(r) /\ Proceeds(r) /\ UNCHANGED <<log, differs, crossed, overlapped>>
    BY BookDoes DEF Proceeds, Keeps, Tells, Still, Shared
  <2>9. Cap(r) => Others(r) /\ Proceeds(r) /\ UNCHANGED <<log, differs, crossed, overlapped>>
    BY CapDoes DEF Proceeds, Keeps, Tells, Still, Shared
  <2>10. Classify(r) => Others(r) /\ Proceeds(r) /\ UNCHANGED <<log, differs, crossed, overlapped>>
    BY ClassifyDoes DEF Proceeds, Tells
  <2>11. Generate(r) => Others(r) /\ Proceeds(r) /\ UNCHANGED <<log, differs, crossed, overlapped>>
    BY GenerateDoes DEF Proceeds, Tells, Still, Shared
  <2>12. Fail(r) => Others(r) /\ Proceeds(r) /\ UNCHANGED <<log, differs, crossed, overlapped>>
    BY FailDoes DEF Proceeds, Still, Shared
  <2> QED
    BY <1>4, <1>5, <2>1, <2>2, <2>3, <2>4, <2>5, <2>6, <2>7, <2>8, <2>9, <2>10, <2>11, <2>12
<1> QED
  BY <1>0, <1>1, <1>2, <1>3, <1>5 DEF Next, Step

-----------------------------------------------------------------------------
(* Nothing is taken back.                                                      *)
LEMMA GrowsNext ==
  ASSUME ChatAssumption, Typed, Placed, [Next]_vars
  PROVE  Grows
<1> USE DEF Typed
<1>t. Typed'
  BY PlacedNext
<1>0. CASE UNCHANGED vars
  BY <1>0 DEF vars, history, Grows
<1>1. ASSUME NEW r \in Requests, NEW t \in Turn, Send(r, t) PROVE Grows
  BY <1>1, SendDoes DEF Grows
<1>2. ASSUME NEW r \in Requests, StoreUser(r) PROVE Grows
  <2>1. /\ UNCHANGED <<said, leads>> /\ AppendMessage("user", req[r].turn, GoOn) /\ req[r].turn \in Nat
    BY <1>2, StoreUserDoes DEF RequestOf
  <2>2. Len(said') = Len(said) /\ Len(leads') = Len(leads)
    BY <2>1
  <2> QED
    BY <1>t, <2>1, <2>2, GoOnIs, Behind
<1>3. ASSUME NEW r \in Requests, Answer(r) PROVE Grows
  <2>1. /\ UNCHANGED <<said, leads>> /\ AppendMessage("bot", req[r].turn, req[r].reply)
        /\ req[r].turn \in Nat /\ req[r].reply \in Reply
    BY <1>3, AnswerDoes DEF RequestOf
  <2>2. Len(said') = Len(said) /\ Len(leads') = Len(leads)
    BY <2>1
  <2> QED
    BY <1>t, <2>1, <2>2, Behind
<1>4. ASSUME NEW r \in Requests, Save(r) PROVE Grows
  BY <1>4, SaveDoes DEF Grows
<1>5. ASSUME NEW r \in Requests,
             \/ Replay(r) \/ ReadLead(r) \/ ReadRecent(r) \/ Gate(r) \/ HandOver(r)
             \/ Decide(r) \/ Book(r) \/ Cap(r) \/ Classify(r) \/ Generate(r) \/ Fail(r)
      PROVE  Grows
  <2>1. UNCHANGED <<said, log, leads>>
    BY <1>5 DEF Replay, ReadLead, ReadRecent, Gate, HandOver, Decide, Book, Cap, Classify, Generate, Fail
  <2> QED
    BY <2>1 DEF Grows
<1> QED
  BY <1>0, <1>1, <1>2, <1>3, <1>4, <1>5 DEF Next, Step

(* Before the name was asked for, nobody is past the gate ...                  *)
LEMMA NamelessNext ==
  ASSUME ChatAssumption, Typed, Placed, GateOn, ~Asked, Nameless, [Next]_vars
  PROVE  Nameless'
<1>0. CASE UNCHANGED vars
  BY <1>0 DEF vars, history, Nameless
<1> DEFINE Fresh(q) == /\ q.pc \notin {"write", "hand", "decide", "book", "cap", "classify", "generate"}
                       /\ q.pc = "recent" => "name" \notin q.as.has
<1>1. ASSUME NEW r \in Requests, Others(r), Fresh(req'[r]), UNCHANGED <<classified, leads>>
      PROVE  Nameless'
  BY <1>1 DEF Nameless, Others
<1>f. \A r \in Requests : Fresh(req[r])
  BY DEF Nameless
<1>2. ASSUME NEW r \in Requests, NEW t \in Turn, Send(r, t) PROVE Nameless'
  <2>1. Others(r) /\ UNCHANGED <<leads, classified>> /\ req'[r].pc \in {"replay", "store"}
    BY <1>2, SendDoes
  <2> QED
    BY <1>1, <2>1
<1>3. ASSUME NEW r \in Requests, Step(r) \/ Fail(r) PROVE Nameless'
  <2>1. Replay(r) => Others(r) /\ UNCHANGED <<leads, classified>> /\ req'[r].pc \in {"idle", "store"}
    BY ReplayDoes DEF Rests, Still, Shared, Idle
  <2>2. StoreUser(r) => Others(r) /\ UNCHANGED <<leads, classified>> /\ req'[r].pc = "lead"
    BY StoreUserDoes
  <2>3. ReadLead(r) => Others(r) /\ UNCHANGED <<leads, classified>> /\ req'[r].pc = "recent"
                       /\ req'[r].as = Nobody
    BY ReadLeadDoes DEF Newest, Nameless, Still, Shared
  <2>4. ReadRecent(r) => Others(r) /\ UNCHANGED <<leads, classified>> /\ req'[r].pc = "gate"
    BY <1>f, ReadRecentDoes DEF Still, Shared
  <2>5. Gate(r) => Others(r) /\ UNCHANGED <<leads, classified>> /\ req'[r].pc = "answer"
    BY GateDoes DEF Asked, Tells, Still, Shared
  <2>6. Answer(r) => Others(r) /\ UNCHANGED <<leads, classified>> /\ req'[r].pc = "idle"
    BY AnswerDoes DEF Rests, Idle
  <2>7. Fail(r) => Others(r) /\ UNCHANGED <<leads, classified>> /\ req'[r].pc = "idle"
    BY FailDoes DEF Rests, Idle, Still, Shared
  <2>8. ~ (Save(r) \/ HandOver(r) \/ Decide(r) \/ Book(r) \/ Cap(r) \/ Classify(r) \/ Generate(r))
    BY <1>f DEF Save, HandOver, Decide, Book, Cap, Classify, Generate, At
  <2>9. "name" \notin Nobody.has
    BY DEF Nobody
  <2> HIDE DEF Step
  <2>10. Others(r) /\ UNCHANGED <<leads, classified>> /\ Fresh(req'[r])
    BY <1>3, <2>1, <2>2, <2>3, <2>4, <2>5, <2>6, <2>7, <2>8, <2>9 DEF Step
  <2> QED
    BY <1>1, <2>10
<1> QED
  BY <1>0, <1>2, <1>3 DEF Next

(* ... but for a visitor whose name was known when the chat began.             *)
LEMMA NamedNext ==
  ASSUME ChatAssumption, Typed, Placed, GateOn, Named, [Next]_vars
  PROVE  Named'
<1>0. CASE UNCHANGED vars
  BY <1>0 DEF vars, history, Named
<1> DEFINE Known1(q) == /\ q.pc # "gate"
                        /\ q.pc \in Capturing \ {"lead"} => q.lead = 1
                        /\ q.pc \in {"recent", "write"} => "name" \in q.as.has
<1>1. ASSUME NEW r \in Requests, Others(r), Known1(req'[r]), UNCHANGED leads
      PROVE  Named'
  BY <1>1 DEF Named, Others
<1>f. Len(leads) = 1 /\ "name" \in leads[1].has /\ leads # <<>> /\ \A r \in Requests : Known1(req[r])
  BY DEF Named, Typed
<1>2. ASSUME NEW r \in Requests, NEW t \in Turn, Send(r, t) PROVE Named'
  <2>1. Others(r) /\ UNCHANGED leads /\ req'[r].pc \in {"replay", "store"}
    BY <1>2, SendDoes
  <2>2. Known1(req'[r])
    BY <2>1 DEF Capturing
  <2> QED
    BY <1>1, <2>1, <2>2
<1>3. ASSUME NEW r \in Requests, Step(r) \/ Fail(r), ~Save(r) PROVE Named'
  <2>1. Replay(r) => Others(r) /\ UNCHANGED leads /\ req'[r].pc \in {"idle", "store"}
    BY ReplayDoes DEF Rests, Still, Shared, Idle
  <2>2. StoreUser(r) => Others(r) /\ UNCHANGED leads /\ req'[r].pc = "lead"
    BY StoreUserDoes
  <2>3. ReadLead(r) => Others(r) /\ UNCHANGED leads /\ req'[r].pc = "recent"
                       /\ req'[r].lead = 1 /\ req'[r].as = leads[1]
    BY <1>f, ReadLeadDoes DEF Newest, Still, Shared
  <2>4. ReadRecent(r) => Others(r) /\ UNCHANGED leads /\ req'[r].pc \in {"write", "decide"}
                         /\ req'[r].lead = 1 /\ "name" \in req'[r].as.has
    BY <1>f, ReadRecentDoes DEF KeepsLead, Still, Shared, Capturing
  <2>5. ~Gate(r)
    BY <1>f DEF Gate, At
  <2>6. Answer(r) => Others(r) /\ UNCHANGED leads /\ req'[r].pc = "idle"
    BY AnswerDoes DEF Rests, Idle
  <2>7. Fail(r) => Others(r) /\ UNCHANGED leads /\ req'[r].pc = "idle"
    BY FailDoes DEF Rests, Idle, Still, Shared
  <2>8. HandOver(r) => Others(r) /\ UNCHANGED leads /\ req'[r].pc \in {"write", "decide"}
                       /\ req'[r].lead = 1 /\ "name" \in req'[r].as.has
    BY <1>f, HandOverDoes DEF Capturing
  <2>9. Decide(r) => Others(r) /\ UNCHANGED leads /\ req'[r].pc \in {"answer", "book"}
    BY DecideDoes DEF Tells
  <2>10. Book(r) => Others(r) /\ UNCHANGED leads /\ req'[r].pc \in {"answer", "cap"}
    BY BookDoes DEF Tells, Still, Shared
  <2>11. Cap(r) => Others(r) /\ UNCHANGED leads /\ req'[r].pc \in {"answer", "classify"}
    BY CapDoes DEF Tells, Still, Shared
  <2>12. Classify(r) => Others(r) /\ UNCHANGED leads /\ req'[r].pc \in {"answer", "generate"}
    BY ClassifyDoes DEF Tells
  <2>13. Generate(r) => Others(r) /\ UNCHANGED leads /\ req'[r].pc = "answer"
    BY GenerateDoes DEF Tells, Still, Shared
  <2>14. Others(r) /\ UNCHANGED leads /\ Known1(req'[r])
    BY <1>3, <1>f, <2>1, <2>2, <2>3, <2>4, <2>5, <2>6, <2>7, <2>8, <2>9, <2>10, <2>11, <2>12, <2>13
       DEF Step, Capturing
  <2> QED
    BY <1>1, <2>14
<1>4. ASSUME NEW r \in Requests, Save(r) PROVE Named'
  <2>1. /\ Others(r) /\ req[r].pc = "write" /\ req'[r].pc = "hand"
        /\ req'[r].lead = (IF req[r].lead = 0 THEN Len(leads) + 1 ELSE req[r].lead)
        /\ IF req[r].lead = 0 THEN Len(leads') = Len(leads) + 1
           ELSE /\ Len(leads') = Len(leads)
                /\ leads'[req[r].lead].has = leads[req[r].lead].has \union {req[r].field}
    BY <1>4, SaveDoes
  <2>2. req[r].lead = 1
    BY <1>f, <2>1 DEF Capturing
  <2>3. Len(leads') = 1 /\ "name" \in leads'[1].has /\ Known1(req'[r])
    BY <1>f, <2>1, <2>2
  <2> QED
    BY <1>f, <2>1, <2>3 DEF Named, Others
<1> QED
  BY <1>0, <1>2, <1>3, <1>4 DEF Next

LEMMA NameKnownNext ==
  ASSUME ChatAssumption, Typed, Placed, NameKnown, [Next]_vars
  PROVE  NameKnown'
<1>1. Asked => Asked'
  BY GrowsNext, PlacedNext, RowsStay DEF Asked
<1> QED
  BY <1>1, NamelessNext, NamedNext DEF NameKnown

-----------------------------------------------------------------------------
(* What is classified is counted.                                              *)
LEMMA CrossedGrows ==
  ASSUME ChatAssumption, Typed, Placed, [Next]_vars
  PROVE  crossed \subseteq crossed' /\ (overlapped => overlapped')
<1>1. ASSUME NEW r \in Requests, NEW t \in Turn, Send(r, t)
      PROVE  crossed \subseteq crossed' /\ (overlapped => overlapped')
  BY <1>1, SendDoes
<1>2. ASSUME NEW r \in Requests, Step(r) \/ Fail(r) PROVE UNCHANGED <<crossed, overlapped>>
  BY <1>2 DEF Step, Fail, Replay, StoreUser, ReadLead, ReadRecent, Gate, Save, HandOver, Decide, Book, Cap,
              Classify, Generate, Answer, history
<1>3. CASE UNCHANGED vars
  BY <1>3 DEF vars, history
<1> QED
  BY <1>1, <1>2, <1>3 DEF Next

LEMMA PassedIs ==
  ASSUME Typed, Placed
  PROVE  Passed \subseteq UserRows /\ IsFiniteSet(UserRows) /\ IsFiniteSet(GateRows)
         /\ UserRows \subseteq Row /\ GateRows \subseteq Row /\ Row \subseteq Nat
<1>1. IsFiniteSet(Row) /\ Row \subseteq Nat
  BY FS_Interval DEF Row, Typed
<1>2. UserRows \subseteq Row /\ GateRows \subseteq Row
  BY DEF UserRows, GateRows
<1>3. \A r \in Requests : req[r].pc = "classify" => req[r].row \in UserRows
  BY DEF Placed, Place, Working
<1> QED
  BY <1>1, <1>2, <1>3, FS_Subset DEF Passed, Placed

LEMMA TurnsIs ==
  ASSUME Typed, Placed
  PROVE  Turns = Cardinality(UserRows) - Cardinality(GateRows)
<1>1. {i \in 1 .. Len(log) : log[i].role = "user" /\ log[i].decision \in Decision} = UserRows
  <2>1. \A i \in 1 .. Len(log) : log[i] \in MessageOf
    BY DEF Typed
  <2>2. \A i \in 1 .. Len(log) : log[i].decision \in Decision
    BY <2>1 DEF MessageOf
  <2> QED
    BY <2>2 DEF UserRows, Row
<1>2. {i \in 1 .. Len(log) : log[i].role = "bot" /\ log[i].decision \in {"identity_gate"}} = GateRows
  BY DEF GateRows, Row
<1> QED
  BY <1>1, <1>2 DEF Turns, Count

(* Every gate's answer takes a message of its own out of the count.            *)
LEMMA GatesAreApart ==
  ASSUME Typed, Placed, NEW P \in SUBSET UserRows,
         \A g \in GateRows : \E u \in UserRows : Meets(u, g) /\ u \notin P,
         \A g, h \in GateRows : g < h /\ log[g].turn = log[h].turn =>
           \E u \in UserRows : log[u].turn = log[g].turn /\ g < u /\ u < h
  PROVE  IsFiniteSet(P) /\ Cardinality(P) <= Turns
<1> DEFINE f == [g \in GateRows |-> CHOOSE u \in UserRows : Meets(u, g) /\ u \notin P]
<1>1. \A g \in GateRows : f[g] \in UserRows \ P /\ Meets(f[g], g)
  OBVIOUS
<1>2. f \in [GateRows -> UserRows \ P]
  BY <1>1
<1> HIDE DEF f
<1>3. ASSUME NEW g \in GateRows, NEW h \in GateRows, f[g] = f[h], g < h PROVE FALSE
  <2>1. f[g] < g /\ log[f[g]].turn = log[g].turn /\ log[f[h]].turn = log[h].turn
        /\ \A j \in UserRows : log[j].turn = log[h].turn /\ j < h => j <= f[h]
    BY <1>1 DEF Meets
  <2>2. PICK u \in UserRows : log[u].turn = log[g].turn /\ g < u /\ u < h
    BY <1>3, <2>1
  <2>3. u <= f[g]
    BY <1>3, <2>1, <2>2
  <2>4. u \in Nat /\ g \in Nat /\ f[g] \in Nat
    BY <1>1, PassedIs
  <2> QED
    BY <2>1, <2>2, <2>3, <2>4
<1>4. \A g, h \in GateRows : f[g] = f[h] => g = h
  <2> SUFFICES ASSUME NEW g \in GateRows, NEW h \in GateRows, f[g] = f[h], g # h PROVE FALSE
    OBVIOUS
  <2>1. g \in Nat /\ h \in Nat
    BY PassedIs
  <2> QED
    BY <1>3, <2>1
<1>5. f \in Injection(GateRows, UserRows \ P)
  BY <1>2, <1>4 DEF Injection, IsInjective
<1>6. IsFiniteSet(UserRows \ P) /\ Cardinality(UserRows \ P) = Cardinality(UserRows) - Cardinality(UserRows \cap P)
  BY PassedIs, FS_Difference
<1>7. Cardinality(GateRows) <= Cardinality(UserRows \ P)
  BY <1>5, <1>6, FS_Injection
<1>8. Cardinality(UserRows \cap P) = Cardinality(P)
  <2>1. UserRows \cap P = P
    OBVIOUS
  <2> QED
    BY <2>1
<1>9. IsFiniteSet(P) /\ Cardinality(P) \in Nat /\ Cardinality(UserRows) \in Nat /\ Cardinality(GateRows) \in Nat
  BY PassedIs, FS_Subset, FS_CardinalityType
<1> QED
  BY <1>6, <1>7, <1>8, <1>9, TurnsIs

LEMMA CountedOnward ==
  ASSUME Typed, Placed, Counted, crossed = {}, NEW r \in Requests, Others(r), UNCHANGED log,
         Passed' \subseteq Passed,
         req'[r].pc \in Working => req[r].pc \in Working /\ Keeps(r),
         req'[r].pc = "answer" /\ req'[r].reply.decision = "identity_gate" =>
           \E u \in UserRows : Unmet(u, req[r].turn) /\ u \notin Passed /\ req'[r].turn = req[r].turn
  PROVE  Counted'
<1>1. UserRows' = UserRows /\ GateRows' = GateRows
  BY DEF UserRows, GateRows, Row
<1>2. \A u, g : (Meets(u, g)' <=> Meets(u, g)) /\ (Unmet(u, g)' <=> Unmet(u, g))
  BY <1>1 DEF Meets, Unmet
<1>3. \A p \in Requests : req'[p].pc \in Working => Unmet(req'[p].row, req'[p].turn)
  BY DEF Counted, Others, Keeps
<1>4. \A p \in Requests : req'[p].pc = "answer" /\ req'[p].reply.decision = "identity_gate" =>
        \E u \in UserRows : Unmet(u, req'[p].turn) /\ u \notin Passed
  BY DEF Counted, Others
<1>5. ASSUME NEW p \in Requests, req'[p].pc \in Working PROVE Unmet(req[p].row, req[p].turn)'
  BY <1>1, <1>3, <1>5 DEF Unmet
<1>6. ASSUME NEW p \in Requests, req'[p].pc = "answer" /\ req'[p].reply.decision = "identity_gate"
      PROVE  \E u \in UserRows' : Unmet(u, req[p].turn)' /\ u \notin Passed'
  <2>1. PICK u \in UserRows : Unmet(u, req'[p].turn) /\ u \notin Passed
    BY <1>4, <1>6
  <2>2. Unmet(u, req[p].turn)'
    BY <1>1, <2>1 DEF Unmet
  <2> QED
    BY <1>1, <2>1, <2>2
<1>7. ASSUME NEW g \in GateRows' PROVE \E u \in UserRows' : Meets(u, g)' /\ u \notin Passed'
  BY <1>1, <1>2 DEF Counted
<1>8. \A g, h \in GateRows' : g < h /\ log'[g].turn = log'[h].turn =>
         \E u \in UserRows' : log'[u].turn = log'[g].turn /\ g < u /\ u < h
  BY <1>1 DEF Counted
<1>9. IsFiniteSet(Passed') /\ Cardinality(Passed') <= Cardinality(Passed)
  BY FS_Subset DEF Counted
<1>10. Cardinality(Passed') <= TurnCap
  BY <1>9, FS_CardinalityType, ChatAssumption DEF Counted, ChatAssumption
<1> QED
  BY <1>5, <1>6, <1>7, <1>8, <1>9, <1>10 DEF Counted

(* The turn being answered is nobody else's.                                   *)
LEMMA OwnTurn ==
  ASSUME Tried, crossed = {}, NEW p \in Requests, NEW r \in Requests,
         p # r, req[p].pc # "idle", req[r].pc # "idle"
  PROVE  req[p].turn # req[r].turn
BY DEF Tried

LEMMA CountedCap ==
  ASSUME ChatAssumption, Typed, Placed, Tried, Counted, crossed = {}, NEW r \in Requests,
         req[r].pc = "cap", Others(r), UNCHANGED <<log, classified>>, Typed', Placed',
         req'[r].pc = "classify", Keeps(r), ~(Turns > TurnCap)
  PROVE  Counted'
<1> DEFINE row == req[r].row
           P == Passed \union {row}
<1>1. UserRows' = UserRows /\ GateRows' = GateRows
  BY DEF UserRows, GateRows, Row
<1>2. Passed' \subseteq P /\ P \subseteq UserRows
  <2>1. row \in UserRows
    BY DEF Placed, Place, Working
  <2>2. \A p \in Requests : req'[p].pc = "classify" /\ p # r =>
          req[p].pc = "classify" /\ req'[p].row = req[p].row
    BY DEF Others
  <2> QED
    BY <2>1, <2>2, PassedIs DEF Passed, Keeps
<1>3. Unmet(row, req[r].turn) /\ req'[r].row = row /\ req'[r].turn = req[r].turn
  BY DEF Counted, Working, Keeps
<1>4. \A g \in GateRows : \E u \in UserRows : Meets(u, g) /\ u \notin P
  <2> SUFFICES ASSUME NEW g \in GateRows PROVE \E u \in UserRows : Meets(u, g) /\ u \notin P
    OBVIOUS
  <2>1. PICK u \in UserRows : Meets(u, g) /\ u \notin Passed
    BY DEF Counted
  <2>2. u # row
    <3> SUFFICES ASSUME u = row PROVE FALSE
      OBVIOUS
    <3>1. row < g /\ g <= row
      BY <1>3, <2>1 DEF Meets, Unmet
    <3>2. row \in Nat /\ g \in Nat
      BY PassedIs
    <3> QED
      BY <3>1, <3>2
  <2> QED
    BY <2>1, <2>2
<1>5. \A g, h \in GateRows : g < h /\ log[g].turn = log[h].turn =>
         \E u \in UserRows : log[u].turn = log[g].turn /\ g < u /\ u < h
  BY DEF Counted
<1>6. IsFiniteSet(P) /\ Cardinality(P) <= Turns
  BY <1>2, <1>4, <1>5, GatesAreApart
<1>7. IsFiniteSet(Passed') /\ Cardinality(Passed') <= TurnCap
  <2>1. IsFiniteSet(Passed') /\ Cardinality(Passed') <= Cardinality(P)
    BY <1>2, <1>6, FS_Subset
  <2>2. Cardinality(Passed') \in Nat /\ Cardinality(P) \in Nat /\ TurnCap \in Nat
    BY <1>6, <2>1, FS_CardinalityType DEF ChatAssumption
  <2>3. Cardinality(UserRows) \in Nat /\ Cardinality(GateRows) \in Nat
    BY PassedIs, FS_CardinalityType
  <2>4. Turns \in Int
    BY <2>3, TurnsIs
  <2> QED
    BY <1>6, <2>1, <2>2, <2>4
<1>8. ASSUME NEW g \in GateRows' PROVE \E u \in UserRows' : Meets(u, g)' /\ u \notin Passed'
  <2>1. PICK u \in UserRows : Meets(u, g) /\ u \notin P
    BY <1>1, <1>4
  <2>2. Meets(u, g)'
    BY <1>1, <2>1 DEF Meets
  <2> QED
    BY <1>1, <1>2, <2>1, <2>2
<1>9. ASSUME NEW p \in Requests, req'[p].pc \in Working PROVE Unmet(req[p].row, req[p].turn)'
  <2>1. req[p].pc \in Working /\ req'[p].row = req[p].row /\ req'[p].turn = req[p].turn
    BY <1>3, <1>9 DEF Others, Working
  <2>2. Unmet(req[p].row, req[p].turn)
    BY <2>1 DEF Counted
  <2> QED
    BY <1>1, <2>1, <2>2 DEF Unmet
<1>10. ASSUME NEW p \in Requests, req'[p].pc = "answer" /\ req'[p].reply.decision = "identity_gate"
       PROVE  \E u \in UserRows' : Unmet(u, req[p].turn)' /\ u \notin Passed'
  <2>1. p # r /\ req'[p] = req[p]
    BY <1>10 DEF Others
  <2>2. PICK u \in UserRows : Unmet(u, req[p].turn) /\ u \notin Passed
    BY <1>10, <2>1 DEF Counted
  <2>3. req[p].turn # req[r].turn
    BY <1>10, <2>1, OwnTurn
  <2>4. u # row
    BY <1>3, <2>2, <2>3 DEF Unmet
  <2>5. Unmet(u, req[p].turn)'
    BY <1>1, <2>1, <2>2 DEF Unmet
  <2> QED
    BY <1>1, <1>2, <2>2, <2>4, <2>5
<1>11. \A g, h \in GateRows' : g < h /\ log'[g].turn = log'[h].turn =>
         \E u \in UserRows' : log'[u].turn = log'[g].turn /\ g < u /\ u < h
  BY <1>1, <1>5
<1> QED
  BY <1>7, <1>8, <1>9, <1>10, <1>11 DEF Counted

(* A message behind the others, and the requests of other turns.               *)
LEMMA RowsAfter ==
  ASSUME Typed, NEW role \in {"user", "bot"}, NEW t \in Nat, NEW reply \in Reply,
         AppendMessage(role, t, reply), Typed', Len(said') = Len(said), Len(leads') = Len(leads),
         ~Conflicts(role, t)
  PROVE  LET n == Len(log) + 1
         IN  /\ n \in Nat /\ n \notin Row /\ Row' = Row \union {n} /\ \A i \in Row : i < n
             /\ \A i \in Row : log'[i] = log[i]
             /\ log'[n].turn = t
             /\ UserRows' = IF role = "user" THEN UserRows \union {n} ELSE UserRows
             /\ GateRows' = IF role = "bot" /\ reply.decision = "identity_gate"
                            THEN GateRows \union {n} ELSE GateRows
<1> DEFINE n == Len(log) + 1
<1>1. /\ Row' = Row \union {n} /\ n \notin Row
      /\ log'[n] = [role |-> role, turn |-> t, intent |-> reply.intent, decision |-> reply.decision]
      /\ \A i \in Row : log'[i] = log[i]
  BY Behind DEF Grows
<1>2. n \in Nat /\ \A i \in Row : i < n
  BY DEF Typed, Row
<1>3. log'[n].turn = t /\ log'[n].role = role /\ log'[n].decision = reply.decision
  BY <1>1
<1> HIDE DEF n
<1>4. UserRows' = IF role = "user" THEN UserRows \union {n} ELSE UserRows
  BY <1>1, <1>3 DEF UserRows
<1>5. GateRows' = IF role = "bot" /\ reply.decision = "identity_gate" THEN GateRows \union {n} ELSE GateRows
  BY <1>1, <1>3 DEF GateRows
<1> QED
  BY <1>1, <1>2, <1>3, <1>4, <1>5 DEF n

LEMMA UnmetStays ==
  ASSUME Typed, NEW n \in Nat, NEW t, \A i \in Row : log'[i] = log[i], log'[n].turn = t,
         UserRows' \subseteq UserRows \union {n}, GateRows' \subseteq GateRows \union {n},
         UserRows \subseteq UserRows',
         NEW u \in UserRows, NEW s, s # t, Unmet(u, s)
  PROVE  Unmet(u, s)'
<1>1. \A j \in UserRows \union GateRows : log'[j] = log[j]
  BY DEF UserRows, GateRows
<1>2. \A j \in UserRows' \union GateRows' : log'[j].turn = s => j \in UserRows \union GateRows
  BY <1>1
<1> QED
  BY <1>1, <1>2 DEF Unmet

LEMMA MeetsStays ==
  ASSUME Typed, NEW n \in Nat, \A i \in Row : log'[i] = log[i] /\ i < n,
         UserRows' \subseteq UserRows \union {n}, UserRows \subseteq UserRows',
         NEW u \in UserRows, NEW g \in GateRows, Meets(u, g)
  PROVE  Meets(u, g)'
<1>1. (\A j \in UserRows : log'[j] = log[j]) /\ log'[g] = log[g] /\ g < n /\ g \in Nat
  BY DEF UserRows, GateRows, Row, Typed
<1>2. \A j \in UserRows' : j < g => j \in UserRows
  BY <1>1
<1> QED
  BY <1>1, <1>2 DEF Meets

LEMMA CountedStore ==
  ASSUME ChatAssumption, Typed, Placed, Tried, Counted, crossed = {}, NEW r \in Requests, StoreUser(r),
         Typed', Placed'
  PROVE  Counted'
<1>1. /\ Others(r) /\ UNCHANGED <<said, leads, classified>>
      /\ req[r].pc = "store" /\ AppendMessage("user", req[r].turn, GoOn)
      /\ req'[r].pc \in {"lead", "book"} /\ req'[r].turn = req[r].turn
      /\ IF Conflicts("user", req[r].turn) THEN req'[r].row \in Stored("user", req[r].turn)
         ELSE req'[r].row = Len(log) + 1
  BY StoreUserDoes
<1>2. PICK t \in Nat, row \in Nat : t = req[r].turn /\ row = req'[r].row
  BY DEF Typed, RequestOf
<1>3. Passed' = Passed
  <2>1. \A p \in Requests : (req'[p].pc = "classify" <=> req[p].pc = "classify")
                            /\ (req[p].pc = "classify" => req'[p].row = req[p].row)
    BY <1>1 DEF Others
  <2> QED
    BY <1>1, <2>1 DEF Passed
<1>4. \A p \in Requests \ {r} : req'[p] = req[p] /\ (req[p].pc # "idle" => req[p].turn # t)
  BY <1>1, <1>2, OwnTurn DEF Others
<1>5. CASE Conflicts("user", t)
  <2>1. log' = log /\ t \in WithId /\ row \in Stored("user", t)
    BY <1>1, <1>2, <1>5, Appends, GoOnIs DEF Conflicts
  <2>2. UserRows' = UserRows /\ GateRows' = GateRows
    BY <2>1 DEF UserRows, GateRows, Row
  <2>3. Stored("bot", t) = {} /\ \A i \in Stored("user", t) : i = row
    BY <1>1, <1>2, <2>1 DEF Tried
  <2>4. Unmet(row, t)
    BY <1>2, <2>1, <2>3 DEF Unmet, Stored, UserRows, GateRows, Row
  <2>5. ASSUME NEW p \in Requests, req'[p].pc \in Working PROVE Unmet(req[p].row, req[p].turn)'
    <3>1. Unmet(req'[p].row, req'[p].turn)
      BY <1>1, <1>2, <1>4, <2>4, <2>5 DEF Counted
    <3> QED
      BY <2>1, <2>2, <3>1 DEF Unmet
  <2>6. ASSUME NEW p \in Requests, req'[p].pc = "answer" /\ req'[p].reply.decision = "identity_gate"
        PROVE  \E u \in UserRows' : Unmet(u, req[p].turn)' /\ u \notin Passed'
    <3>1. p # r
      BY <1>1, <2>6
    <3>2. req'[p] = req[p]
      BY <1>4, <3>1
    <3>3. PICK u \in UserRows : Unmet(u, req[p].turn) /\ u \notin Passed
      BY <2>6, <3>2 DEF Counted
    <3>4. Unmet(u, req[p].turn)'
      BY <2>1, <2>2, <3>2, <3>3 DEF Unmet
    <3> QED
      BY <1>3, <2>2, <3>3, <3>4
  <2>7. \A u, g : Meets(u, g)' <=> Meets(u, g)
    BY <2>1, <2>2 DEF Meets
  <2> QED
    BY <1>3, <2>1, <2>2, <2>5, <2>6, <2>7 DEF Counted
<1>6. CASE ~Conflicts("user", t)
  <2>1. PICK n \in Nat : n = Len(log) + 1
    BY DEF Typed
  <2>2. /\ n \notin Row /\ Row' = Row \union {n} /\ \A i \in Row : i < n
        /\ \A i \in Row : log'[i] = log[i]
        /\ log'[n].turn = t /\ UserRows' = UserRows \union {n} /\ GateRows' = GateRows
    <3>1. AppendMessage("user", t, GoOn) /\ Len(said') = Len(said) /\ Len(leads') = Len(leads)
      BY <1>1, <1>2
    <3> QED
      BY <1>6, <2>1, <3>1, RowsAfter, GoOnIs
  <2>3. row = n
    BY <1>1, <1>2, <1>6, <2>1
  <2>4. Passed \subseteq UserRows /\ UserRows \subseteq Row /\ GateRows \subseteq Row /\ Row \subseteq Nat
    BY PassedIs
  <2>5. ASSUME NEW p \in Requests, req'[p].pc \in Working PROVE Unmet(req[p].row, req[p].turn)'
    <3>1. CASE p = r
      <4>1. req'[p].row = n /\ req'[p].turn = t
        BY <1>1, <1>2, <2>3, <3>1
      <4>2. \A j \in UserRows' \union GateRows' : j <= n
        BY <2>2, <2>4
      <4>3. n \in UserRows'
        BY <2>2
      <4> QED
        BY <2>2, <4>1, <4>2, <4>3 DEF Unmet
    <3>2. CASE p # r
      <4>1. req'[p] = req[p] /\ req[p].turn # t
        BY <1>4, <2>5, <3>2 DEF Working, Capturing
      <4>2. Unmet(req[p].row, req[p].turn)
        BY <2>5, <4>1 DEF Counted
      <4>s. PICK s : s = req[p].turn
        OBVIOUS
      <4>3. PICK u \in UserRows : u = req[p].row
        BY <4>2 DEF Unmet
      <4>4. Unmet(u, s)'
        BY <2>2, <4>1, <4>2, <4>s, <4>3, UnmetStays
      <4> QED
        BY <4>1, <4>s, <4>3, <4>4 DEF Unmet
    <3> QED
      BY <3>1, <3>2
  <2>6. ASSUME NEW p \in Requests, req'[p].pc = "answer" /\ req'[p].reply.decision = "identity_gate"
        PROVE  \E u \in UserRows' : Unmet(u, req[p].turn)' /\ u \notin Passed'
    <3>1. p # r
      BY <1>1, <2>6
    <3>2. req'[p] = req[p] /\ req[p].turn # t
      BY <1>4, <2>6, <3>1
    <3>3. PICK u \in UserRows : Unmet(u, req[p].turn) /\ u \notin Passed
      BY <2>6, <3>2 DEF Counted
    <3>4. PICK s : s = req[p].turn
      OBVIOUS
    <3>5. Unmet(u, s)'
      BY <2>2, <3>2, <3>3, <3>4, UnmetStays
    <3>6. Unmet(u, req[p].turn)'
      BY <3>2, <3>4, <3>5 DEF Unmet
    <3> QED
      BY <1>3, <2>2, <3>3, <3>6
  <2>7. ASSUME NEW g \in GateRows' PROVE \E u \in UserRows' : Meets(u, g)' /\ u \notin Passed'
    <3>1. g \in GateRows
      BY <2>2
    <3>2. PICK u \in UserRows : Meets(u, g) /\ u \notin Passed
      BY <3>1 DEF Counted
    <3>3. Meets(u, g)'
      BY <2>2, <3>1, <3>2, MeetsStays
    <3> QED
      BY <1>3, <2>2, <3>2, <3>3
  <2>8. ASSUME NEW g \in GateRows', NEW h \in GateRows', g < h, log'[g].turn = log'[h].turn
        PROVE  \E u \in UserRows' : log'[u].turn = log'[g].turn /\ g < u /\ u < h
    <3>1. log'[g] = log[g] /\ log'[h] = log[h]
      BY <2>2, <2>4
    <3>2. PICK u \in UserRows : log[u].turn = log[g].turn /\ g < u /\ u < h
      BY <2>2, <2>8, <3>1 DEF Counted
    <3> QED
      BY <2>2, <2>4, <3>1, <3>2
  <2> QED
    BY <1>3, <2>5, <2>6, <2>7, <2>8 DEF Counted
<1> QED
  BY <1>5, <1>6

LEMMA CountedAnswer ==
  ASSUME ChatAssumption, Typed, Placed, Tried, Counted, crossed = {}, NEW r \in Requests, Answer(r),
         Typed', Placed'
  PROVE  Counted'
<1>1. /\ Others(r) /\ UNCHANGED <<said, leads, classified>>
      /\ req[r].pc = "answer" /\ AppendMessage("bot", req[r].turn, req[r].reply) /\ req'[r].pc = "idle"
  BY AnswerDoes DEF Rests, Idle
<1>2. PICK t \in Nat, reply \in Reply : t = req[r].turn /\ reply = req[r].reply
  BY DEF Typed, RequestOf
<1>3. Passed' = Passed
  <2>1. \A p \in Requests : (req'[p].pc = "classify" <=> req[p].pc = "classify")
                            /\ (req[p].pc = "classify" => req'[p].row = req[p].row)
    BY <1>1 DEF Others
  <2> QED
    BY <1>1, <2>1 DEF Passed
<1>4. \A p \in Requests : req'[p].pc # "idle" => p # r /\ req'[p] = req[p] /\ req[p].turn # t
  BY <1>1, <1>2, OwnTurn DEF Others
<1>5. CASE Conflicts("bot", t)
  <2>1. log' = log
    BY <1>1, <1>2, <1>5, Appends
  <2>2. /\ ~ (req'[r].pc \in Working) /\ req'[r].pc # "answer"
    BY <1>1 DEF Working, Capturing
  <2> QED
    BY <1>1, <1>3, <2>1, <2>2, CountedOnward
<1>6. CASE ~Conflicts("bot", t)
  <2>1. PICK n \in Nat : n = Len(log) + 1
    BY DEF Typed
  <2> DEFINE gated == reply.decision = "identity_gate"
  <2>2. /\ n \notin Row /\ Row' = Row \union {n} /\ \A i \in Row : i < n
        /\ \A i \in Row : log'[i] = log[i]
        /\ log'[n].turn = t /\ UserRows' = UserRows
        /\ GateRows' = IF gated THEN GateRows \union {n} ELSE GateRows
    <3>1. AppendMessage("bot", t, reply) /\ Len(said') = Len(said) /\ Len(leads') = Len(leads)
      BY <1>1, <1>2
    <3> QED
      BY <1>6, <2>1, <3>1, RowsAfter
  <2>3. Passed \subseteq UserRows /\ UserRows \subseteq Row /\ GateRows \subseteq Row /\ Row \subseteq Nat
    BY PassedIs
  <2>4. ASSUME gated PROVE \E u \in UserRows : Unmet(u, t) /\ u \notin Passed
    BY <1>1, <1>2, <2>4 DEF Counted
  <2>5. ASSUME NEW p \in Requests, req'[p].pc \in Working PROVE Unmet(req[p].row, req[p].turn)'
    <3>1. req'[p] = req[p] /\ req[p].turn # t
      BY <1>4, <2>5 DEF Working, Capturing
    <3>2. Unmet(req[p].row, req[p].turn)
      BY <2>5, <3>1 DEF Counted
    <3>s. PICK s : s = req[p].turn
      OBVIOUS
    <3>3. PICK u \in UserRows : u = req[p].row
      BY <3>2 DEF Unmet
    <3>4. Unmet(u, s)'
      BY <2>2, <3>1, <3>2, <3>s, <3>3, UnmetStays
    <3> QED
      BY <3>1, <3>s, <3>3, <3>4 DEF Unmet
  <2>6. ASSUME NEW p \in Requests, req'[p].pc = "answer" /\ req'[p].reply.decision = "identity_gate"
        PROVE  \E u \in UserRows' : Unmet(u, req[p].turn)' /\ u \notin Passed'
    <3>1. req'[p] = req[p] /\ req[p].turn # t
      BY <1>4, <2>6
    <3>2. PICK u \in UserRows : Unmet(u, req[p].turn) /\ u \notin Passed
      BY <2>6, <3>1 DEF Counted
    <3>3. PICK s : s = req[p].turn
      OBVIOUS
    <3>4. Unmet(u, s)'
      BY <2>2, <3>1, <3>2, <3>3, UnmetStays
    <3>5. Unmet(u, req[p].turn)'
      BY <3>1, <3>3, <3>4 DEF Unmet
    <3> QED
      BY <1>3, <2>2, <3>2, <3>5
  <2>7. ASSUME NEW g \in GateRows' PROVE \E u \in UserRows' : Meets(u, g)' /\ u \notin Passed'
    <3>1. CASE g \in GateRows
      <4>1. PICK u \in UserRows : Meets(u, g) /\ u \notin Passed
        BY <3>1 DEF Counted
      <4>2. Meets(u, g)'
        BY <2>2, <3>1, <4>1, MeetsStays
      <4> QED
        BY <1>3, <2>2, <4>1, <4>2
    <3>2. CASE g = n /\ gated
      <4>1. PICK u \in UserRows : Unmet(u, t) /\ u \notin Passed
        BY <2>4, <3>2
      <4>2. u < n /\ log'[u] = log[u] /\ \A j \in UserRows : log'[j] = log[j]
        BY <2>2, <2>3
      <4>3. Meets(u, g)'
        BY <2>2, <3>2, <4>1, <4>2 DEF Meets, Unmet
      <4> QED
        BY <1>3, <2>2, <4>1, <4>3
    <3> QED
      BY <2>2, <2>7, <3>1, <3>2
  <2>8. ASSUME NEW g \in GateRows', NEW h \in GateRows', g < h, log'[g].turn = log'[h].turn
        PROVE  \E u \in UserRows' : log'[u].turn = log'[g].turn /\ g < u /\ u < h
    <3>0. \A i \in GateRows \union UserRows : i < n /\ i \in Nat /\ log'[i] = log[i]
      BY <2>2, <2>3
    <3>1. g \in GateRows
      BY <2>1, <2>2, <2>8, <3>0
    <3>2. CASE h \in GateRows
      <4>1. PICK u \in UserRows : log[u].turn = log[g].turn /\ g < u /\ u < h
        BY <2>8, <3>0, <3>1, <3>2 DEF Counted
      <4> QED
        BY <2>2, <3>0, <3>1, <4>1
    <3>3. CASE h = n /\ gated
      <4>1. PICK u \in UserRows : Unmet(u, t)
        BY <2>4, <3>3
      <4>2. log[u].turn = t /\ log[g].turn = t /\ g <= u
        BY <2>2, <2>8, <3>0, <3>1, <3>3, <4>1 DEF Unmet
      <4>3. g # u
        BY <3>1 DEF GateRows, UserRows
      <4>4. g < u /\ u < n
        BY <3>0, <3>1, <4>2, <4>3
      <4>5. log'[u].turn = log'[g].turn
        BY <3>0, <3>1, <4>2
      <4> QED
        BY <2>2, <3>3, <4>4, <4>5
    <3> QED
      BY <2>2, <2>8, <3>2, <3>3
  <2> QED
    BY <1>3, <2>5, <2>6, <2>7, <2>8 DEF Counted
<1> QED
  BY <1>5, <1>6

LEMMA CountedNext ==
  ASSUME ChatAssumption, Typed, Placed, Tried, NameKnown, Counted, [Next]_vars
  PROVE  Counted'
<1>t. Typed' /\ Placed' /\ crossed \subseteq crossed'
  BY PlacedNext, CrossedGrows
<1> SUFFICES ASSUME crossed' = {} PROVE Counted'
  BY DEF Counted
<1>c. crossed = {}
  BY <1>t
<1>0. CASE UNCHANGED vars
  BY <1>0 DEF vars, history, Counted, Meets, Unmet, UserRows, GateRows, Row, Passed
<1> DEFINE Settles(r) ==
      /\ Others(r) /\ UNCHANGED log /\ Passed' \subseteq Passed
      /\ req'[r].pc \in Working => req[r].pc \in Working /\ Keeps(r)
      /\ req'[r].pc = "answer" => req'[r].reply.decision # "identity_gate"
<1>1. ASSUME NEW r \in Requests, Settles(r) PROVE Counted'
  BY <1>c, <1>1, CountedOnward
<1>2. ASSUME NEW r \in Requests, Others(r), UNCHANGED classified, req'[r].pc # "classify"
      PROVE  Passed' \subseteq Passed
  <2>1. \A p \in Requests : req'[p].pc = "classify" => req'[p] = req[p]
    BY <1>2 DEF Others
  <2> QED
    BY <1>2, <2>1 DEF Passed
<1>3. ASSUME NEW r \in Requests, NEW t \in Turn, Send(r, t) PROVE Counted'
  <2>1. Others(r) /\ UNCHANGED <<log, classified>> /\ req'[r].pc \in {"replay", "store"}
    BY <1>3, SendDoes
  <2> QED
    BY <1>1, <1>2, <2>1 DEF Working, Capturing
<1> HIDE DEF Settles
<1>4. ASSUME NEW r \in Requests, Others(r), UNCHANGED <<log, classified>>,
             \/ req'[r].pc \in {"idle", "store", "generate"}
             \/ req'[r].pc = "answer" /\ req'[r].reply.decision # "identity_gate"
             \/ req'[r].pc \in Working \ {"classify"} /\ req[r].pc \in Working /\ Keeps(r)
      PROVE  Counted'
  <2>1. req'[r].pc # "classify"
    BY <1>4
  <2>2. req'[r].pc \in Working => req[r].pc \in Working /\ Keeps(r)
    BY <1>4 DEF Working, Capturing
  <2>3. req'[r].pc = "answer" => req'[r].reply.decision # "identity_gate"
    BY <1>4 DEF Working, Capturing
  <2> QED
    BY <1>1, <1>2, <1>4, <2>1, <2>2, <2>3 DEF Settles
<1> USE DEF Still, Shared
<1>5. ASSUME NEW r \in Requests, Replay(r) \/ Fail(r) PROVE Counted'
  <2>1. Others(r) /\ UNCHANGED <<log, classified>> /\ req'[r].pc \in {"idle", "store"}
    BY <1>5, ReplayDoes, FailDoes DEF Rests, Idle
  <2> QED
    BY <1>4, <2>1
<1>6. ASSUME NEW r \in Requests, ReadLead(r) \/ ReadRecent(r) \/ Save(r) \/ HandOver(r) PROVE Counted'
  <2>1. /\ Others(r) /\ UNCHANGED <<log, classified>> /\ Keeps(r)
        /\ req[r].pc \in Working /\ req'[r].pc \in Working \ {"classify"}
    <3>1. ReadLead(r) => Others(r) /\ UNCHANGED <<log, classified>> /\ Keeps(r)
                         /\ req[r].pc = "lead" /\ req'[r].pc = "recent"
      BY ReadLeadDoes
    <3>2. ReadRecent(r) => Others(r) /\ UNCHANGED <<log, classified>> /\ Keeps(r)
                           /\ req[r].pc = "recent" /\ req'[r].pc \in {"gate", "write", "decide"}
      BY ReadRecentDoes
    <3>3. Save(r) => Others(r) /\ UNCHANGED <<log, classified>> /\ Keeps(r)
                     /\ req[r].pc = "write" /\ req'[r].pc = "hand"
      BY SaveDoes
    <3>4. HandOver(r) => Others(r) /\ UNCHANGED <<log, classified>> /\ Keeps(r)
                         /\ req[r].pc = "hand" /\ req'[r].pc \in {"write", "decide"}
      BY HandOverDoes
    <3> QED
      BY <1>6, <3>1, <3>2, <3>3, <3>4 DEF Working, Capturing
  <2> QED
    BY <1>4, <2>1
<1>7. ASSUME NEW r \in Requests, Gate(r) PROVE Counted'
  <2>1. /\ Others(r) /\ UNCHANGED <<log, classified>> /\ req[r].pc = "gate"
        /\ \/ GateRows = {} /\ Tells(r, {"identity_gate"})
           \/ Keeps(r) /\ req'[r].pc \in {"write", "decide"}
    BY <1>7, GateDoes
  <2>2. CASE Keeps(r) /\ req'[r].pc \in {"write", "decide"}
    BY <1>4, <2>1, <2>2 DEF Working, Capturing
  <2>3. CASE GateRows = {} /\ Tells(r, {"identity_gate"})
    <3>1. GateOn /\ ~Asked /\ ~Named
      BY <2>1, <2>3 DEF Placed, Place, Capturing, Asked, Named
    <3>2. Passed = {}
      BY <3>1 DEF NameKnown, Nameless, Passed
    <3>3. req'[r].pc = "answer" /\ req'[r].turn = req[r].turn
      BY <2>3 DEF Tells
    <3>4. Passed' \subseteq Passed
      BY <1>2, <2>1, <3>3
    <3>5. req[r].row \in UserRows /\ Unmet(req[r].row, req[r].turn)
      BY <1>c, <2>1 DEF Counted, Placed, Place, Working, Capturing
    <3>6. req'[r].pc \notin Working
      BY <3>3 DEF Working, Capturing
    <3> QED
      BY <1>c, <2>1, <3>2, <3>3, <3>4, <3>5, <3>6, CountedOnward
  <2> QED
    BY <2>1, <2>2, <2>3
<1>8. ASSUME NEW r \in Requests, Decide(r) \/ Book(r) PROVE Counted'
  <2>1. /\ Others(r) /\ UNCHANGED <<log, classified>> /\ req[r].pc \in {"decide", "book"}
        /\ \/ Tells(r, Ungated)
           \/ req'[r].pc \in {"book", "cap"} /\ Keeps(r)
    BY <1>8, DecideDoes, BookDoes
  <2> QED
    BY <1>4, <2>1 DEF Working, Capturing, Tells, Ungated
<1>9. ASSUME NEW r \in Requests, Cap(r) PROVE Counted'
  <2>1. /\ Others(r) /\ UNCHANGED <<log, classified>> /\ req[r].pc = "cap"
        /\ \/ Tells(r, Ungated)
           \/ req'[r].pc = "classify" /\ Keeps(r) /\ ~(Turns > TurnCap)
    BY <1>9, CapDoes
  <2>2. CASE Tells(r, Ungated)
    BY <1>4, <2>1, <2>2 DEF Tells, Ungated
  <2>3. CASE req'[r].pc = "classify" /\ Keeps(r) /\ ~(Turns > TurnCap)
    BY <1>c, <1>t, <2>1, <2>3, CountedCap
  <2> QED
    BY <2>1, <2>2, <2>3
<1>10. ASSUME NEW r \in Requests, Classify(r) PROVE Counted'
  <2>1. /\ Others(r) /\ UNCHANGED log
        /\ req[r].pc = "classify" /\ classified' = classified \union {req[r].row}
        /\ \/ Tells(r, Ungated)
           \/ req'[r].pc = "generate"
    BY <1>10, ClassifyDoes
  <2>2. \A p \in Requests : req'[p].pc = "classify" => req'[p] = req[p]
    BY <2>1 DEF Others, Tells
  <2>3. Passed' \subseteq Passed
    BY <2>1, <2>2 DEF Passed
  <2> QED
    BY <1>1, <2>1, <2>3 DEF Settles, Working, Capturing, Tells, Ungated
<1>11. ASSUME NEW r \in Requests, Generate(r) PROVE Counted'
  <2>1. /\ Others(r) /\ UNCHANGED <<log, classified>> /\ req[r].pc = "generate"
        /\ Tells(r, Ungated \union {req[r].reply.decision})
    BY <1>11, GenerateDoes
  <2>2. req[r].reply.decision # "identity_gate"
    BY <2>1 DEF Placed, Place
  <2> QED
    BY <1>4, <2>1, <2>2 DEF Tells, Ungated
<1>12. ASSUME NEW r \in Requests, StoreUser(r) PROVE Counted'
  BY <1>c, <1>t, <1>12, CountedStore
<1>13. ASSUME NEW r \in Requests, Answer(r) PROVE Counted'
  BY <1>c, <1>t, <1>13, CountedAnswer
<1> QED
  BY <1>0, <1>3, <1>5, <1>6, <1>7, <1>8, <1>9, <1>10, <1>11, <1>12, <1>13 DEF Next, Step

-----------------------------------------------------------------------------
(* The visitor who waits.                                                      *)
LEMMA Waits ==
  ASSUME Tried, ~overlapped, NEW r \in Requests, NEW p \in Requests, p # r, req[r].pc # "idle"
  PROVE  req[p].pc = "idle"
BY DEF Tried

LEMMA OneLeadNext ==
  ASSUME ChatAssumption, Typed, Placed, Tried, OneLead, [Next]_vars
  PROVE  OneLead'
<1>t. Typed' /\ Placed' /\ (overlapped => overlapped')
  BY PlacedNext, CrossedGrows
<1> SUFFICES ASSUME ~overlapped' PROVE OneLead'
  BY DEF OneLead
<1>c. ~overlapped
  BY <1>t
<1>0. CASE UNCHANGED vars
  BY <1>0 DEF vars, history, OneLead, Newest, EvidenceKept
<1> DEFINE Fits(q) ==
      /\ q.pc \in {"recent", "gate", "write", "decide"} => q.lead = Len(leads) /\ q.as = Newest
      /\ q.pc = "hand" => q.lead = 1 /\ q.field \in leads[1].agreed
<1>f. Len(leads) <= 1 /\ (\A r \in Requests : Fits(req[r]))
      /\ \A e \in handed : e.channel = "call" => "phone" \in leads[e.lead].agreed
  BY <1>c DEF OneLead, EvidenceKept
<1>n. Len(leads) \in {0, 1} /\ (Len(leads) = 1 => leads # <<>>)
  <2>1. PICK n \in Nat : n = Len(leads)
    BY DEF Typed
  <2>2. n <= 1
    BY <1>f, <2>1
  <2>3. n \in {0, 1}
    BY <2>2
  <2>4. leads = <<>> => Len(leads) = 0
    OBVIOUS
  <2>5. n = 1 => leads # <<>>
    BY <2>1, <2>4
  <2> QED
    BY <2>1, <2>3, <2>5
<1>1. ASSUME NEW r \in Requests, Others(r), UNCHANGED leads,
             Fits(req'[r]),
             \A e \in handed' \ handed : e.channel = "call" => "phone" \in leads[e.lead].agreed
      PROVE  OneLead'
  <2>1. \A p \in Requests : Fits(req'[p])
    BY <1>f, <1>1 DEF Others
  <2>2. Newest' = Newest
    BY <1>1 DEF Newest
  <2>3. EvidenceKept'
    BY <1>f, <1>1 DEF EvidenceKept
  <2> QED
    BY <1>f, <1>1, <2>1, <2>2, <2>3 DEF OneLead
<1>2. ASSUME NEW r \in Requests, NEW t \in Turn, Send(r, t) PROVE OneLead'
  <2>1. Others(r) /\ UNCHANGED <<leads, handed>> /\ req'[r].pc \in {"replay", "store"}
    BY <1>2, SendDoes
  <2> QED
    BY <1>1, <2>1
<1>3. ASSUME NEW r \in Requests, Step(r) \/ Fail(r), ~Save(r), ~HandOver(r) PROVE OneLead'
  <2> USE DEF Still, Shared, KeepsLead
  <2>1. Replay(r) => Others(r) /\ UNCHANGED <<leads, handed>> /\ req'[r].pc \in {"idle", "store"}
    BY ReplayDoes DEF Rests, Idle
  <2>2. StoreUser(r) => Others(r) /\ UNCHANGED <<leads, handed>> /\ req'[r].pc \in {"lead", "book"}
    BY StoreUserDoes
  <2>3. ReadLead(r) => Others(r) /\ UNCHANGED <<leads, handed>> /\ req'[r].pc = "recent"
                       /\ req'[r].lead = Len(leads) /\ req'[r].as = Newest
    BY ReadLeadDoes
  <2>4. ReadRecent(r) => Others(r) /\ UNCHANGED <<leads, handed>>
                         /\ req[r].pc = "recent" /\ req'[r].pc \in {"gate", "write", "decide"}
                         /\ req'[r].lead = req[r].lead /\ req'[r].as = req[r].as
    BY ReadRecentDoes
  <2>5. Gate(r) => Others(r) /\ UNCHANGED <<leads, handed>> /\ req[r].pc = "gate"
                   /\ \/ req'[r].pc = "answer"
                      \/ /\ req'[r].pc \in {"write", "decide"}
                         /\ req'[r].lead = req[r].lead /\ req'[r].as = req[r].as
    BY GateDoes DEF Tells
  <2>6. Answer(r) => Others(r) /\ UNCHANGED <<leads, handed>> /\ req'[r].pc = "idle"
    BY AnswerDoes DEF Rests, Idle
  <2>7. Fail(r) => Others(r) /\ UNCHANGED <<leads, handed>> /\ req'[r].pc = "idle"
    BY FailDoes DEF Rests, Idle
  <2>8. Decide(r) => Others(r) /\ UNCHANGED leads /\ req'[r].pc \in {"answer", "book"}
                     /\ \A e \in handed' \ handed : e.channel # "call"
    BY DecideDoes DEF Tells
  <2>9. Book(r) => Others(r) /\ UNCHANGED <<leads, handed>> /\ req'[r].pc \in {"answer", "cap"}
    BY BookDoes DEF Tells
  <2>10. Cap(r) => Others(r) /\ UNCHANGED <<leads, handed>> /\ req'[r].pc \in {"answer", "classify"}
    BY CapDoes DEF Tells
  <2>11. Classify(r) => Others(r) /\ UNCHANGED <<leads, handed>> /\ req'[r].pc \in {"answer", "generate"}
    BY ClassifyDoes DEF Tells
  <2>12. Generate(r) => Others(r) /\ UNCHANGED <<leads, handed>> /\ req'[r].pc = "answer"
    BY GenerateDoes DEF Tells
  <2>13. Others(r) /\ UNCHANGED leads
         /\ \A e \in handed' \ handed : e.channel # "call"
    BY <1>3, <2>1, <2>2, <2>3, <2>4, <2>5, <2>6, <2>7, <2>8, <2>9, <2>10, <2>11, <2>12 DEF Step
  <2>14. Fits(req'[r])
    BY <1>3, <1>f, <2>1, <2>2, <2>3, <2>4, <2>5, <2>6, <2>7, <2>8, <2>9, <2>10, <2>11, <2>12 DEF Step
  <2> QED
    BY <1>1, <2>13, <2>14
<1>4. ASSUME NEW r \in Requests, HandOver(r) PROVE OneLead'
  <2>1. /\ Others(r) /\ UNCHANGED leads
        /\ req[r].pc = "hand" /\ req'[r].pc \in {"write", "decide"}
        /\ req'[r].lead = req[r].lead /\ req'[r].as = leads[req[r].lead]
        /\ \A e \in handed' \ handed :
             e.channel = "call" => e.lead = req[r].lead /\ req[r].field = "phone"
    BY <1>4, HandOverDoes
  <2>2. req[r].lead \in Person /\ req[r].lead = 1 /\ req[r].field \in leads[1].agreed
    BY <1>f, <2>1 DEF Placed, Place
  <2>3. Len(leads) = 1 /\ leads # <<>>
    <3>1. Person = {} \/ Len(leads) = 1
      BY <1>n DEF Person
    <3> QED
      BY <1>n, <2>2, <3>1
  <2>4. Fits(req'[r])
    BY <2>1, <2>2, <2>3 DEF Newest
  <2>5. \A e \in handed' \ handed : e.channel = "call" => "phone" \in leads[e.lead].agreed
    BY <2>1, <2>2
  <2> QED
    BY <1>1, <2>1, <2>4, <2>5
<1>5. ASSUME NEW r \in Requests, Save(r) PROVE OneLead'
  <2>1. /\ Others(r) /\ UNCHANGED handed
        /\ req[r].pc = "write" /\ req'[r].pc = "hand" /\ req'[r].field = req[r].field
        /\ req'[r].lead = (IF req[r].lead = 0 THEN Len(leads) + 1 ELSE req[r].lead)
        /\ leads'[req'[r].lead].agreed = req[r].as.agreed \union {req[r].field}
        /\ IF req[r].lead = 0 THEN Len(leads') = Len(leads) + 1 ELSE Len(leads') = Len(leads)
    BY <1>5, SaveDoes
  <2>2. req[r].lead = Len(leads) /\ req[r].as = Newest /\ Len(leads) \in Nat
    BY <1>f, <2>1 DEF Typed
  <2>3. req'[r].lead = 1 /\ Len(leads') = 1
    <3>1. CASE Len(leads) = 0
      BY <2>1, <2>2, <3>1
    <3>2. CASE Len(leads) = 1
      BY <2>1, <2>2, <3>2
    <3> QED
      BY <1>n, <3>1, <3>2
  <2>4. leads'[1].agreed = Newest.agreed \union {req[r].field}
    BY <2>1, <2>2, <2>3
  <2>5. ASSUME NEW e \in handed, e.channel = "call" PROVE e.lead = 1 /\ "phone" \in leads'[1].agreed
    <3>1. e.lead \in Person /\ "phone" \in leads[e.lead].agreed
      BY <1>f, <2>5 DEF Placed
    <3>2. e.lead = 1 /\ Len(leads) = 1 /\ leads # <<>>
      <4>1. CASE Len(leads) = 0
        BY <3>1, <4>1 DEF Person
      <4>2. CASE Len(leads) = 1
        BY <1>n, <3>1, <4>2 DEF Person
      <4> QED
        BY <1>n, <4>1, <4>2
    <3> QED
      BY <2>4, <3>1, <3>2 DEF Newest
  <2>6. EvidenceKept'
    BY <2>1, <2>3, <2>5 DEF EvidenceKept
  <2>7. \A p \in Requests : p # r => req'[p].pc = "idle"
    BY <1>c, <2>1, Waits DEF Others
  <2>8. req'[r].pc = "hand" /\ req'[r].lead = 1 /\ req'[r].field \in leads'[1].agreed
    BY <2>1, <2>3, <2>4
  <2>9. \A p \in Requests :
          /\ req'[p].pc \notin {"recent", "gate", "write", "decide"}
          /\ req'[p].pc = "hand" => req'[p].lead = 1 /\ req'[p].field \in leads'[1].agreed
    BY <2>7, <2>8
  <2> QED
    BY <2>3, <2>6, <2>9 DEF OneLead
<1> QED
  BY <1>0, <1>2, <1>3, <1>4, <1>5 DEF Next

LEMMA QuietNext ==
  ASSUME ChatAssumption, Typed, Placed, Tried, Quiet, [Next]_vars
  PROVE  Quiet'
<1>t. Typed' /\ Placed' /\ (overlapped => overlapped')
  BY PlacedNext, CrossedGrows
<1> SUFFICES ASSUME ~overlapped' PROVE Quiet'
  BY DEF Quiet
<1>c. ~overlapped
  BY <1>t
<1> DEFINE Behaves(q) ==
      /\ q.pc # "idle" => q.turn = Len(said)
      /\ q.pc \in Working => q.row = Len(log)
      /\ q.pc \in {"gate", "write", "hand"} => q.seen = Len(log)
           Ends == \A i \in UserRows :
             log[i].turn = Len(said) /\ Len(said) \in WithId /\ Stored("bot", Len(said)) = {} => i = Len(log)
<1>f. (\A r \in Requests : Behaves(req[r])) /\ Ends
      /\ \A e \in handed : e.channel = "call" => LastBot(e.row - 1).intent \in PhoneAskIntents
  BY <1>c DEF Quiet, ConsentFollowsDisclosure
<1>g. Grows
  BY GrowsNext
<1>e. ASSUME NEW e \in handed, e.channel = "call"
      PROVE  LastBot(e.row - 1)'.intent \in PhoneAskIntents
  <2>0. e.row \in Row /\ Len(log) \in Nat
    BY <1>e DEF Placed, Typed
  <2>n. e.row - 1 \in Nat /\ e.row - 1 <= Len(log)
    BY <2>0 DEF Row
  <2>1. PICK n \in Nat : n = e.row - 1
    BY <2>n
  <2>l. \A i \in 1 .. n : log'[i] = log[i]
    BY <1>g, <2>0, <2>n, <2>1 DEF Grows, Row
  <2>2. LastBot(n)' = LastBot(n)
    BY <2>l, LastBotStays
  <2> QED
    BY <1>e, <1>f, <2>1, <2>2
<1>0. CASE UNCHANGED vars
  <2>1. /\ UNCHANGED <<said, log, handed, req>>
        /\ UserRows' = UserRows /\ \A role, s : Stored(role, s)' = Stored(role, s)
    BY <1>0 DEF vars, history, UserRows, Row, Stored
  <2>2. ConsentFollowsDisclosure'
    BY <1>e, <2>1 DEF ConsentFollowsDisclosure
  <2>3. \A r \in Requests : /\ req'[r].pc # "idle" => req'[r].turn = Len(said')
                            /\ req'[r].pc \in Working => req'[r].row = Len(log')
                            /\ req'[r].pc \in {"gate", "write", "hand"} => req'[r].seen = Len(log')
    BY <1>f, <2>1
  <2>4. \A i \in UserRows' : log'[i].turn = Len(said') /\ Len(said') \in WithId /\ Stored("bot", Len(said))' = {}
          => i = Len(log')
    BY <1>f, <2>1
  <2> QED
    BY <2>2, <2>3, <2>4 DEF Quiet
<1>1. ASSUME NEW r \in Requests, Others(r), UNCHANGED <<said, log>>, Behaves(req'[r]),
             \A e \in handed' \ handed : e.channel = "call" => LastBot(e.row - 1).intent \in PhoneAskIntents
      PROVE  Quiet'
  <2>1. \A p \in Requests : Behaves(req'[p])
    BY <1>f, <1>1 DEF Others
  <2>2. UserRows' = UserRows /\ \A role, s : Stored(role, s)' = Stored(role, s)
    BY <1>1 DEF UserRows, Row, Stored
  <2>3. ASSUME NEW e \in handed', e.channel = "call"
        PROVE  LastBot(e.row - 1)'.intent \in PhoneAskIntents
    <3>1. CASE e \in handed
      BY <1>e, <2>3, <3>1
    <3>2. CASE e \notin handed
      <4>1. LastBot(e.row - 1).intent \in PhoneAskIntents
        BY <1>1, <2>3, <3>2
      <4> QED
        BY <1>1, <4>1 DEF LastBot, Bots, Latest
    <3> QED
      BY <3>1, <3>2
  <2>4. ConsentFollowsDisclosure'
    BY <2>3 DEF ConsentFollowsDisclosure
  <2>5. \A i \in UserRows' : log'[i].turn = Len(said') /\ Len(said') \in WithId /\ Stored("bot", Len(said))' = {}
          => i = Len(log')
    BY <1>f, <1>1, <2>2
  <2> QED
    BY <1>1, <2>1, <2>4, <2>5 DEF Quiet
<1>2. ASSUME NEW r \in Requests, NEW t \in Turn, Send(r, t) PROVE Quiet'
  <2>1. /\ Others(r) /\ UNCHANGED <<log, handed>>
        /\ t \in 1 .. Len(said')
        /\ \/ t = Len(said) + 1 /\ Len(said') = Len(said) + 1
           \/ t = Len(said) /\ said' = said
        /\ req'[r].turn = t /\ req'[r].pc \in {"replay", "store"}
        /\ overlapped' = (overlapped \/ Active # {})
    BY <1>2, SendDoes
  <2>2. \A p \in Requests : req[p].pc = "idle"
    BY <2>1 DEF Active
  <2>3. \A p \in Requests : p # r => req'[p].pc = "idle"
    BY <2>1, <2>2 DEF Others
  <2>4. t = Len(said')
    BY <2>1
  <2>5. \A p \in Requests : /\ req'[p].pc # "idle" => req'[p].turn = Len(said')
                            /\ req'[p].pc \notin Working
                            /\ req'[p].pc \notin {"gate", "write", "hand"}
    BY <2>1, <2>3, <2>4 DEF Working, Capturing
  <2>6. UserRows' = UserRows /\ \A role, s : Stored(role, s)' = Stored(role, s)
    BY <2>1 DEF UserRows, Row, Stored
  <2>7. \A i \in UserRows' : log'[i].turn = Len(said') /\ Len(said') \in WithId /\ Stored("bot", Len(said))' = {}
          => i = Len(log')
    <3>1. CASE said' = said
      BY <1>f, <2>1, <2>6, <3>1
    <3>2. CASE Len(said') = Len(said) + 1
      <4>1. \A i \in UserRows : log[i].turn \in 1 .. Len(said) /\ Len(said) \in Nat
        BY DEF Placed, UserRows, Typed
      <4>2. \A i \in UserRows : log[i].turn # Len(said')
        BY <3>2, <4>1
      <4> QED
        BY <2>1, <2>6, <4>2
    <3> QED
      BY <2>1, <3>1, <3>2
  <2>8. ConsentFollowsDisclosure'
    BY <1>e, <2>1 DEF ConsentFollowsDisclosure
  <2> QED
    BY <2>5, <2>7, <2>8 DEF Quiet
<1>3. ASSUME NEW r \in Requests, StoreUser(r) PROVE Quiet'
  <2>1. /\ Others(r) /\ UNCHANGED <<said, leads, handed>>
        /\ req[r].pc = "store" /\ AppendMessage("user", req[r].turn, GoOn)
        /\ req'[r].pc \in {"lead", "book"} /\ req'[r].turn = req[r].turn
        /\ IF Conflicts("user", req[r].turn) THEN req'[r].row \in Stored("user", req[r].turn)
           ELSE req'[r].row = Len(log) + 1
    BY <1>3, StoreUserDoes
  <2>2. PICK t \in Nat : t = req[r].turn /\ t = Len(said)
    BY <1>f, <2>1 DEF Typed, RequestOf
  <2>3. \A p \in Requests : p # r => req'[p].pc = "idle"
    BY <1>c, <2>1, Waits DEF Others
  <2>4. ConsentFollowsDisclosure'
    BY <1>e, <2>1 DEF ConsentFollowsDisclosure
  <2>a. AppendMessage("user", t, GoOn)
    BY <2>1, <2>2
  <2>b. /\ Conflicts("user", t) => log' = log
        /\ ~Conflicts("user", t) => Len(log') = Len(log) + 1
    BY <2>a, Appends, GoOnIs
  <2>5. req'[r].row = Len(log')
    <3>1. CASE Conflicts("user", t)
      <4>1. log' = log /\ t \in WithId /\ req'[r].row \in Stored("user", t)
        BY <2>1, <2>2, <2>b, <3>1 DEF Conflicts
      <4>2. Stored("bot", t) = {}
        <5>1. \A p \in Requests : req[p].pc \notin {"idle", "replay"} /\ req[p].turn \in WithId \ crossed =>
                Stored("bot", req[p].turn) = {}
          BY DEF Tried
        <5>2. crossed = {}
          BY <1>c DEF Tried
        <5>3. Stored("bot", req[r].turn) = {}
          BY <2>1, <2>2, <4>1, <5>1, <5>2
        <5> QED
          BY <2>2, <5>3
      <4>3. req'[r].row \in UserRows /\ log[req'[r].row].turn = t
        BY <4>1 DEF Stored, UserRows, Row
      <4> QED
        BY <1>f, <2>2, <4>1, <4>2, <4>3
    <3>2. CASE ~Conflicts("user", t)
      BY <2>1, <2>2, <2>b, <3>2
    <3> QED
      BY <3>1, <3>2
  <2>6. \A i \in UserRows' : log'[i].turn = Len(said) /\ Len(said) \in WithId /\ Stored("bot", Len(said))' = {}
          => i = Len(log')
    <3>1. CASE Conflicts("user", t)
      <4>1. log' = log
        BY <2>b, <3>1
      <4>2. UserRows' = UserRows /\ Stored("bot", Len(said))' = Stored("bot", Len(said))
        BY <2>1, <4>1 DEF UserRows, Row, Stored
      <4> QED
        BY <1>f, <4>1, <4>2
    <3>2. CASE ~Conflicts("user", t)
      <4>1. /\ \A i \in Row : log'[i] = log[i]
            /\ UserRows' = UserRows \union {Len(log) + 1} /\ Len(log') = Len(log) + 1
        <5>1. AppendMessage("user", t, GoOn) /\ Len(said') = Len(said) /\ Len(leads') = Len(leads)
          BY <2>1, <2>2
        <5> QED
          BY <1>t, <3>2, <5>1, RowsAfter, Behind, GoOnIs
      <4>2. ASSUME t \in WithId, NEW i \in UserRows PROVE log'[i].turn # t
        <5>1. Stored("user", t) = {}
          BY <3>2, <4>2 DEF Conflicts
        <5> QED
          BY <4>1, <5>1 DEF Stored, UserRows, Row
      <4> QED
        BY <2>2, <4>1, <4>2
    <3> QED
      BY <3>1, <3>2
  <2>7. \A p \in Requests : /\ req'[p].pc # "idle" => req'[p].turn = Len(said')
                            /\ req'[p].pc \in Working => req'[p].row = Len(log')
                            /\ req'[p].pc \notin {"gate", "write", "hand"}
    <3>1. "idle" \notin Working
      BY DEF Working, Capturing
    <3> QED
      BY <2>1, <2>2, <2>3, <2>5, <3>1
  <2> QED
    BY <2>1, <2>4, <2>6, <2>7 DEF Quiet
<1>4. ASSUME NEW r \in Requests, Answer(r) PROVE Quiet'
  <2>1. /\ Others(r) /\ UNCHANGED <<said, leads, handed>>
        /\ req[r].pc = "answer" /\ AppendMessage("bot", req[r].turn, req[r].reply)
        /\ req'[r].pc = "idle"
    BY <1>4, AnswerDoes DEF Rests, Idle
  <2>2. PICK t \in Nat, reply \in Reply : t = req[r].turn /\ t = Len(said) /\ reply = req[r].reply
    BY <1>f, <2>1 DEF Typed, RequestOf
  <2>3. \A p \in Requests : req'[p].pc = "idle"
    BY <1>c, <2>1, Waits DEF Others
  <2>4. ConsentFollowsDisclosure'
    BY <1>e, <2>1 DEF ConsentFollowsDisclosure
  <2>a. AppendMessage("bot", t, reply)
    BY <2>1, <2>2
  <2>b. Conflicts("bot", t) => log' = log
    BY <2>a, Appends
  <2>5. \A i \in UserRows' : log'[i].turn = Len(said) /\ Len(said) \in WithId /\ Stored("bot", Len(said))' = {}
          => i = Len(log')
    <3>1. CASE Conflicts("bot", t)
      <4>1. log' = log
        BY <2>b, <3>1
      <4>2. UserRows' = UserRows /\ Stored("bot", Len(said))' = Stored("bot", Len(said))
        BY <2>1, <4>1 DEF UserRows, Row, Stored
      <4> QED
        BY <1>f, <4>1, <4>2
    <3>2. CASE ~Conflicts("bot", t)
      <4>1. /\ Row' = Row \union {Len(log) + 1}
            /\ log'[Len(log) + 1] = [role |-> "bot", turn |-> t, intent |-> reply.intent,
                                     decision |-> reply.decision]
        <5>1. AppendMessage("bot", t, reply) /\ Len(said') = Len(said) /\ Len(leads') = Len(leads)
          BY <2>1, <2>2
        <5> QED
          BY <1>t, <3>2, <5>1, Behind
      <4>2. Stored("bot", Len(said))' # {}
        BY <2>1, <2>2, <4>1 DEF Stored, Row
      <4> QED
        BY <4>2
    <3> QED
      BY <3>1, <3>2
  <2>6. "idle" \notin Working
    BY DEF Working, Capturing
  <2> QED
    BY <2>1, <2>3, <2>4, <2>5, <2>6 DEF Quiet
<1>5. ASSUME NEW r \in Requests, HandOver(r) PROVE Quiet'
  <2>1. /\ Others(r) /\ UNCHANGED <<said, log>>
        /\ req[r].pc = "hand" /\ req'[r].pc \in {"write", "decide"} /\ Keeps(r) /\ req'[r].seen = req[r].seen
        /\ \A e \in handed' \ handed :
             e.channel = "call" => /\ e.row = req[r].row
                                   /\ LastBot(req[r].seen).intent \in PhoneAskIntents
    BY <1>5, HandOverDoes
  <2>2. req[r].row \in UserRows /\ req[r].row = Len(log) /\ req[r].seen = Len(log) /\ req[r].turn = Len(said)
    BY <1>f, <2>1 DEF Placed, Place, Working, Capturing
  <2>3. LastBot(Len(log)) = LastBot(Len(log) - 1)
    <3>1. Len(log) \in Nat \ {0} /\ log[Len(log)].role = "user"
      BY <2>2 DEF UserRows, Row
    <3> QED
      BY <3>1, LastBotBefore
  <2>4. Behaves(req'[r])
    BY <2>1, <2>2 DEF Keeps
  <2>5. \A e \in handed' \ handed : e.channel = "call" => LastBot(e.row - 1).intent \in PhoneAskIntents
    BY <2>1, <2>2, <2>3
  <2> QED
    BY <1>1, <2>1, <2>4, <2>5
<1>6. ASSUME NEW r \in Requests,
             \/ Replay(r) \/ ReadLead(r) \/ ReadRecent(r) \/ Gate(r) \/ Save(r)
             \/ Decide(r) \/ Book(r) \/ Cap(r) \/ Classify(r) \/ Generate(r) \/ Fail(r)
      PROVE Quiet'
  <2> USE DEF Still, Shared, Keeps
  <2>1. Replay(r) => Others(r) /\ UNCHANGED <<said, log, handed>>
                     /\ \/ req'[r].pc = "idle"
                        \/ req[r].pc = "replay" /\ req'[r].pc = "store" /\ req'[r].turn = req[r].turn
    BY ReplayDoes DEF Rests, Idle
  <2>3. ReadLead(r) => Others(r) /\ UNCHANGED <<said, log, handed>> /\ req[r].pc = "lead" /\ req'[r].pc = "recent"
                       /\ req'[r].turn = req[r].turn /\ req'[r].row = req[r].row
    BY ReadLeadDoes
  <2>4. ReadRecent(r) => Others(r) /\ UNCHANGED <<said, log, handed>>
                         /\ req[r].pc = "recent" /\ req'[r].pc \in {"gate", "write", "decide"}
                         /\ req'[r].turn = req[r].turn /\ req'[r].row = req[r].row
                         /\ req'[r].seen = Len(log)
    BY ReadRecentDoes
  <2>5. Gate(r) => Others(r) /\ UNCHANGED <<said, log, handed>> /\ req[r].pc = "gate"
                   /\ \/ req'[r].pc = "answer" /\ req'[r].turn = req[r].turn
                      \/ /\ req'[r].pc \in {"write", "decide"} /\ req'[r].seen = req[r].seen
                         /\ req'[r].turn = req[r].turn /\ req'[r].row = req[r].row
    BY GateDoes DEF Tells
  <2>6. Save(r) => Others(r) /\ UNCHANGED <<said, log, handed>> /\ req[r].pc = "write" /\ req'[r].pc = "hand"
                   /\ req'[r].turn = req[r].turn /\ req'[r].row = req[r].row /\ req'[r].seen = req[r].seen
    BY SaveDoes
  <2>7. Fail(r) => Others(r) /\ UNCHANGED <<said, log, handed>> /\ req'[r].pc = "idle"
    BY FailDoes DEF Rests, Idle
  <2>8. Decide(r) => Others(r) /\ UNCHANGED <<said, log>> /\ req[r].pc = "decide"
                     /\ \/ req'[r].pc = "answer" /\ req'[r].turn = req[r].turn
                        \/ req'[r].pc = "book" /\ req'[r].turn = req[r].turn /\ req'[r].row = req[r].row
                     /\ \A e \in handed' \ handed : e.channel # "call"
    BY DecideDoes DEF Tells
  <2>9. Book(r) => Others(r) /\ UNCHANGED <<said, log, handed>> /\ req[r].pc = "book"
                     /\ \/ req'[r].pc = "answer" /\ req'[r].turn = req[r].turn
                        \/ req'[r].pc = "cap" /\ req'[r].turn = req[r].turn /\ req'[r].row = req[r].row
    BY BookDoes DEF Tells
  <2>10. Cap(r) => Others(r) /\ UNCHANGED <<said, log, handed>> /\ req[r].pc = "cap"
                     /\ \/ req'[r].pc = "answer" /\ req'[r].turn = req[r].turn
                        \/ req'[r].pc = "classify" /\ req'[r].turn = req[r].turn /\ req'[r].row = req[r].row
    BY CapDoes DEF Tells
  <2>11. Classify(r) => Others(r) /\ UNCHANGED <<said, log, handed>> /\ req[r].pc = "classify"
                        /\ req'[r].pc \in {"answer", "generate"} /\ req'[r].turn = req[r].turn
    BY ClassifyDoes DEF Tells
  <2>12. Generate(r) => Others(r) /\ UNCHANGED <<said, log, handed>> /\ req[r].pc = "generate"
                        /\ req'[r].pc = "answer" /\ req'[r].turn = req[r].turn
    BY GenerateDoes DEF Tells
  <2>13. Others(r) /\ UNCHANGED <<said, log>>
         /\ \A e \in handed' \ handed : e.channel # "call"
    BY <1>6, <2>1, <2>3, <2>4, <2>5, <2>6, <2>7, <2>8, <2>9, <2>10, <2>11, <2>12
  <2>14. Behaves(req[r])
    BY <1>f
  <2>15. Behaves(req'[r])
    BY <1>6, <2>14, <2>1, <2>3, <2>4, <2>5, <2>6, <2>7, <2>8, <2>9, <2>10, <2>11, <2>12 DEF Working, Capturing
  <2> QED
    BY <1>1, <2>13, <2>15
<1> QED
  BY <1>0, <1>2, <1>3, <1>4, <1>5, <1>6 DEF Next, Step

-----------------------------------------------------------------------------
(* The theorems.                                                               *)
LEMMA ChatInit ==
  ASSUME ChatAssumption, Init
  PROVE  ChatInv
<1> DEFINE first == <<[has |-> {"name"}, agreed |-> {"name"}]>>
<1>1. /\ said = <<>> /\ log = <<>> /\ handed = {} /\ req = [r \in Requests |-> Idle]
      /\ classified = {} /\ differs = {} /\ crossed = {} /\ overlapped = FALSE
      /\ leads = <<>> \/ leads = first
  BY DEF Init
<1>2. first \in Seq(Lead) /\ Len(first) = 1 /\ "name" \in first[1].has
  BY DEF Lead, Fields
<1> HIDE DEF first
<1>e. \A S : <<>> \in Seq(S)
  OBVIOUS
<1>3. leads \in Seq(Lead) /\ said \in Seq(AllKinds) /\ log \in Seq(MessageOf)
  <2>1. CASE leads = <<>>
    BY <1>1, <1>e, <2>1
  <2>2. CASE leads = first
    BY <1>1, <1>2, <1>e, <2>2
  <2> QED
    BY <1>1, <2>1, <2>2
<1>4. \A r \in Requests : req[r] = Idle /\ req[r].pc = "idle"
  BY <1>1, IdleIs
<1>5. Typed
  <2>1. req \in [Requests -> RequestOf]
    BY <1>1, IdleIs
  <2> QED
    BY <1>1, <1>3, <2>1 DEF Typed
<1>6. Row = {} /\ UserRows = {} /\ GateRows = {} /\ \A role, t : Stored(role, t) = {}
  <2>1. Row = {}
    BY <1>1 DEF Row
  <2>2. \A role, t : Stored(role, t) \subseteq Row
    BY <1>5, StoredIs
  <2> QED
    BY <2>1, <2>2 DEF UserRows, GateRows
<1>7. Placed
  BY <1>1, <1>4, <1>6, PlaceOfIdle DEF Placed
<1>8. Tried
  BY <1>1, <1>4, <1>6 DEF Tried, ToldIsStored
<1>9. NameKnown
  <2>1. CASE leads = <<>>
    BY <1>1, <1>4, <2>1 DEF NameKnown, Nameless
  <2>2. CASE leads = first
    <3>1. \A r \in Requests : req[r].pc \notin Capturing /\ req[r].pc \notin {"gate", "recent", "write"}
      BY <1>4 DEF Capturing
    <3>2. Len(leads) = 1 /\ "name" \in leads[1].has
      BY <1>2, <2>2
    <3> QED
      BY <3>1, <3>2 DEF NameKnown, Named
  <2> QED
    BY <1>1, <2>1, <2>2
<1>10. Counted
  <2>1. Passed = {}
    BY <1>1, <1>4 DEF Passed
  <2>2. IsFiniteSet(Passed) /\ Cardinality(Passed) <= TurnCap
    BY <2>1, FS_EmptySet DEF ChatAssumption
  <2>3. \A r \in Requests : req[r].pc \notin Working /\ req[r].pc # "answer"
    BY <1>4 DEF Working, Capturing
  <2> QED
    BY <1>6, <2>2, <2>3 DEF Counted
<1>11. OneLead
  <2>1. Len(leads) <= 1
    <3>1. CASE leads = <<>>
      BY <3>1
    <3>2. CASE leads = first
      <4>1. Len(leads) = 1
        BY ONLY <1>2, <3>2
      <4> QED
        BY ONLY <4>1
    <3> QED
      BY <1>1, <3>1, <3>2
  <2>2. \A r \in Requests : req[r].pc \notin {"recent", "gate", "write", "decide", "hand"}
    BY <1>4
  <2> QED
    BY <1>1, <2>1, <2>2 DEF OneLead, EvidenceKept
<1>12. Quiet
  <2>1. \A r \in Requests : req[r].pc \notin Working /\ req[r].pc \notin {"gate", "write", "hand"}
    BY <1>4 DEF Working, Capturing
  <2> QED
    BY <1>1, <1>4, <1>6, <2>1 DEF Quiet, ConsentFollowsDisclosure
<1> QED
  BY <1>5, <1>7, <1>8, <1>9, <1>10, <1>11, <1>12 DEF ChatInv

LEMMA ChatInvNext ==
  ASSUME ChatAssumption, ChatInv, [Next]_vars
  PROVE  ChatInv'
<1>1. Typed /\ Placed /\ Tried /\ NameKnown /\ Counted /\ OneLead /\ Quiet
  BY DEF ChatInv
<1>2. Typed' /\ Placed'
  BY <1>1, PlacedNext
<1>3. Tried'
  BY <1>1, TriedNext
<1>4. NameKnown'
  BY <1>1, NameKnownNext
<1>5. Counted'
  BY <1>1, CountedNext
<1>6. OneLead'
  BY <1>1, OneLeadNext
<1>7. Quiet'
  BY <1>1, QuietNext
<1> QED
  BY <1>2, <1>3, <1>4, <1>5, <1>6, <1>7 DEF ChatInv

LEMMA ChatInvImplies ==
  ASSUME ChatInv
  PROVE  ConsentFollowsDisclosure /\ CapHolds /\ ToldIsStored /\ EvidenceKept
<1>1. ConsentFollowsDisclosure
  BY DEF ChatInv, Quiet, ConsentFollowsDisclosure, Typed
<1>2. CapHolds
  <2> SUFFICES ASSUME crossed = {} PROVE Cardinality(classified) <= TurnCap
    BY DEF CapHolds
  <2>1. IsFiniteSet(Passed) /\ Cardinality(Passed) <= TurnCap /\ classified \subseteq Passed
    BY DEF ChatInv, Counted, Passed
  <2>2. /\ IsFiniteSet(classified) /\ Cardinality(classified) <= Cardinality(Passed)
        /\ Cardinality(classified) \in Nat /\ Cardinality(Passed) \in Nat
    BY <2>1, FS_Subset, FS_CardinalityType
  <2> QED
    BY <2>1, <2>2, ChatAssumption DEF ChatAssumption
<1>3. ToldIsStored
  BY DEF ChatInv, Tried
<1>4. EvidenceKept
  BY DEF ChatInv, OneLead, EvidenceKept
<1> QED
  BY <1>1, <1>2, <1>3, <1>4

(* What every request knows of the transcript and the leads, in every state.   *)
THEOREM ChatAlways == Spec => []ChatInv
<1>1. Init => ChatInv
  BY ChatInit, ChatAssumption
<1>2. ChatInv /\ [Next]_vars => ChatInv'
  BY ChatInvNext, ChatAssumption
<1> QED
  BY <1>1, <1>2, PTL DEF Spec

(* A number is handed to the caller as consent only if the bot's last message  *)
(* before it was the number question with its disclosure, unless two requests  *)
(* ran at once: Consented, read off the transcript as it was at seen, is what  *)
(* the transcript shows at the message itself.                                 *)
THEOREM ConsentFollows == Spec => []ConsentFollowsDisclosure
<1>1. ChatInv => ConsentFollowsDisclosure
  BY ChatInvImplies
<1> QED
  BY <1>1, ChatAlways, PTL

(* No more messages are classified than the tenant's cap, unless two tries of  *)
(* one turn ran at once: the gate's own answers, which Turns takes off, answer *)
(* messages that are never classified.                                         *)
THEOREM CapAlwaysHolds == Spec => []CapHolds
<1>1. ChatInv => CapHolds
  BY ChatInvImplies
<1> QED
  BY <1>1, ChatAlways, PTL

(* A turn sent with its id is answered with the reply stored for it, unless    *)
(* two tries of it ran at once: Replay leaves none behind that Answer meets.   *)
THEOREM ToldAlwaysStored == Spec => []ToldIsStored
<1>1. ChatInv => ToldIsStored
  BY ChatInvImplies
<1> QED
  BY <1>1, ChatAlways, PTL

(* A visitor who waits for the answer keeps one lead, and the consent a call   *)
(* was handed over with stays on it: Save replaces it by what ReadLead read,   *)
(* and that is still what the row shows.                                       *)
THEOREM EvidenceAlwaysKept == Spec => []EvidenceKept
<1>1. ChatInv => EvidenceKept
  BY ChatInvImplies
<1> QED
  BY <1>1, ChatAlways, PTL
=============================================================================
