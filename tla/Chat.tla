-------------------------------- MODULE Chat --------------------------------
(***************************************************************************)
(* The chat of one visitor: the turn pipeline (orchestrator/service.py),   *)
(* what it learns about the visitor (orchestrator/identity_capture.py) and *)
(* the transcript it reads its own memory from                             *)
(* (conversation_store/repository.py).                                     *)
(*                                                                         *)
(* A request keeps nothing between turns: whether the name was asked for,  *)
(* whether the number may be asked for, and whether a number is consent to *)
(* be called, are read off the intents of the bot's stored replies.  No    *)
(* statement shares a transaction with another, a visitor may press Stop   *)
(* and write again while the server is still at the last message, and may  *)
(* send a message again whose answer never came, with or without its id.   *)
(*                                                                         *)
(* A message is one of a few kinds; what the classifier, the knowledge     *)
(* base, the model and the guardrails make of it is any of their answers.  *)
(***************************************************************************)
EXTENDS Integers, Sequences, FiniteSets

CONSTANTS
  Requests,   \* requests under way at the same time
  MaxTurns,   \* bound of the model: messages the visitor writes
  MaxTries,   \* bound of the model: requests they are sent with
  Kinds,      \* the kinds of message the visitor writes, of those below
  Labels,     \* the classifier's labels that occur, of _INTENT_LABELS
  WithId,     \* the turns sent with a message_id
  Known,      \* the visitors that come: those "new", those "named" before
  GateOn,     \* the tenant's identity_gate_enabled
  TurnCap,    \* the tenant's turn_cap
  FaultBound  \* bound of the model: requests that die or meet an LLMError

AllKinds == {"question", "name", "email", "emailQ", "phone", "details", "emailOnly",
             "callMe", "bye"}
AllLabels == {"question", "chitchat", "scheduling_request", "off_topic", "other"}

ASSUME ChatAssumption ==
  /\ MaxTurns \in Nat /\ MaxTries \in Nat /\ TurnCap \in Nat /\ FaultBound \in Nat
  /\ Kinds \subseteq AllKinds
  /\ Labels \subseteq AllLabels
  /\ WithId \subseteq 1 .. MaxTurns
  /\ Known \subseteq {"new", "named"}
  /\ GateOn \in BOOLEAN

VARIABLES
  said,        \* what the visitor wrote, one kind a turn
  log,         \* messages of the conversation, in the order they are stored
  leads,       \* the visitor's leads, the newest last
  handed,      \* inbound_lead_created events, with the message they answer
  req,         \* what each request is doing
  answered,    \* turns whose answer reached the visitor
  tries,       \* how many requests were sent
  faults,      \* how many of them died
  classified,  \* history: stored messages that reached the classifier
  differs,     \* history: turns answered with a reply that is not the stored one
  crossed,     \* history: turns two of whose tries ran at once
  overlapped   \* history: two requests ran at once

history == <<classified, differs, crossed, overlapped>>
vars == <<said, log, leads, handed, req, answered, tries, faults, history>>

-----------------------------------------------------------------------------
Turn == 1 .. MaxTurns
Index == 0 .. 2 * MaxTries
HasEmail(k) == k \in {"email", "emailQ", "details"}
HasPhone(k) == k \in {"phone", "details"}
OnlyEmail(k) == k = "email"
OnlyPhone(k) == k \in {"phone", "details"}
IsName(k) == k = "name"
NameInDetails(k) == k \in {"name", "details"}

PhoneAskIntents == {"ask_phone", "wrap_up_phone"}
WrapUps == {"wrap_up", "wrap_up_phone"}
Intent == AllLabels \union PhoneAskIntents \union WrapUps \union
          {"none", "ask_name", "ask_email", "email_only", "email_captured",
           "phone_captured", "chat_goodbye", "reschedule_offer", "reschedule_declined"}
Decision == {"none", "answer", "clarify", "escalate", "blocked", "identity_gate"}

Message == [role : {"user", "bot"}, turn : Turn, intent : Intent, decision : Decision]
Reply == [intent : Intent, decision : Decision]
Says(intent, decision) == [intent |-> intent, decision |-> decision]
GoOn == Says("none", "none")

Fields == {"name", "email", "phone"}
Lead == [has : SUBSET Fields, agreed : SUBSET Fields]
Nobody == [has |-> {}, agreed |-> {}]
Hand == [channel : {"email", "call", "noCalls"}, lead : 1 .. MaxTries + 1, row : Index]

Request ==
  [pc : {"idle", "replay", "store", "lead", "recent", "gate", "write", "hand", "decide",
         "book", "cap", "classify", "generate", "answer"},
   turn : Turn \union {0}, text : AllKinds \union {"none"}, row : Index, seen : Index,
   lead : 0 .. MaxTries + 1, as : Lead, field : Fields \union {"none"}, got : SUBSET Fields,
   grounded : BOOLEAN, suffix : Intent, reply : Reply]
Idle == [pc |-> "idle", turn |-> 0, text |-> "none", row |-> 0, seen |-> 0, lead |-> 0,
         as |-> Nobody, field |-> "none", got |-> {}, grounded |-> FALSE, suffix |-> "none",
         reply |-> GoOn]

Init ==
  /\ said = <<>> /\ log = <<>>
  /\ leads \in (IF "new" \in Known THEN {<<>>} ELSE {}) \union
               (IF "named" \in Known THEN {<<[has |-> {"name"}, agreed |-> {"name"}]>>} ELSE {})
  /\ handed = {}
  /\ req = [r \in Requests |-> Idle]
  /\ answered = {}
  /\ tries = 0 /\ faults = 0
  /\ classified = {} /\ differs = {} /\ crossed = {} /\ overlapped = FALSE

-----------------------------------------------------------------------------
\* What the pipeline reads off the transcript, of which the first n messages
\* were there at the moment of the query.
Bots(n) == {i \in 1 .. n : log[i].role = "bot"}
Latest(S) == CHOOSE i \in S : \A j \in S : j <= i
LastBot(n) ==
  IF Bots(n) = {} THEN GoOn ELSE LET m == log[Latest(Bots(n))] IN Says(m.intent, m.decision)
Used(n, intents) == \E i \in 1 .. n : log[i].intent \in intents
Stored(role, t) == {i \in 1 .. Len(log) : log[i].role = role /\ log[i].turn = t}
Count(role, decisions) ==
  Cardinality({i \in 1 .. Len(log) : log[i].role = role /\ log[i].decision \in decisions})

\* ON CONFLICT (tenant_id, conversation_id, message_id) DO NOTHING
Conflicts(role, t) == t \in WithId /\ Stored(role, t) # {}
AppendMessage(role, t, reply) ==
  log' = IF Conflicts(role, t) THEN log
         ELSE Append(log, [role |-> role, turn |-> t, intent |-> reply.intent,
                           decision |-> reply.decision])

Active == {r \in Requests : req[r].pc # "idle"}
At(r, pc) == req[r].pc = pc
Becomes(r, q) == req' = [req EXCEPT ![r] = q]
Goes(r, pc) == req' = [req EXCEPT ![r].pc = pc]
Answers(r, reply) ==
  Becomes(r, [Idle EXCEPT !.pc = "answer", !.turn = req[r].turn, !.reply = reply])

\* The widget sends the next message, or the last one again.
Send(r, t) ==
  /\ At(r, "idle")
  /\ tries < MaxTries
  /\ tries' = tries + 1
  /\ \/ t = Len(said) + 1 /\ t <= MaxTurns /\ \E k \in Kinds : said' = Append(said, k)
     \/ t = Len(said) /\ t >= 1 /\ t \notin answered /\ said' = said
  /\ Becomes(r, [Idle EXCEPT !.pc = IF t \in WithId THEN "replay" ELSE "store",
                             !.turn = t, !.text = said'[t]])
  /\ overlapped' = (overlapped \/ Active # {})
  /\ crossed' = IF \E p \in Active : req[p].turn = t THEN crossed \union {t} ELSE crossed
  /\ UNCHANGED <<log, leads, handed, answered, faults, classified, differs>>

\* Mutant of Replay: the transcript is not consulted.
ReplayNever(r) ==
  /\ At(r, "replay")
  /\ Goes(r, "store")
  /\ UNCHANGED <<said, log, leads, handed, answered, tries, faults, history>>

\* Step 4: a turn answered before is answered from the transcript.
Replay(r) ==
  LET q == req[r] IN
  /\ At(r, "replay")
  /\ IF Stored("bot", q.turn) # {}
     THEN /\ \E arrives \in BOOLEAN :
               answered' = IF arrives THEN answered \union {q.turn} ELSE answered
          /\ Becomes(r, Idle)
     ELSE Goes(r, "store") /\ UNCHANGED answered
  /\ UNCHANGED <<said, log, leads, handed, tries, faults, history>>

\* Step 5: the message is stored before anything that may fail.
StoreUser(r) ==
  LET q == req[r]
      row == IF Conflicts("user", q.turn) THEN CHOOSE i \in Stored("user", q.turn) : TRUE
             ELSE Len(log) + 1
  IN
  /\ At(r, "store")
  /\ AppendMessage("user", q.turn, GoOn)
  /\ Becomes(r, [q EXCEPT !.pc = IF GateOn THEN "lead" ELSE "book", !.row = row])
  /\ UNCHANGED <<said, leads, handed, answered, tries, faults, history>>

\* Step 5.5 begins with the visitor's newest lead ...
ReadLead(r) ==
  /\ At(r, "lead")
  /\ Becomes(r, [req[r] EXCEPT !.pc = "recent", !.lead = Len(leads),
                               !.as = IF leads = <<>> THEN Nobody ELSE leads[Len(leads)]])
  /\ UNCHANGED <<said, log, leads, handed, answered, tries, faults, history>>

\* ... and goes through the message's name, number and e-mail, in this order.
NextField(q, before) ==
  IF before = "name" /\ HasPhone(q.text) /\ "phone" \notin q.as.has
  THEN [q EXCEPT !.pc = "write", !.field = "phone"]
  ELSE IF before # "email" /\ HasEmail(q.text) /\ "email" \notin q.as.has
       THEN [q EXCEPT !.pc = "write", !.field = "email"]
       ELSE [q EXCEPT !.pc = "decide", !.field = "none"]

\* ... then the bot's recent intents.
ReadRecent(r) ==
  LET q == [req[r] EXCEPT !.seen = Len(log)] IN
  /\ At(r, "recent")
  /\ Becomes(r, IF "name" \in q.as.has THEN NextField(q, "name") ELSE [q EXCEPT !.pc = "gate"])
  /\ UNCHANGED <<said, log, leads, handed, answered, tries, faults, history>>

\* The message the name question interrupted: the one right before it.
Deferred(q) ==
  LET asks == {i \in 2 .. Len(log) : log[i].intent = "ask_name" /\ log[i - 1].role = "user"} IN
  IF asks = {} THEN q.text ELSE said[log[Latest(asks) - 1].turn]

\* The name is asked for once; the reply to that, or to "before you go", may be it.
Gate(r) ==
  LET q == req[r]
      last == LastBot(q.seen).intent
      named == IF last = "ask_name" THEN IsName(q.text)
               ELSE last \in WrapUps /\ NameInDetails(q.text)
  IN
  /\ At(r, "gate")
  /\ IF Count("bot", {"identity_gate"}) = 0
     THEN Answers(r, Says("ask_name", "identity_gate"))
     ELSE Becomes(r, IF named
                     THEN [q EXCEPT !.pc = "write", !.field = "name",
                                    !.text = IF last = "ask_name" THEN Deferred(q) ELSE @]
                     ELSE NextField(q, "name"))
  /\ UNCHANGED <<said, log, leads, handed, answered, tries, faults, history>>

\* _save: one INSERT, or one UPDATE that keeps the other fields and replaces
\* the consent by the consent as it was read, with this purpose added.
\* Mutant of Agreed: the consent is replaced, not extended.
AgreedAlone(q) == {q.field}
Agreed(q) == q.as.agreed \union {q.field}
Save(r) ==
  LET q == req[r]
      agreed == Agreed(q)
      lead == IF q.lead = 0 THEN Len(leads) + 1 ELSE q.lead
  IN
  /\ At(r, "write")
  /\ leads' = IF q.lead = 0 THEN Append(leads, [has |-> {q.field}, agreed |-> agreed])
              ELSE [leads EXCEPT ![lead].has = @ \union {q.field}, ![lead].agreed = agreed]
  /\ Becomes(r, [q EXCEPT !.pc = "hand", !.lead = lead])
  /\ UNCHANGED <<said, log, handed, answered, tries, faults, history>>

\* A number is consent to a call only as the reply to the bot's number question.
\* Mutant of Consented: the question was asked at some point of the chat.
ConsentedEver(q) == Used(q.seen, PhoneAskIntents)
Consented(q) == LastBot(q.seen).intent \in PhoneAskIntents
Channels(q) ==
  CASE q.field = "email" -> {"email"}
    [] q.field = "phone" -> IF Consented(q) THEN {"call"} ELSE {}
    [] OTHER -> {}

\* The lead is read back and what was agreed handed to the agents.
HandOver(r) ==
  LET q == [req[r] EXCEPT !.as = leads[req[r].lead],
                          !.got = IF req[r].field = "name" THEN @ ELSE @ \union {req[r].field}]
  IN
  /\ At(r, "hand")
  /\ handed' = handed \union
               {[channel |-> c, lead |-> q.lead, row |-> q.row] : c \in Channels(q)}
  /\ Becomes(r, NextField(q, q.field))
  /\ UNCHANGED <<said, log, leads, answered, tries, faults, history>>

Declined(n) == Used(n, {"email_only"})
AsksNumber(q) == "phone" \notin q.as.has /\ ~Used(q.seen, PhoneAskIntents) /\ ~Declined(q.seen)
NeedsNumber(q) == "phone" \notin q.as.has /\ ~Declined(q.seen)
SaysGoodbye(q) ==
  \/ {"name", "email"} \subseteq q.as.has /\ ~NeedsNumber(q)
  \/ Used(q.seen, WrapUps)

\* The message answered by identity capture alone, or GoOn.
IdentityReply(q) ==
  CASE q.text = "emailOnly" -> Says("email_only", "answer")
    [] "email" \in q.got /\ OnlyEmail(q.text) ->
         Says(IF AsksNumber(q) THEN "ask_phone" ELSE "email_captured", "answer")
    [] "phone" \in q.got /\ OnlyPhone(q.text) -> Says("phone_captured", "answer")
    [] q.text = "callMe" /\ "phone" \notin q.as.has -> Says("ask_phone", "answer")
    [] q.text = "bye" ->
         Says(IF SaysGoodbye(q) THEN "chat_goodbye"
              ELSE IF NeedsNumber(q) THEN "wrap_up_phone" ELSE "wrap_up", "answer")
    [] OTHER -> GoOn

Decide(r) ==
  LET q == req[r]
      reply == IdentityReply(q)
  IN
  /\ At(r, "decide")
  /\ handed' = IF reply.intent = "email_only" /\ q.as.has \intersect {"email", "phone"} # {}
               THEN handed \union {[channel |-> "noCalls", lead |-> q.lead, row |-> q.row]}
               ELSE handed
  /\ IF reply = GoOn THEN Goes(r, "book") ELSE Answers(r, reply)
  /\ UNCHANGED <<said, log, leads, answered, tries, faults, history>>

-----------------------------------------------------------------------------
\* Steps 5.55 and 5.6: the answer to "would you like to reschedule?", and
\* details for a booking.  Whether the visitor has a booking, and which
\* details the extractor finds, may be anything.
GaveContact(q) == (HasEmail(q.text) /\ "email" \notin q.got) \/
                  (HasPhone(q.text) /\ "phone" \notin q.got)
BookingReplies(q) ==
  LET last == LastBot(Len(log))
      triggered == \/ HasEmail(q.text) /\ "email" \notin q.got
                   \/ last.intent = "scheduling_request" /\
                      (GaveContact(q) \/ last.decision = "escalate")
  IN
  (IF last.intent = "reschedule_offer"
   THEN {Says("scheduling_request", "answer"), Says("reschedule_declined", "answer")}
   ELSE {})
  \union
  (IF triggered
   THEN {Says("reschedule_offer", "answer"), Says("scheduling_request", "escalate"),
         Says("scheduling_request", "answer")}
   ELSE {})
  \union
  (IF triggered /\ GaveContact(q) THEN {} ELSE {GoOn})

Book(r) ==
  /\ At(r, "book")
  /\ \E reply \in BookingReplies(req[r]) :
       IF reply = GoOn THEN Goes(r, "cap") ELSE Answers(r, reply)
  /\ UNCHANGED <<said, log, leads, handed, answered, tries, faults, history>>

\* Step 6: the turns that count against the cap, this one included.
\* Mutant of Turns: answered turns count, those that failed do not.
TurnsAnswered == Count("bot", Decision \ {"identity_gate"})
Turns == Count("user", Decision) - Count("bot", {"identity_gate"})

Cap(r) ==
  /\ At(r, "cap")
  /\ IF Turns > TurnCap THEN Answers(r, Says("none", "escalate")) ELSE Goes(r, "classify")
  /\ UNCHANGED <<said, log, leads, handed, answered, tries, faults, history>>

\* Steps 6.5 and 7.5: what is asked for below a clean answer.
Suffix(q, label) ==
  IF /\ GateOn
     /\ "email" \in q.got /\ "phone" \notin q.as.has
     /\ ~Used(q.seen, PhoneAskIntents)
  THEN "ask_phone"
  ELSE IF GateOn /\ label = "question" /\ "email" \notin q.as.has
          /\ ~Used(q.seen, {"ask_email"})
       THEN "ask_email"
       ELSE "none"

\* An off-topic message is steered back, the third in a row offered a call.
OffTopicReply ==
  LET n == Len(log)
      streak == /\ LastBot(n).intent = "off_topic"
                /\ LastBot(Latest(Bots(n)) - 1).intent = "off_topic"
  IN Says("off_topic", IF streak THEN "escalate" ELSE "clarify")

\* Steps 7 and 8: a fixed reply, or a generation to come.
LabelReplies(label) ==
  CASE label = "off_topic" -> {OffTopicReply}
    [] label = "scheduling_request" ->
         {Says("reschedule_offer", "answer"), Says("scheduling_request", "escalate")}
    [] label = "chitchat" -> {}
    [] OTHER -> {Says(label, "escalate")}
Grounds(label) == IF label \in {"question", "other"} THEN BOOLEAN ELSE {FALSE}
Generates(label) == label \in {"question", "other", "chitchat"}

Classify(r) ==
  LET q == req[r] IN
  /\ At(r, "classify")
  /\ classified' = classified \union {q.row}
  /\ \E label \in Labels :
       \/ \E reply \in LabelReplies(label) : Answers(r, reply)
       \/ /\ Generates(label)
          /\ \E grounded \in Grounds(label) :
               Becomes(r, [Idle EXCEPT !.pc = "generate", !.turn = q.turn,
                                       !.grounded = grounded, !.suffix = Suffix(q, label),
                                       !.reply = Says(label, "answer")])
  /\ UNCHANGED <<said, log, leads, handed, answered, tries, faults, differs, crossed, overlapped>>

\* _finalize_generation and _with_suffix: only a clean answer asks for more.
Generate(r) ==
  LET q == req[r]
      clean == IF q.suffix = "none" THEN q.reply ELSE Says(q.suffix, "answer")
      blocked == Says(q.reply.intent, "blocked")
      unanswered == Says(q.reply.intent, "escalate")
  IN
  /\ At(r, "generate")
  /\ \E reply \in {clean, blocked} \union (IF q.grounded THEN {unanswered} ELSE {}) :
       Answers(r, reply)
  /\ UNCHANGED <<said, log, leads, handed, answered, tries, faults, history>>

\* The reply is stored, unless this turn's is stored already, and sent; Stop
\* or the network may keep it from the visitor.
Answer(r) ==
  LET q == req[r] IN
  /\ At(r, "answer")
  /\ AppendMessage("bot", q.turn, q.reply)
  /\ \E arrives \in BOOLEAN :
       /\ answered' = IF arrives THEN answered \union {q.turn} ELSE answered
       /\ differs' = IF arrives /\ Conflicts("bot", q.turn)
                     THEN differs \union {q.turn} ELSE differs
  /\ Becomes(r, Idle)
  /\ UNCHANGED <<said, leads, handed, tries, faults, classified, crossed, overlapped>>

\* The process dies, the stream is cut, a statement fails or the model does.
Fail(r) ==
  /\ ~At(r, "idle")
  /\ faults < FaultBound
  /\ faults' = faults + 1
  /\ Becomes(r, Idle)
  /\ UNCHANGED <<said, log, leads, handed, answered, tries, history>>

Step(r) ==
  \/ Replay(r) \/ StoreUser(r) \/ ReadLead(r) \/ ReadRecent(r) \/ Gate(r)
  \/ Save(r) \/ HandOver(r) \/ Decide(r) \/ Book(r) \/ Cap(r)
  \/ Classify(r) \/ Generate(r) \/ Answer(r)

Next == \E r \in Requests : Step(r) \/ Fail(r) \/ \E t \in Turn : Send(r, t)

Spec == Init /\ [][Next]_vars

-----------------------------------------------------------------------------
(* Properties.                                                             *)

\* Every variable keeps its type.
TypeOK ==
  /\ said \in Seq(Kinds) /\ Len(said) <= MaxTurns
  /\ log \in Seq(Message) /\ Len(log) <= 2 * MaxTries
  /\ leads \in Seq(Lead)
  /\ handed \subseteq Hand
  /\ req \in [Requests -> Request]
  /\ answered \subseteq Turn
  /\ tries \in 0 .. MaxTries /\ faults \in 0 .. FaultBound
  /\ classified \subseteq Index /\ differs \subseteq Turn /\ crossed \subseteq Turn
  /\ overlapped \in BOOLEAN

\* No number is handed to the caller as consent unless the bot's last message
\* before it was the number question with its disclosure: not one asked
\* earlier, not one asked by a request that answers later.  Only a visitor
\* who writes again before the answer is there may see them in another order.
ConsentFollowsDisclosure ==
  \A e \in handed :
    e.channel = "call" => LastBot(e.row - 1).intent \in PhoneAskIntents \/ overlapped

\* No conversation has more messages classified, and so paid for, than the
\* tenant's cap, whatever was sent again and whatever failed.
CapHolds == Cardinality(classified) <= TurnCap \/ crossed # {}

\* A message sent with an id is answered with the reply the transcript shows
\* for it, however often it was sent and wherever a request died; the insert
\* that finds another reply there tells its own, and only two requests at
\* once for the one message can meet that.
ToldIsStored == differs \subseteq crossed

\* A visitor has one lead: name, number and e-mail of one message, or of
\* several, end up on the same row, and the consent a call was handed over
\* with stays on it: `agreed` are the purposes whose <purpose>_captured_at is
\* there (a number's also where nobody agreed to a call), which later saves
\* keep, while text and purpose are overwritten.  Only requests that run at the
\* same time make a second lead, or replace its consent by the one they had
\* read before.
EvidenceKept ==
  overlapped \/
    /\ Len(leads) <= 1
    /\ \A e \in handed : e.channel = "call" => "phone" \in leads[e.lead].agreed
=============================================================================
