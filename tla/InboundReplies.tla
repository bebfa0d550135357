--------------------------- MODULE InboundReplies ---------------------------
(***************************************************************************)
(* What the outbox's handler of email_reply_received does                  *)
(* (email_agent/inbound_service.py), composed with the outbox of           *)
(* AgentEvents that claims, retries and redelivers it.  An event is one    *)
(* stored message: receive inserts the message and emits the event in one  *)
(* transaction, and a second delivery of the same Message-ID inserts       *)
(* nothing.  All messages are from one known contact.  A step is one       *)
(* statement or call of handle_reply; a handler may raise at each, and its *)
(* process may die at each.  A reply that leaves at once and one that      *)
(* waits as a draft are the same here.                                     *)
(***************************************************************************)
EXTENDS AgentEvents

CONSTANTS
  LabelSets,  \* what one message may be labelled: {one label} where the rules decide
              \* (rule_label), several where classify_reply is asked anew each time
  NoLabel,
  StepsLeft   \* the channels the sequence may have steps left on when they write

(* Who labels a message; of the model's labels all but the two that change a  *)
(* booking, reschedule_meeting and cancel_meeting.                            *)
ByRules == {"bounce", "out_of_office", "unsubscribe"}
ByModel == {"interested", "question", "book_meeting", "not_interested", "human_needed",
            "contact_later", "no_calls", "no_emails"}
Channels == {"email", "call"}

ASSUME RepliesAssumption ==
  /\ LabelSets \subseteq (SUBSET ByModel) \union {{l} : l \in ByRules}
  /\ NoLabel \notin ByRules \union ByModel
  /\ StepsLeft \subseteq (SUBSET Channels) \ {{}}

VARIABLES
  labels,    \* the labels each message may be given
  plan,      \* the contact's active outreach plan
  blocked,   \* channels on which the contact's values are suppressed
  booked,    \* the message whose handling holds the one slot they may ask for
  recorded,  \* email_messages.classification, NoLabel until record_handling
  byHand,    \* messages whose handled_action is "human"
  handler,   \* what each worker is doing to the message it handles
  reread     \* history: messages read by a second handler beside the first

wish == <<plan, blocked, booked>>
outbox == <<status, attempts, worker, crashes, runs, taken>>
record == <<labels, recorded, byHand>>
all == <<outbox, wish, record, handler, reread>>

-----------------------------------------------------------------------------
NoPlan == [goal |-> "none", steps |-> {}]
FollowUp == [goal |-> "follow_up", steps |-> {"email"}]
ContactLater == [goal |-> "contact_later", steps |-> Channels]
Created(new) == IF plan = NoPlan THEN new ELSE plan    \* PLAN_ALREADY_ACTIVE

KeepsPlanForBookings == {"no_calls", "no_emails", "bounce", "out_of_office", "book_meeting"}
KeepsPlan == {"no_calls", "no_emails", "bounce", "out_of_office"}
Suppressing == {"unsubscribe", "bounce", "no_emails"}     \* nothing is answered
Refusing == {"not_interested", "no_calls"}                \* answered, then blocked
Answering == {"question", "interested", "contact_later", "book_meeting"} \union Refusing
BlockOf(l) == IF l = "not_interested" THEN Channels
              ELSE IF l = "no_calls" THEN {"call"} ELSE {"email"}
ChannelEnded(l) == IF l = "no_calls" THEN {"call"}
                   ELSE IF l \in {"bounce", "no_emails"} THEN {"email"} ELSE {}

NoHandler == [at |-> "idle", event |-> NoEvent, label |-> NoLabel, said |-> "none"]

RepliesInit ==
  /\ Init
  /\ labels \in [Events -> LabelSets]
  /\ plan \in [goal : {"sequence"}, steps : StepsLeft] /\ blocked = {} /\ booked = NoEvent
  /\ recorded = [e \in Events |-> NoLabel] /\ byHand = {}
  /\ handler = [w \in Workers |-> NoHandler]
  /\ reread = {}

-----------------------------------------------------------------------------
(* The parts of the outbox that handle_reply does not change.                 *)
Beside(outboxStep) == outboxStep /\ UNCHANGED <<wish, record, handler, reread>>

LoseHandler(w) ==
  /\ LoseWorker(w)
  /\ handler' = [handler EXCEPT ![w] = NoHandler]
  /\ UNCHANGED <<wish, record, reread>>

(* get_inbound_context, and the label: a recorded message is not handled.     *)
RecordedForgotten(e) == FALSE
Recorded(e) == recorded[e] # NoLabel

ReadReply(w, e) ==
  /\ handler[w] = NoHandler /\ worker[w].event = NoEvent /\ e \in worker[w].batch
  /\ ~Recorded(e)
  /\ \E l \in labels[e] :
       handler' = [handler EXCEPT ![w] = [NoHandler EXCEPT !.at = "read", !.event = e, !.label = l]]
  /\ reread' = IF \E v \in Workers : handler[v].event = e THEN reread \union {e} ELSE reread
  /\ UNCHANGED <<outbox, wish, record>>

SkipReply(w, e) ==
  /\ handler[w] = NoHandler /\ Recorded(e)
  /\ HandleEvent(w, e, "returned")
  /\ UNCHANGED <<wish, record, handler, reread>>

At(w, step) == handler[w].at = step
Goes(w, step) == handler' = [handler EXCEPT ![w].at = step]
Within == UNCHANGED <<outbox, record, reread>>

(* stop_contact_plan, unless the label keeps the plan; then the branch of     *)
(* _act.  A person is called in (_handoff) where no label fits, the mailbox   *)
(* is not ready, the answer escalates or the date is too far away.            *)
FirstStep(l) ==
  CASE l \in Suppressing -> "block"
    [] l = "book_meeting" -> "book"
    [] l = "contact_later" -> "later"
    [] l \in Answering -> "gate"
    [] OTHER -> "record"

StopForReply(w, byPerson) ==
  LET l == handler[w].label IN
  /\ At(w, "read")
  /\ plan' = IF l \in KeepsPlan THEN plan ELSE NoPlan
  /\ IF byPerson
     THEN /\ l \notin ByRules
          /\ handler' = [handler EXCEPT ![w].at = "record", ![w].said = "human"]
     ELSE /\ l # "human_needed"
          /\ Goes(w, FirstStep(l))
  /\ UNCHANGED <<blocked, booked>> /\ Within

(* _try_book: the slot they ask for is booked, or is taken, or they ask for   *)
(* none and get the link.                                                     *)
TryBook(w) ==
  LET e == handler[w].event IN
  /\ At(w, "book")
  /\ \/ /\ booked = NoEvent /\ booked' = e
        /\ handler' = [handler EXCEPT ![w].at = "gate", ![w].said = "booked"]
     \/ /\ booked # NoEvent /\ UNCHANGED booked
        /\ handler' = [handler EXCEPT ![w].at = "gate", ![w].said = "taken"]
     \/ Goes(w, "gate") /\ UNCHANGED booked
     \/ /\ booked = NoEvent /\ UNCHANGED booked    \* CalendarSyncFailed: deleted again
        /\ handler' = [handler EXCEPT ![w].at = "record", ![w].said = "human"]
  /\ UNCHANGED <<plan, blocked>> /\ Within

PlanForLater(w) ==
  /\ At(w, "later") /\ Goes(w, "gate")
  /\ plan' = Created(ContactLater)
  /\ UNCHANGED <<blocked, booked>> /\ Within

(* _reply: the gate with purpose "reply" looks at the suppression list only;  *)
(* a blocked answer is handed to a person, and a refusal is still recorded.   *)
AfterAnswer(h) ==
  IF h.label \in Refusing THEN "block"
  ELSE IF h.label = "contact_later" \/ h.said # "none" THEN "record" ELSE "follow"
CheckReplyGate(w) ==
  LET l == handler[w].label IN
  /\ At(w, "gate")
  /\ handler' = [handler EXCEPT
       ![w] = IF "email" \notin blocked THEN [@ EXCEPT !.at = "send"]
              ELSE [@ EXCEPT !.at = IF l \in Refusing THEN "block" ELSE "record", !.said = "human"]]
  /\ UNCHANGED <<wish>> /\ Within

SendReply(w) ==
  /\ At(w, "send")
  /\ handler' = [handler EXCEPT ![w].at = AfterAnswer(handler[w]), ![w].said = "none"]
  /\ UNCHANGED wish /\ Within

(* _follow_up_if_quiet: one e-mail in two days, unless a plan is active.      *)
PlanFollowUp(w) ==
  /\ At(w, "follow") /\ Goes(w, "record")
  /\ plan' = Created(FollowUp)
  /\ UNCHANGED <<blocked, booked>> /\ Within

(* add_suppression, do_not_contact; then cancel_channel_tasks and             *)
(* stop_plan_if_empty where one channel ends.                                 *)
BlockContact(w) ==
  LET l == handler[w].label IN
  /\ At(w, "block") /\ Goes(w, IF ChannelEnded(l) = {} THEN "record" ELSE "prune")
  /\ blocked' = blocked \union BlockOf(l)
  /\ UNCHANGED <<plan, booked>> /\ Within

CancelChannel(w) ==
  /\ At(w, "prune") /\ Goes(w, "close")
  /\ plan' = [plan EXCEPT !.steps = @ \ ChannelEnded(handler[w].label)]
  /\ UNCHANGED <<blocked, booked>> /\ Within

KeptWhenEmpty == plan
StoppedWhenEmpty == IF plan.steps = {} THEN NoPlan ELSE plan
StopIfEmpty(w) ==
  /\ At(w, "close") /\ Goes(w, "record")
  /\ plan' = StoppedWhenEmpty
  /\ UNCHANGED <<blocked, booked>> /\ Within

(* record_handling comes last, and the handler returns.                       *)
RecordHandling(w) ==
  LET e == handler[w].event IN
  /\ At(w, "record")
  /\ recorded' = [recorded EXCEPT ![e] = handler[w].label]
  /\ byHand' = IF handler[w].said = "human" THEN byHand \union {e} ELSE byHand \ {e}
  /\ UNCHANGED labels
  /\ HandleEvent(w, e, "returned")
  /\ handler' = [handler EXCEPT ![w] = NoHandler]
  /\ UNCHANGED <<wish, reread>>

(* A statement, the model or the provider fails inside the handler.           *)
RaiseInHandler(w, result) ==
  /\ handler[w] # NoHandler
  /\ HandleEvent(w, handler[w].event, result)
  /\ handler' = [handler EXCEPT ![w] = NoHandler]
  /\ UNCHANGED <<wish, record, reread>>

-----------------------------------------------------------------------------
HandleReply(w) ==
  \/ \E e \in Events : ReadReply(w, e) \/ SkipReply(w, e)
  \/ \E byPerson \in BOOLEAN : StopForReply(w, byPerson)
  \/ TryBook(w) \/ PlanForLater(w) \/ CheckReplyGate(w) \/ SendReply(w) \/ PlanFollowUp(w)
  \/ BlockContact(w) \/ CancelChannel(w) \/ StopIfEmpty(w) \/ RecordHandling(w)
  \/ \E r \in {"error", "permanent"} : RaiseInHandler(w, r)
ClaimReplies(w, S) == handler[w] = NoHandler /\ Beside(ClaimDueEvents(w, S))
Work(w) ==
  HandleReply(w) \/ Beside(MarkEvent(w)) \/ \E S \in SUBSET Events : ClaimReplies(w, S)

RepliesNext ==
  \/ \E e \in Events : Beside(Emit(e)) \/ Beside(ReapStaleEvent(e)) \/ Beside(RetryEvent(e))
  \/ \E w \in Workers : Work(w) \/ LoseHandler(w)

RepliesFairness ==
  /\ \A w \in Workers : WF_all(Work(w))
  /\ \A e \in Events : SF_all(\E w \in Workers, S \in SUBSET Events : e \in S /\ ClaimReplies(w, S))
  /\ \A e \in Events : WF_all(Beside(ReapStaleEvent(e)))

RepliesSpec == RepliesInit /\ [][RepliesNext]_all /\ RepliesFairness

-----------------------------------------------------------------------------
(* What the row of a message says was done about it is done: a reply that     *)
(* stops the sequence has stopped it for good, an unsubscribe is on the       *)
(* suppression list, a channel they refused has no step left, and a plan that *)
(* lost its last step does not stay active, where it would keep others from   *)
(* being made, once the message that ended it is dealt with.                  *)
Handled(e) == recorded[e] # NoLabel
MustStop == {"unsubscribe", "not_interested", "human_needed",
             "question", "interested", "contact_later", "book_meeting"}
RecordIsTrue ==
  \A e \in Events :
    /\ status[e] = "done" => Handled(e)
    /\ recorded[e] \in MustStop => plan.goal # "sequence"
    /\ recorded[e] \in Suppressing \union Refusing /\ e \notin byHand =>
         BlockOf(recorded[e]) \subseteq blocked
    /\ plan.goal = "sequence" /\ Handled(e) /\ e \notin byHand =>
         plan.steps \intersect ChannelEnded(recorded[e]) = {}
HollowPlanIsStopped ==
  plan # NoPlan /\ plan.steps = {} =>
    \E e \in Events : status[e] # "none" /\ (~Handled(e) \/ e \in reread \union byHand)

(* "Idempotent per message" (inbound_service.py:138): nobody handles, and     *)
(* answers, a message whose handling is recorded, however often the outbox    *)
(* delivers its event, unless two handlers had read it before.                *)
RecordedIsClosed ==
  \A w \in Workers : handler[w] # NoHandler /\ Handled(handler[w].event) =>
    handler[w].event \in reread
=============================================================================
