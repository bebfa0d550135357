----------------------------- MODULE Campaigns -----------------------------
(***************************************************************************)
(* Outreach campaigns over the plans of Outreach: outreach_campaigns, the  *)
(* launch of a campaign by a confirmed request or an import, the Stop and  *)
(* Ends buttons of the console, and the housekeeping that ends campaigns   *)
(* past their date.  The plans, their steps and the dispatcher are those   *)
(* of Outreach, whose actions all stay possible.                           *)
(*                                                                         *)
(* A launch writes the campaign first and then one plan per contact, each  *)
(* in its own transaction, and no plan looks at the campaign's status.     *)
(* Stopping a campaign is one transaction over the campaign row and its    *)
(* plans; ending one is two: an UPDATE that marks every campaign past its  *)
(* date, then one transaction per campaign that stops its plans.           *)
(***************************************************************************)
EXTENDS Outreach

CONSTANTS
  Campaign,    \* campaign ids
  CampaignOf   \* the campaign a plan would be created in

ASSUME CampaignAssumption == CampaignOf \in [Plans -> Campaign]

VARIABLES
  campaign,  \* outreach_campaigns.status
  pastEnd,   \* campaigns whose ends_at is set and has passed
  closing,   \* the open transaction that stops the campaign's plans, if any
  toEnd,     \* campaigns the housekeeping marked and has yet to go through
  late,      \* history: plans created after their campaign was closed
  torn       \* history: campaigns marked by a housekeeping process that died

campaignVars == <<campaign, pastEnd, closing, toEnd, late, torn>>
allVars == <<vars, campaignVars>>

CInit ==
  /\ Init
  /\ campaign = [k \in Campaign |-> "none"]
  /\ pastEnd = {}
  /\ closing = [k \in Campaign |-> "no"]
  /\ toEnd = {}
  /\ late = {}
  /\ torn = {}

-----------------------------------------------------------------------------
(* Launching.                                                                 *)

CreateCampaign(k) ==
  /\ campaign[k] = "none"
  /\ campaign' = [campaign EXCEPT ![k] = "active"]
  /\ UNCHANGED <<vars, pastEnd, closing, toEnd, late, torn>>

(* The next contact of the launch, or a follow-up planned into the campaign   *)
(* of the contact's latest plan: neither reads the campaign's status.         *)
PlanInCampaign(p, T) ==
  /\ campaign[CampaignOf[p]] # "none"
  /\ CreatePlan(p, T)
  /\ late' = IF campaign[CampaignOf[p]] = "active" /\ closing[CampaignOf[p]] = "no"
             THEN late ELSE late \union {p}
  /\ UNCHANGED <<campaign, pastEnd, closing, toEnd, torn>>

-----------------------------------------------------------------------------
(* Stopping, and ending on a date.                                            *)

PlansToStopWithSteps(k) ==
  {p \in Plans : CampaignOf[p] = k /\ plan[p] = "active" /\ LiveTasks(p) # {}}
PlansToStop(k) == {p \in Plans : CampaignOf[p] = k /\ plan[p] = "active"}

(* SELECT ... FOR UPDATE waits for a plan another transaction is stopping;    *)
(* then the plan and task rows are updated, up to the COMMIT.                 *)
BeginClosing(k, how) ==
  /\ closing[k] = "no"
  /\ PlansToStop(k) \intersect stopping = {}
  /\ Opened(PlansToStop(k))
  /\ closing' = [closing EXCEPT ![k] = how]
  /\ UNCHANGED <<plan, status, attempts, parked, suppressed, worker, history,
                 campaign, pastEnd, toEnd, late, torn>>

BeginStopCampaign(k) == campaign[k] # "none" /\ BeginClosing(k, "stop")
BeginEndCampaign(k) == k \in toEnd /\ BeginClosing(k, "end")

ClosedBy(k) == {p \in stopping : CampaignOf[p] = k}

CommitClosing(k) ==
  /\ closing[k] # "no"
  /\ Committed(ClosedBy(k))
  /\ campaign' = IF closing[k] = "stop" THEN [campaign EXCEPT ![k] = "cancelled"] ELSE campaign
  /\ toEnd' = IF closing[k] = "end" THEN toEnd \ {k} ELSE toEnd
  /\ closing' = [closing EXCEPT ![k] = "no"]
  /\ UNCHANGED <<attempts, parked, suppressed, worker, history, pastEnd, late, torn>>

(* set_campaign_end writes whatever date it is given, and dates pass.         *)
ReachEnd(k) ==
  /\ campaign[k] # "none" /\ k \notin pastEnd
  /\ pastEnd' = pastEnd \union {k}
  /\ UNCHANGED <<vars, campaign, closing, toEnd, late, torn>>

MoveEnd(k) ==
  /\ k \in pastEnd
  /\ pastEnd' = pastEnd \ {k}
  /\ UNCHANGED <<vars, campaign, closing, toEnd, late, torn>>

(* The UPDATE of end_campaigns_system; it waits for a campaign being stopped. *)
Overdue == {k \in pastEnd : campaign[k] = "active"}

MarkEnded ==
  /\ toEnd = {}
  /\ Overdue # {} /\ \A k \in Overdue : closing[k] = "no"
  /\ campaign' = [k \in Campaign |-> IF k \in Overdue THEN "completed" ELSE campaign[k]]
  /\ toEnd' = Overdue
  /\ UNCHANGED <<vars, pastEnd, closing, late, torn>>

(* The housekeeping process dies: its open transaction is rolled back, and    *)
(* nothing remembers which of the marked campaigns it had not gone through.   *)
LoseHousekeeping ==
  LET open == {k \in Campaign : closing[k] = "end"}
      P == UNION {ClosedBy(k) : k \in open} IN
  /\ toEnd # {}
  /\ toEnd' = {}
  /\ torn' = torn \union toEnd
  /\ closing' = [k \in Campaign |-> IF k \in open THEN "no" ELSE closing[k]]
  /\ stopping' = stopping \ P
  /\ locked' = {t \in locked : PlanOf[t] \notin P}
  /\ UNCHANGED <<plan, status, attempts, parked, suppressed, worker, history,
                 campaign, pastEnd, late>>

-----------------------------------------------------------------------------
CommitPlanStop(p) == closing[CampaignOf[p]] = "no" /\ CommitStop(p)

(* Outreach's Next, with the plans created in campaigns.                      *)
OutreachStep ==
  \/ \E w \in Workers : Dispatch(w)
  \/ \E t \in Tasks : ReapStaleTask(t)
  \/ \E t \in Tasks, v \in Verdicts, b \in BOOLEAN : SettleParked(t, v, b)
  \/ \E t \in Tasks : RetryTask(t) \/ DismissTask(t)
  \/ \E p \in Plans : BeginStop(p) \/ BeginStopIfEmpty(p) \/ CommitPlanStop(p)
  \/ \E c \in Contacts, isCall \in BOOLEAN : CancelChannelTasks(c, isCall)
  \/ \E c \in Contacts : OptOut(c) \/ LiftOptOut(c) \/ ErasePlans(c)

CNext ==
  \/ OutreachStep /\ UNCHANGED campaignVars
  \/ \E p \in Plans, T \in SUBSET Tasks : PlanInCampaign(p, T)
  \/ \E k \in Campaign : CreateCampaign(k) \/ ReachEnd(k) \/ MoveEnd(k)
  \/ \E k \in Campaign : BeginStopCampaign(k) \/ BeginEndCampaign(k) \/ CommitClosing(k)
  \/ MarkEnded
  \/ LoseHousekeeping

(* Beat runs the reaper and the housekeeping of one task every five minutes,  *)
(* PostgreSQL commits.                                                        *)
CFairness ==
  /\ \A t \in Tasks : WF_allVars(ReapStaleTask(t) /\ UNCHANGED campaignVars)
  /\ \A p \in Plans : WF_allVars(CommitPlanStop(p) /\ UNCHANGED campaignVars)
  /\ \A k \in Campaign : WF_allVars(CommitClosing(k)) /\ SF_allVars(BeginEndCampaign(k))
  /\ WF_allVars(MarkEnded)

CSpec == CInit /\ [][CNext]_allVars
CFairSpec == CSpec /\ CFairness

-----------------------------------------------------------------------------
(* Properties.                                                                *)

(* "Its active plans stop, steps cancelled" (runbook section 3): once a stop  *)
(* has committed, no plan of the campaign is active but those a launch or a   *)
(* follow-up added while or after it was being stopped.                       *)
StoppedCampaignIsQuiet ==
  \A p \in Plans : campaign[CampaignOf[p]] = "cancelled" /\ plan[p] = "active" => p \in late

(* "Its plans stop after that day" (runbook section 3): a plan that was there *)
(* when the housekeeping marked its campaign as ended does not stay active    *)
(* for ever, unless that process died before it came to the campaign: the     *)
(* next one looks for active campaigns only, and the plan runs on.            *)
EndedCampaignStops ==
  \A p \in Plans :
    campaign[CampaignOf[p]] = "completed" /\ plan[p] = "active" /\ p \notin late
      ~> plan[p] # "active" \/ CampaignOf[p] \in torn
=============================================================================
