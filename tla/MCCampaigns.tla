---------------------------- MODULE MCCampaigns ----------------------------
(* One campaign with one plan of one call task, and one worker.              *)
EXTENDS Campaigns

CONSTANTS c1, p1, k1

MCContactOf == [p \in Plans |-> c1]
MCPlanOf == [t \in Tasks |-> p1]
MCCampaignOf == [p \in Plans |-> k1]
=============================================================================
