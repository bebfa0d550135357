----------------------------- MODULE MCOutreach -----------------------------
(* One plan of one contact with one call task, and two workers that may claim  *)
(* it from each other.                                                         *)
EXTENDS Outreach

CONSTANTS c1, p1

MCContactOf == [p \in Plans |-> c1]
MCPlanOf == [t \in Tasks |-> p1]
=============================================================================
