---------------------------- MODULE MCCallAgent ----------------------------
(* CallAgent on a small instance: two webhooks at a time about one session   *)
(* of one dispatcher; until the first call is over, a second dispatcher and  *)
(* a second session, up to the provider's answer; and one dispatcher that    *)
(* dials twice, the second time because its first try raised.                *)
EXTENDS CallAgent, TLC

CONSTANTS c2, w2

OneSession == call[c2] = NoSession /\ worker[w2] = Idle
Quiet == faults = 0 /\ \A h \in Hooks : hook[h] = Done
NoCallIsOver ==
  /\ worker[w2].at # "verdict" /\ Quiet
  /\ \A c \in Calls : call[c].status \in {"none", "dialing"} /\ line[c] # "down"
Redialled ==
  /\ worker[w2] = Idle /\ Quiet
  /\ \A c \in Calls : ~call[c].answered /\ line[c] # "down"

Narrow == OneSession \/ NoCallIsOver \/ Redialled
=============================================================================
