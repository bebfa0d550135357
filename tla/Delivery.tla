------------------------------ MODULE Delivery ------------------------------
(***************************************************************************)
(* What the agents' outbox promises of an event: it is not lost once it is *)
(* emitted, it is closed as done only after its handler has run to the     *)
(* end, and it leaves the outbox's care otherwise only as a dead letter    *)
(* that can be opened again.  At least once, not exactly once: an event    *)
(* may be handled, and opened, again.                                      *)
(***************************************************************************)
CONSTANT Events

VARIABLES
  outcome,   \* "none", "open", "done" or "dead"
  handled    \* events whose handler has run to the end

vars == <<outcome, handled>>

Init ==
  /\ outcome = [e \in Events |-> "none"]
  /\ handled = {}

Emit(e) ==
  /\ outcome[e] = "none"
  /\ outcome' = [outcome EXCEPT ![e] = "open"]
  /\ UNCHANGED handled

Handle(e) ==
  /\ outcome[e] # "none"
  /\ handled' = handled \union {e}
  /\ UNCHANGED outcome

Close(e) ==
  /\ e \in handled
  /\ outcome' = [outcome EXCEPT ![e] = "done"]
  /\ UNCHANGED handled

\* A delivery failed for good, or a late one failed and is to be tried again.
Fail(e) ==
  /\ outcome[e] # "none"
  /\ \E o \in {"dead", "open"} : outcome' = [outcome EXCEPT ![e] = o]
  /\ UNCHANGED handled

Next == \E e \in Events : Emit(e) \/ Handle(e) \/ Close(e) \/ Fail(e)

Spec == Init /\ [][Next]_vars
=============================================================================
