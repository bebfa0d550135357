-------------------------------- MODULE Agenda --------------------------------
(***************************************************************************)
(* What the booking code promises of a tenant's slots: a slot has at most  *)
(* one holder, is free between two holders, and nobody holds two slots.    *)
(***************************************************************************)
CONSTANTS Slots, Events

VARIABLE held   \* pairs of a slot and the event that holds it

Init == held = {}

Take(s, e) ==
  /\ \A h \in held : h[1] # s /\ h[2] # e
  /\ held' = held \union {<<s, e>>}
Release(s, e) ==
  /\ <<s, e>> \in held
  /\ held' = held \ {<<s, e>>}

Next == \E s \in Slots, e \in Events : Take(s, e) \/ Release(s, e)
Spec == Init /\ [][Next]_held
=============================================================================
