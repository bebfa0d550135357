------------------------------- MODULE MCChat -------------------------------
(* One conversation of three messages for TLC.  Requests are alike.          *)
EXTENDS Chat, TLC

\* Requests overlap in the first two messages only; what comes after is what a
\* visitor who waits sees.
OverlapEarly == overlapped => Len(said) <= 2 /\ tries <= 3

Symmetry == Permutations(Requests)
=============================================================================
