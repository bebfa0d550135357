---------------------------- MODULE MCAuditChain ----------------------------
(* Rows, and sealers, are interchangeable.                                   *)
EXTENDS AuditChain, TLC

Symmetry == Permutations(Events) \union Permutations(Sealers)
=============================================================================
