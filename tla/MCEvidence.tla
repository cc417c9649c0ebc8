----------------------------- MODULE MCEvidence -----------------------------
(* Small instances of Evidence, and of Incidents within it. *)
EXTENDS Evidence, TLC

Symmetry == Permutations(Ids) \cup Permutations(Requests) \cup Permutations(Correlators)
=============================================================================
