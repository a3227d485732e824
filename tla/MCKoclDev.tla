----------------------------- MODULE MCKoclDev -----------------------------
(* KoclDev on small instances. *)
EXTENDS KoclDev, TLC

Symmetry ==
    Permutations(Callers) \cup Permutations(Requests) \cup Permutations(Data)
=============================================================================
