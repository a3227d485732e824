---------------------------- MODULE MCKoclHelper ----------------------------
(* KoclHelper on small instances. *)
EXTENDS KoclHelper, TLC

Symmetry == Permutations(Ids)
=============================================================================
