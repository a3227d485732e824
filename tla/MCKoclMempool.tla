--------------------------- MODULE MCKoclMempool ---------------------------
(* KoclMempool on a small instance. *)
EXTENDS KoclMempool, TLC

(* kmalloc returns memory full of small numbers: the least harmless case,  *)
(* because a size of 2 fits in the pool at most units.                     *)
ConstFresh == {[u \in Units |-> 2]}

Symmetry == Permutations(Clients)
=============================================================================
