----------------------------- MODULE MCKoclOpen -----------------------------
(* KoclStart, and with it KoclOpen, on a small instance: the libraries of  *)
(* gaes and jhash, and a file that is no service library.                  *)
EXTENDS KoclStart, TLC

MCLibs == <<[names |-> <<"gaes_ecb-enc", "gaes_ecb-dec">>, init |-> TRUE, setup |-> TRUE],
            [names |-> << >>, init |-> FALSE, setup |-> FALSE],
            [names |-> <<"jhash">>, init |-> TRUE, setup |-> TRUE]>>
Symmetry == Permutations(Procs)
=============================================================================
