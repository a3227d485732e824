--------------------------- MODULE MCEcryptfsFile ---------------------------
(* The data of a file on small instances: read and write by way of the GPU *)
(* (EcryptfsFile), by way of the page cache (EcryptfsPages), or reading    *)
(* ahead (EcryptfsReadahead).  The three share no state.                   *)
EXTENDS EcryptfsFile, EcryptfsPages, EcryptfsReadahead, TLC

VARIABLE part

Symmetry == Permutations(Procs) \cup Permutations(Frames)

MCWriteRanges == {<<0, 3>>, <<4, 1>>}

DataInit ==
    /\ part \in {"gpu", "page cache", "readahead"}
    /\ FileInit /\ PagesInit /\ ReadaheadInit
    /\ part # "page cache" => kind = "plain"
DataNext ==
    /\ part' = part
    /\ \/ part = "gpu" /\ FileNext /\ UNCHANGED <<pagesVars, readaheadVars>>
       \/ part = "page cache" /\ PagesNext /\ UNCHANGED <<fileVars, readaheadVars>>
       \/ part = "readahead" /\ ReadaheadNext /\ UNCHANGED <<fileVars, pagesVars>>
DataSpec == DataInit /\ [][DataNext]_<<fileVars, pagesVars, readaheadVars, part>>
=============================================================================
