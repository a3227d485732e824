---------------------------- MODULE MCEcryptfsOpen ----------------------------
(* A passphrase token and a private key; every kind of lower file and of   *)
(* mount.  Either all tasks run and make CallsTogether calls, or one task  *)
(* makes MaxCalls, on mounts with the metadata in the xattr.               *)
EXTENDS EcryptfsOpen

CONSTANTS p, q, CallsTogether

Header(sigs) == [fek |-> 1, sigs |-> sigs, size |-> 1]
FewMounts == {[sigs |-> <<p, q>>, xattr |-> FALSE, passthrough |-> FALSE],
              [sigs |-> <<p>>, xattr |-> TRUE, passthrough |-> TRUE]}
FewFiles == {NoFile, [NoFile EXCEPT !.exists = TRUE],
             [NoFile EXCEPT !.exists = TRUE, !.nonempty = TRUE, !.contents = Header(<<p, q>>)],
             [NoFile EXCEPT !.exists = TRUE, !.nonempty = TRUE, !.xattr = Header(<<q>>)]}

(* Also one more mount, and files that have metadata in the xattr and      *)
(* nothing in them.                                                        *)
MCMounts == FewMounts \cup {[sigs |-> <<q>>, xattr |-> TRUE, passthrough |-> FALSE]}
MCFiles == FewFiles \cup {[NoFile EXCEPT !.exists = TRUE, !.xattr = [Header(<<k>>) EXCEPT !.size = 0]] : k \in {p, q}}

VARIABLE runs     \* the tasks that run in this behavior

One == CHOOSE t \in Tasks : TRUE

MCInit == /\ Init
          /\ \/ runs = {One} /\ mnt.xattr
             \/ runs = Tasks /\ mnt \in FewMounts /\ lower \in FewFiles
MCNext == /\ Next /\ UNCHANGED runs
          /\ \A t \in Tasks \ runs : pc'[t] = "idle"
          /\ runs = Tasks => calls' <= CallsTogether

(* The bounds forbid calls and mounts only, of which none is owed.         *)
MCSpec == MCInit /\ [][MCNext]_<<vars, runs>> /\ \A t \in Tasks : WF_vars(Step(t))
===============================================================================
