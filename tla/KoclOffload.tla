---------------------------- MODULE KoclOffload ----------------------------
(***************************************************************************)
(* What kocl promises a kernel caller that offloads work to the GPU,       *)
(* whatever the path through queues, helper and callbacks: a call that was *)
(* accepted is answered, once, and only then is over, or lost for good.    *)
(***************************************************************************)
CONSTANT Callers

VARIABLE call       \* per caller: "idle", "pending", "answered" or "lost"

Init == call = [c \in Callers |-> "idle"]

Submit(c) == call[c] = "idle" /\ call' = [call EXCEPT ![c] = "pending"]

Answer(c) == call[c] = "pending" /\ call' = [call EXCEPT ![c] = "answered"]

Finish(c) == call[c] = "answered" /\ call' = [call EXCEPT ![c] = "idle"]

(* The helper dies with what it had read.                                  *)
Lose == \E C \in SUBSET {c \in Callers : call[c] = "pending"} :
            call' = [c \in Callers |-> IF c \in C THEN "lost" ELSE call[c]]

Next == \/ \E c \in Callers : Submit(c) \/ Answer(c) \/ Finish(c)
        \/ Lose

Safety == Init /\ [][Next]_call

(* Callers need not submit; everything else is owed to them.               *)
Spec == Safety /\ \A c \in Callers : WF_call(Answer(c)) /\ WF_call(Finish(c))
=============================================================================
