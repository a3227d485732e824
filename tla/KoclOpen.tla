------------------------------ MODULE KoclOpen ------------------------------
(***************************************************************************)
(* Who may open /dev/kocl: kocl_open and kocl_release of kocl/main.c, and  *)
(* their count kocldev_av.  An open takes the count down and, unless that  *)
(* made it zero, up again: two atomic steps.  A release sets it to 1.      *)
(***************************************************************************)
EXTENDS Integers, FiniteSets

CONSTANT Procs      \* processes that open the device

ASSUME ProcsAssumption == IsFiniteSet(Procs)

VARIABLES
    kocldev_av, \* the count
    pc,         \* per process: "closed", "busy" (its open fails), "open"
    overtaken   \* a release ran between the two steps of an open that failed

vars == <<kocldev_av, pc, overtaken>>

At(s) == {p \in Procs : pc[p] = s}

Init ==
    /\ kocldev_av = 1
    /\ pc = [p \in Procs |-> "closed"]
    /\ overtaken = FALSE

(* Mutant: the test is made before the decrement, with the count 1 or 0.   *)
kocl_open_early_test(p) ==
    /\ pc[p] = "closed"
    /\ kocldev_av' = kocldev_av - 1
    /\ pc' = [pc EXCEPT ![p] = IF kocldev_av >= 0 THEN "open" ELSE "busy"]
    /\ UNCHANGED overtaken

(* atomic_dec_and_test.                                                    *)
kocl_open(p) ==
    /\ pc[p] = "closed"
    /\ kocldev_av' = kocldev_av - 1
    /\ pc' = [pc EXCEPT ![p] = IF kocldev_av' = 0 THEN "open" ELSE "busy"]
    /\ UNCHANGED overtaken

(* atomic_inc, and -EBUSY.                                                 *)
kocl_open_busy(p) ==
    /\ pc[p] = "busy"
    /\ kocldev_av' = kocldev_av + 1
    /\ pc' = [pc EXCEPT ![p] = "closed"]
    /\ UNCHANGED overtaken

(* Mutant: a release leaves the count alone.                               *)
kocl_release_no_set(p) ==
    /\ pc[p] = "open"
    /\ pc' = [pc EXCEPT ![p] = "closed"]
    /\ overtaken' = (overtaken \/ At("busy") # {})
    /\ UNCHANGED kocldev_av

(* atomic_set(&kocldev_av, 1), whatever the count is.                      *)
kocl_release(p) ==
    /\ pc[p] = "open"
    /\ kocldev_av' = 1
    /\ pc' = [pc EXCEPT ![p] = "closed"]
    /\ overtaken' = (overtaken \/ At("busy") # {})

Next == \E p \in Procs : kocl_open(p) \/ kocl_open_busy(p) \/ kocl_release(p)

Spec == Init /\ [][Next]_vars

-----------------------------------------------------------------------------
(* The count neither drifts nor wraps, however many opens fail and         *)
(* whatever releases overtake them.                                        *)
TypeOK ==
    /\ kocldev_av \in (1 - Cardinality(Procs)) .. (1 + Cardinality(Procs))
    /\ pc \in [Procs -> {"closed", "busy", "open"}]
    /\ overtaken \in BOOLEAN

(* The device has one opener at most, so requests are read, and buffers    *)
(* registered, by one helper - unless a release overtook a failing open.   *)
OneOpener ==
    ~overtaken => \A p, q \in Procs : pc[p] = "open" /\ pc[q] = "open" => p = q

(* A device that nobody has open, or is just being refused, can be opened: *)
(* failed opens do not use the count up - under the same condition.        *)
CanBeOpened ==
    ~overtaken /\ At("open") = {} /\ At("busy") = {} => kocldev_av = 1
=============================================================================
