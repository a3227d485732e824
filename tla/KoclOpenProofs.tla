--------------------------- MODULE KoclOpenProofs ---------------------------
(* For any finite set of processes, the count agrees with where they are,  *)
(* so that one of them at most has the device open; and for any libraries  *)
(* and registrations, helpers that start, serve and die under this rule    *)
(* find their services and get addresses in their own memory only.         *)
EXTENDS KoclStart, FiniteSetTheorems, SequenceTheorems, WellFoundedInduction, TLAPS

N(s) == Cardinality(At(s))

(* Opens keep the sum of the count and the processes that took it down.    *)
Sum == kocldev_av + N("open") + N("busy")

Typed == /\ kocldev_av \in Int
         /\ pc \in [Procs -> {"closed", "busy", "open"}]

OvertakenTyped == overtaken \in BOOLEAN

SumBounds == 1 <= Sum /\ Sum <= 1 + Cardinality(Procs)
CountExact == ~overtaken => Sum = 1 /\ N("open") <= 1

IInv == Typed /\ OvertakenTyped /\ SumBounds /\ CountExact

-----------------------------------------------------------------------------
(* The sets of processes at two places are finite, disjoint, and together  *)
(* no larger than Procs: what kocldev_av can count is bounded.             *)
LEMMA Counts ==
    /\ \A s : IsFiniteSet(At(s)) /\ N(s) \in Nat
    /\ Cardinality(Procs) \in Nat
    /\ N("open") + N("busy") <= Cardinality(Procs)
<1>1. \A s : At(s) \subseteq Procs
  BY DEF At
<1>2. \A s : IsFiniteSet(At(s)) /\ N(s) \in Nat
  BY <1>1, FS_Subset, FS_CardinalityType, ProcsAssumption DEF N
<1>3. Cardinality(Procs) \in Nat
  BY FS_CardinalityType, ProcsAssumption
<1>4. At("open") \cap At("busy") = {}
  BY DEF At
<1>5. Cardinality(At("open") \cup At("busy")) = N("open") + N("busy")
  <2>1. Cardinality({}) = 0
    BY FS_EmptySet
  <2>2. Cardinality(At("open") \cup At("busy"))
          = N("open") + N("busy") - Cardinality(At("open") \cap At("busy"))
    BY <1>2, FS_Union DEF N
  <2>3. Cardinality(At("open") \cap At("busy")) = 0
    BY <1>4, <2>1, Zenon
  <2>. QED  BY <1>2, <2>2, <2>3
<1>6. Cardinality(At("open") \cup At("busy")) <= Cardinality(Procs)
  <2>1. At("open") \cup At("busy") \subseteq Procs
    BY <1>1
  <2>. QED  BY <2>1, FS_Subset, ProcsAssumption
<1>. QED  BY <1>2, <1>3, <1>5, <1>6

(* While the count is 1 and exact, no process has taken it down.           *)
LEMMA NobodyInside ==
    ASSUME IInv, ~overtaken, kocldev_av = 1
    PROVE  N("open") = 0
<1>. QED  BY Counts DEF IInv, CountExact, Sum

LEMMA InitHolds == Init => IInv
<1>. SUFFICES ASSUME Init PROVE IInv
  OBVIOUS
<1>1. Typed /\ OvertakenTyped
  <2>1. Typed
    BY DEF Init, Typed
  <2>2. OvertakenTyped
    BY Zenon DEF Init, OvertakenTyped
  <2>. QED  BY <2>1, <2>2
<1>2. At("open") = {} /\ At("busy") = {}
  BY DEF Init, At
<1>3. N("open") = 0 /\ N("busy") = 0
  BY <1>2, FS_EmptySet DEF N
<1>4. Sum = 1
  BY <1>3 DEF Init, Sum
<1>. QED  BY <1>1, <1>3, <1>4, Counts DEF IInv, SumBounds, CountExact

(* One step per operation.                                                 *)
LEMMA StepKeeps == IInv /\ [Next]_vars => IInv'
<1>. SUFFICES ASSUME IInv, [Next]_vars PROVE IInv'
  OBVIOUS
<1>1. Typed /\ OvertakenTyped /\ SumBounds /\ CountExact
  BY DEF IInv
<1>2. ASSUME NEW p \in Procs, kocl_open(p) PROVE IInv'
  <2>1. /\ pc[p] = "closed" /\ kocldev_av' = kocldev_av - 1
        /\ pc' = [pc EXCEPT ![p] = IF kocldev_av' = 0 THEN "open" ELSE "busy"]
        /\ overtaken' = overtaken
    BY <1>2, Zenon DEF kocl_open
  <2>2. Typed'
    <3>1. kocldev_av' \in Int
      BY <1>1, <2>1 DEF Typed
    <3>2. pc' \in [Procs -> {"closed", "busy", "open"}]
      BY <1>1, <2>1 DEF Typed
    <3>. QED  BY <3>1, <3>2 DEF Typed
  <2>3. OvertakenTyped' /\ (~overtaken' => ~overtaken)
    BY <1>1, <2>1, Zenon DEF OvertakenTyped
  <2>4. CASE kocldev_av' = 0
    <3>1. pc' = [pc EXCEPT ![p] = "open"]
      BY <2>1, <2>4
    <3>2. kocldev_av = 1
      BY <1>1, <2>1, <2>4 DEF Typed
    <3>3. N("open")' = N("open") + 1 /\ N("busy")' = N("busy")
      <4>1. /\ At("open")' = At("open") \cup {p} /\ p \notin At("open")
            /\ At("busy")' = At("busy")
        BY <1>1, <2>1, <3>1 DEF At, Typed
      <4>2. Cardinality(At("open") \cup {p}) = Cardinality(At("open")) + 1
        BY <4>1, Counts, FS_AddElement
      <4>. QED  BY <4>1, <4>2 DEF N
    <3>4. ~overtaken => N("open") = 0
      BY <3>2, NobodyInside
    <3>. QED  BY <1>1, <2>2, <2>3, <2>4, <3>2, <3>3, <3>4, Counts
              DEF IInv, Sum, SumBounds, CountExact
  <2>5. CASE kocldev_av' # 0
    <3>1. pc' = [pc EXCEPT ![p] = "busy"]
      BY <2>1, <2>5
    <3>2. N("busy")' = N("busy") + 1 /\ N("open")' = N("open")
      <4>1. /\ At("busy")' = At("busy") \cup {p} /\ p \notin At("busy")
            /\ At("open")' = At("open")
        BY <1>1, <2>1, <3>1 DEF At, Typed
      <4>2. Cardinality(At("busy") \cup {p}) = Cardinality(At("busy")) + 1
        BY <4>1, Counts, FS_AddElement
      <4>. QED  BY <4>1, <4>2 DEF N
    <3>. QED  BY <1>1, <2>1, <2>2, <2>3, <3>2, Counts
              DEF IInv, Sum, SumBounds, CountExact, Typed
  <2>. QED  BY <2>4, <2>5
<1>3. ASSUME NEW p \in Procs, kocl_open_busy(p) PROVE IInv'
  <2>1. /\ pc[p] = "busy" /\ kocldev_av' = kocldev_av + 1
        /\ pc' = [pc EXCEPT ![p] = "closed"]
        /\ overtaken' = overtaken
    BY <1>3, Zenon DEF kocl_open_busy
  <2>2. Typed'
    BY <1>1, <2>1 DEF Typed
  <2>3. OvertakenTyped' /\ (~overtaken' => ~overtaken)
    BY <1>1, <2>1, Zenon DEF OvertakenTyped
  <2>4. N("busy")' = N("busy") - 1 /\ N("open")' = N("open")
    <3>1. /\ At("busy")' = At("busy") \ {p} /\ p \in At("busy")
          /\ At("open")' = At("open")
      BY <1>1, <2>1 DEF At, Typed
    <3>2. Cardinality(At("busy") \ {p}) = Cardinality(At("busy")) - 1
      BY <3>1, Counts, FS_RemoveElement
    <3>. QED  BY <3>1, <3>2 DEF N
  <2>. QED  BY <1>1, <2>1, <2>2, <2>3, <2>4, Counts
            DEF IInv, Sum, SumBounds, CountExact, Typed
<1>4. ASSUME NEW p \in Procs, kocl_release(p) PROVE IInv'
  <2>1. /\ pc[p] = "open" /\ kocldev_av' = 1
        /\ pc' = [pc EXCEPT ![p] = "closed"]
        /\ overtaken' = (overtaken \/ At("busy") # {})
    BY <1>4, Zenon DEF kocl_release
  <2>2. Typed'
    BY <1>1, <2>1 DEF Typed
  <2>3. OvertakenTyped' /\ (~overtaken' => ~overtaken /\ At("busy") = {})
    BY <1>1, <2>1, Zenon DEF OvertakenTyped
  <2>4. N("open")' = N("open") - 1 /\ N("busy")' = N("busy")
    <3>1. /\ At("open")' = At("open") \ {p} /\ p \in At("open")
          /\ At("busy")' = At("busy")
      BY <1>1, <2>1 DEF At, Typed
    <3>2. Cardinality(At("open") \ {p}) = Cardinality(At("open")) - 1
      BY <3>1, Counts, FS_RemoveElement
    <3>. QED  BY <3>1, <3>2 DEF N
  <2>5. Sum' = N("open") + N("busy")
    BY <2>1, <2>4, Counts DEF Sum
  <2>6. N("open") # 0
    <3>1. At("open") # {}
      BY <2>1 DEF At
    <3>2. IsFiniteSet(At("open"))
      BY Counts
    <3>. QED  BY <3>1, <3>2, FS_EmptySet DEF N
  <2>7. At("busy") = {} => N("busy") = 0
    BY FS_EmptySet DEF N
  <2>8. SumBounds'
    BY <2>5, <2>6, Counts DEF SumBounds
  <2>9. CountExact'
    BY <1>1, <2>3, <2>4, <2>5, <2>6, <2>7, Counts DEF CountExact
  <2>. QED  BY <2>2, <2>3, <2>8, <2>9 DEF IInv
<1>5. CASE UNCHANGED vars
  <2>1. kocldev_av' = kocldev_av /\ pc' = pc /\ overtaken' = overtaken
    BY <1>5, Zenon DEF vars
  <2>2. \A s : N(s)' = N(s)
    BY <2>1 DEF N, At
  <2>3. OvertakenTyped' /\ (~overtaken' => ~overtaken)
    BY <1>1, <2>1, Zenon DEF OvertakenTyped
  <2>. QED  BY <1>1, <2>1, <2>2, <2>3 DEF IInv, Typed, Sum, SumBounds, CountExact
<1>. QED  BY <1>2, <1>3, <1>4, <1>5 DEF Next

(* The inductive invariant: count and places agree, or the sum is bounded. *)
THEOREM CountAlways == Spec => []IInv
<1>. QED  BY InitHolds, StepKeeps, PTL DEF Spec

(* kocldev_av neither drifts nor wraps, whatever opens and releases do.    *)
THEOREM CountBounded == Spec => []TypeOK
<1>1. IInv => TypeOK
  <2>. SUFFICES ASSUME IInv PROVE TypeOK
    OBVIOUS
  <2>1. kocldev_av \in (1 - Cardinality(Procs)) .. (1 + Cardinality(Procs))
    BY Counts DEF IInv, Typed, SumBounds, Sum
  <2>. QED  BY <2>1, Zenon DEF IInv, Typed, OvertakenTyped, TypeOK
<1>. QED  BY <1>1, CountAlways, PTL

(* Two openers would make the count of those that have it open 2.          *)
LEMMA AtMostOne == IInv => OneOpener
<1>. SUFFICES ASSUME IInv, ~overtaken,
                     NEW p \in Procs, NEW q \in Procs,
                     pc[p] = "open", pc[q] = "open"
              PROVE  p = q
  BY DEF OneOpener
<1>1. p \in At("open") /\ q \in At("open")
  BY DEF At
<1>2. Cardinality(At("open")) <= 1 /\ IsFiniteSet(At("open"))
  BY Counts DEF IInv, CountExact, N
<1>3. Cardinality(At("open") \ {p}) = Cardinality(At("open")) - 1
  BY <1>1, <1>2, FS_RemoveElement
<1>4. IsFiniteSet(At("open") \ {p})
  BY <1>2, FS_Subset
<1>5. Cardinality(At("open") \ {p}) = 0
  BY <1>2, <1>3, <1>4, FS_CardinalityType
<1>. QED  BY <1>1, <1>4, <1>5, FS_EmptySet

(* kocl_open admits one process at a time, unless a release overtook one   *)
(* that was being refused.                                                 *)
THEOREM OneOpenerAlways == Spec => []OneOpener
<1>. QED  BY AtMostOne, CountAlways, PTL

(* Refused opens do not use the device up: when all are gone the count is  *)
(* 1 again and the next kocl_open succeeds.                                *)
THEOREM OpenableAgain == Spec => []CanBeOpened
<1>1. IInv => CanBeOpened
  BY FS_EmptySet DEF IInv, Typed, CountExact, Sum, N, CanBeOpened
<1>. QED  BY <1>1, CountAlways, PTL
-----------------------------------------------------------------------------
(* Libraries and registrations: KoclStart.  Every step of a helper's start *)
(* is one of KoclOpen or leaves its variables alone, so what was proved    *)
(* above holds there too.                                                  *)
Stages == {"start", "opened", "registered", "serving"}
Given == given # None

StartTyped ==
  /\ stage \in [Procs -> Stages]
  /\ next \in [Procs -> Nat \ {0}]
  /\ open \in [Procs -> SUBSET Nat]
  /\ services \in [Procs -> SUBSET [name : STRING, lib : Nat]]
  /\ registered \in Nat /\ owner \in Seq(Procs) /\ Len(owner) = registered

Flags == nomem \in BOOLEAN /\ half \in BOOLEAN

(* A helper that is past its start has the device open, and all libraries  *)
(* loaded when it serves.                                                  *)
Staged ==
  \A p \in Procs : /\ stage[p] = "start" <=> pc[p] # "open"
                   /\ stage[p] = "serving" => next[p] = Len(Libs) + 1

(* The pool's addresses are of the registration of the helper that is      *)
(* past its own.                                                           *)
OwnPool ==
  ~half /\ ~overtaken =>
    \A p \in Procs : stage[p] \in {"registered", "serving"} =>
      uva = kva /\ uva \in 1..registered /\ owner[uva] = p

(* A request that is queued, or read, has its buffer.                      *)
BufferKept == Given \/ request \in Names => buffer # None

GivenOwn ==
  Given => (given.sound /\ given.at # None =>
              given.at = buffer /\ given.at \in 1..registered /\ owner[given.at] = given.by)

(* Unless memory was short, a process has the services of every library it *)
(* loaded, and those it has are of open libraries.                         *)
Loaded ==
  ~nomem =>
    \A p \in Procs :
      /\ \A i \in 1..Len(Libs) : i < next[p] /\ Libs[i].init =>
           \A n \in Range(Libs[i].names) : [name |-> n, lib |-> i] \in services[p]
      /\ \A s \in services[p] : s.lib \in 1..Len(Libs) /\ (Libs[s.lib].setup => s.lib \in open[p])

StartIInv ==
  IInv /\ StartTyped /\ Flags /\ Staged /\ OwnPool /\ BufferKept /\ GivenOwn /\ Loaded /\ ServiceFound

-----------------------------------------------------------------------------
(* A set of numbers has a least one: what lookup_service finds exists.     *)
LEMMA LeastNumber ==
    ASSUME NEW S \in SUBSET Nat, S # {}
    PROVE  \E m \in S : \A k \in S : m <= k
<1>1. IsWellFoundedOn(OpToRel(<,Nat), Nat)
  BY NatLessThanWellFounded
<1>2. \E m \in S : \A k \in S : ~ (<<k, m>> \in OpToRel(<,Nat))
  BY <1>1, WFMin, Zenon
<1>3. \A m, k \in S : <<k, m>> \in OpToRel(<,Nat) <=> k < m
  BY DEF OpToRel
<1>4. \E m \in S : \A k \in S : ~ (k < m)
  BY <1>2, <1>3, Zenon
<1>. QED  BY <1>4

LEMMA LookupFinds ==
    ASSUME StartTyped, NEW p \in Procs, NEW name,
           \E s \in services[p] : s.name = name
    PROVE  \E s \in services[p] : s.name = name /\ lookup_service(p, name) = s.lib
<1>. DEFINE found == {s.lib : s \in {s \in services[p] : s.name = name}}
<1>1. found \in SUBSET Nat /\ found # {}
  BY DEF StartTyped
<1>2. \E m \in found : \A k \in found : m <= k
  <2>. HIDE DEF found
  <2>. QED  BY <1>1, LeastNumber
<1>3. lookup_service(p, name) = CHOOSE m \in found : \A k \in found : m <= k
  BY <1>1 DEF lookup_service
<1>4. lookup_service(p, name) \in found
  <2>. HIDE DEF found
  <2>. QED  BY <1>2, <1>3
<1>. QED  BY <1>4

(* A service that clients ask for is that of a library.                    *)
LEMMA LibraryTyped == \A i \in 1..Len(Libs) : Libs[i].names \in Seq(STRING)
<1>1. Libs \in Seq([names : Seq(STRING), init : BOOLEAN, setup : BOOLEAN])
  BY StartAssumption
<1>2. \A i \in 1..Len(Libs) : Libs[i] \in [names : Seq(STRING), init : BOOLEAN, setup : BOOLEAN]
  BY <1>1, ElementOfSeq
<1>. QED  BY <1>2

LEMMA Offered ==
    ASSUME NEW name \in Names
    PROVE  \E i \in 1..Len(Libs) : Libs[i].init /\ name \in Range(Libs[i].names)
<1>1. PICK lib \in Range(Libs) : lib.init /\ name \in Range(lib.names)
  BY DEF Names
<1>2. DOMAIN Libs = 1..Len(Libs)
  BY StartAssumption
<1>3. PICK i \in DOMAIN Libs : lib = Libs[i]
  BY DEF Range
<1>. QED  BY <1>1, <1>2, <1>3

(* Every step is one of KoclOpen, or leaves its variables alone.           *)
LEMMA StepOpens == StartNext => [Next]_vars
<1>. SUFFICES ASSUME StartNext PROVE [Next]_vars
  OBVIOUS
<1>1. ASSUME NEW p \in Procs,
             helper_open(p) \/ helper_refused(p) \/ exits(p) \/ set_gpu_bufs_fails(p)
      PROVE  Next
  BY <1>1, Zenon DEF Next, helper_open, helper_refused, exits, set_gpu_bufs_fails, Ends
<1>2. ASSUME NEW p \in Procs,
             \/ set_gpu_bufs(p) \/ set_gpu_bufs_half(p) \/ load_service(p)
             \/ main_loop(p) \/ kocl_read(p)
      PROVE  UNCHANGED vars
  BY <1>2, Zenon DEF set_gpu_bufs, set_gpu_bufs_half, load_service, main_loop, kocl_read, Read
<1>3. CASE kocl_malloc \/ kocl_offload \/ kocl_free \/ mod_exit
  BY <1>3, Zenon DEF kocl_malloc, kocl_offload, kocl_free, mod_exit
<1>. QED  BY <1>1, <1>2, <1>3, Zenon DEF StartNext

LEMMA OpenKept ==
    ASSUME IInv, [Next]_vars
    PROVE  IInv' /\ (~overtaken' => ~overtaken)
<1>1. IInv'
  BY StepKeeps
<1>2. ~overtaken' => ~overtaken
  BY Zenon DEF Next, kocl_open, kocl_open_busy, kocl_release, vars
<1>. QED  BY <1>1, <1>2

(* What a step that leaves the helper's variables alone need not prove.    *)
LEMMA StartInitHolds == StartInit => StartIInv
<1>. SUFFICES ASSUME StartInit PROVE StartIInv
  OBVIOUS
<1>. USE DEF StartInit
<1>1. IInv
  BY InitHolds
<1>2. StartTyped /\ Flags
  <2>1. << >> \in Seq(Procs) /\ Len(<< >>) = 0
    BY EmptySeq
  <2>2. Flags
    BY Zenon DEF Flags
  <2>. QED  BY <2>1, <2>2 DEF StartTyped, Stages
<1>3. Staged /\ OwnPool
  BY DEF Init, Staged, OwnPool
<1>4. BufferKept /\ GivenOwn /\ ServiceFound
  BY StartAssumption DEF Given, BufferKept, GivenOwn, ServiceFound
<1>5. Loaded
  BY DEF Loaded
<1>. QED  BY <1>1, <1>2, <1>3, <1>4, <1>5 DEF StartIInv

(* A registration is new memory, of the process that makes it.             *)
LEMMA Owned ==
    ASSUME StartTyped, NEW p \in Procs, gpu_alloc_pinned_mem(p)
    PROVE  /\ registered' = registered + 1 /\ registered' \in Nat
           /\ owner' \in Seq(Procs) /\ Len(owner') = registered' /\ owner'[registered'] = p
           /\ \A i \in 1..registered : i \in 1..registered' /\ owner'[i] = owner[i]
<1>1. owner' = Append(owner, p) /\ registered' = registered + 1
  BY DEF gpu_alloc_pinned_mem
<1>2. owner \in Seq(Procs) /\ Len(owner) = registered /\ registered \in Nat
  BY DEF StartTyped
<1>3. /\ Append(owner, p) \in Seq(Procs) /\ Len(Append(owner, p)) = Len(owner) + 1
      /\ \A i \in 1..Len(owner) : Append(owner, p)[i] = owner[i]
      /\ Append(owner, p)[Len(owner) + 1] = p
  BY <1>2, AppendProperties
<1>. QED  BY <1>1, <1>2, <1>3

(* Given what the client's own steps change, this is kept.                 *)
LEMMA GivenKept ==
    ASSUME StartIInv, UNCHANGED client, UNCHANGED nomem,
           \A i \in 1..registered : i \in 1..registered' /\ owner'[i] = owner[i]
    PROVE  BufferKept' /\ GivenOwn' /\ ServiceFound'
<1>1. UNCHANGED <<buffer, request, given, nomem>>
  BY DEF client
<1>2. BufferKept'
  BY <1>1 DEF StartIInv, BufferKept, Given
<1>3. GivenOwn'
  BY <1>1 DEF StartIInv, GivenOwn, Given
<1>4. ServiceFound'
  BY <1>1 DEF StartIInv, ServiceFound
<1>. QED  BY <1>2, <1>3, <1>4

LEMMA PoolsAlone ==
    ASSUME UNCHANGED pools
    PROVE  \A i \in 1..registered : i \in 1..registered' /\ owner'[i] = owner[i]
<1>. QED  BY DEF pools

(* A helper has opened the device, and registered nothing yet.             *)
LEMMA HelperOpenKeeps ==
    ASSUME StartIInv, NEW p \in Procs, helper_open(p)
    PROVE  StartIInv'
<1>1. IInv' /\ (~overtaken' => ~overtaken)
  <2>1. Next
    BY Zenon DEF helper_open, Next
  <2>. QED  BY <2>1, OpenKept, Zenon DEF StartIInv
<1>2. /\ pc[p] = "closed" /\ stage[p] = "start"
      /\ pc' = [pc EXCEPT ![p] = IF kocldev_av' = 0 THEN "open" ELSE "busy"]
      /\ stage' = [stage EXCEPT ![p] = IF pc'[p] = "open" THEN "opened" ELSE "start"]
      /\ UNCHANGED libraries /\ UNCHANGED pools /\ UNCHANGED client
  BY DEF helper_open, kocl_open
<1>3. UNCHANGED <<next, open, services, nomem, registered, uva, kva, half, owner>>
  BY <1>2 DEF libraries, pools
<1>4. StartTyped' /\ Flags'
  <2>1. StartTyped'
    BY <1>2, <1>3 DEF StartIInv, StartTyped, Stages
  <2>2. Flags'
    BY <1>3, Zenon DEF StartIInv, Flags
  <2>. QED  BY <2>1, <2>2
<1>5. Staged'
  <2>1. stage'[p] = "start" <=> pc'[p] # "open"
    BY <1>2 DEF StartIInv, StartTyped, IInv, Typed
  <2>2. \A q \in Procs \ {p} : pc'[q] = pc[q] /\ stage'[q] = stage[q]
    BY <1>2 DEF StartIInv, StartTyped, IInv, Typed
  <2>3. stage'[p] # "serving"
    BY <1>2 DEF StartIInv, StartTyped
  <2>. QED  BY <1>3, <2>1, <2>2, <2>3 DEF StartIInv, Staged
<1>6. OwnPool'
  <2>1. \A q \in Procs : stage'[q] \in {"registered", "serving"} => stage[q] \in {"registered", "serving"}
    BY <1>2 DEF StartIInv, StartTyped
  <2>. QED  BY <1>1, <1>3, <2>1 DEF StartIInv, OwnPool
<1>7. Loaded'
  BY <1>3 DEF StartIInv, Loaded
<1>. QED  BY <1>1, <1>2, <1>3, <1>4, <1>5, <1>6, <1>7, GivenKept, PoolsAlone DEF StartIInv

LEMMA RefusedKeeps ==
    ASSUME StartIInv, NEW p \in Procs, helper_refused(p)
    PROVE  StartIInv'
<1>1. IInv' /\ (~overtaken' => ~overtaken)
  <2>1. Next
    BY Zenon DEF helper_refused, Next
  <2>. QED  BY <2>1, OpenKept, Zenon DEF StartIInv
<1>2. pc[p] = "busy" /\ pc' = [pc EXCEPT ![p] = "closed"]
  BY DEF helper_refused, kocl_open_busy
<1>3. /\ UNCHANGED <<stage, next, open, services, nomem, registered, uva, kva, half, owner>>
      /\ UNCHANGED client /\ UNCHANGED pools
  BY DEF helper_refused, startVars, client, pools
<1>4. StartTyped' /\ Flags'
  <2>1. StartTyped'
    BY <1>3 DEF StartIInv, StartTyped
  <2>2. Flags'
    BY <1>3, Zenon DEF StartIInv, Flags
  <2>. QED  BY <2>1, <2>2
<1>5. Staged'
  BY <1>2, <1>3 DEF StartIInv, Staged, IInv, Typed
<1>6. OwnPool' /\ Loaded'
  BY <1>1, <1>3 DEF StartIInv, OwnPool, Loaded
<1>. QED  BY <1>1, <1>3, <1>4, <1>5, <1>6, GivenKept, PoolsAlone DEF StartIInv

(* The end of a process takes what it had with it, but not the pools.      *)
LEMMA Ended ==
    ASSUME StartIInv, NEW p \in Procs, Ends(p)
    PROVE  /\ IInv' /\ (~overtaken' => ~overtaken)
           /\ pc[p] = "open" /\ stage' \in [Procs -> Stages]
           /\ \A q \in Procs \ {p} : stage'[q] = stage[q]
           /\ stage'[p] = "start"
           /\ next' \in [Procs -> Nat \ {0}] /\ open' \in [Procs -> SUBSET Nat]
           /\ services' \in [Procs -> SUBSET [name : STRING, lib : Nat]]
           /\ UNCHANGED nomem /\ UNCHANGED client
           /\ Staged' /\ Loaded'
<1>1. IInv' /\ (~overtaken' => ~overtaken)
  <2>1. Next
    BY Zenon DEF Ends, Next
  <2>. QED  BY <2>1, OpenKept, Zenon DEF StartIInv
<1>2. pc[p] = "open" /\ pc' = [pc EXCEPT ![p] = "closed"]
  BY DEF Ends, kocl_release
<1>3. /\ stage' = [stage EXCEPT ![p] = "start"] /\ next' = [next EXCEPT ![p] = 1]
      /\ open' = [open EXCEPT ![p] = {}] /\ services' = [services EXCEPT ![p] = {}]
      /\ UNCHANGED nomem /\ UNCHANGED client
  BY DEF Ends
<1>4. /\ stage' \in [Procs -> Stages] /\ next' \in [Procs -> Nat \ {0}]
      /\ open' \in [Procs -> SUBSET Nat]
      /\ services' \in [Procs -> SUBSET [name : STRING, lib : Nat]]
  BY <1>3 DEF StartIInv, StartTyped, Stages
<1>5. /\ stage'[p] = "start" /\ next'[p] = 1 /\ services'[p] = {}
      /\ \A q \in Procs \ {p} : /\ stage'[q] = stage[q] /\ next'[q] = next[q] /\ pc'[q] = pc[q]
                                /\ open'[q] = open[q] /\ services'[q] = services[q]
      /\ pc'[p] = "closed"
  BY <1>2, <1>3 DEF StartIInv, StartTyped, IInv, Typed
<1>6. Staged'
  BY <1>5 DEF StartIInv, Staged
<1>7. Loaded'
  <2>. SUFFICES ASSUME ~nomem, NEW q \in Procs
                PROVE  /\ \A i \in 1..Len(Libs) : i < next'[q] /\ Libs[i].init =>
                            \A n \in Range(Libs[i].names) : [name |-> n, lib |-> i] \in services'[q]
                       /\ \A s \in services'[q] :
                            s.lib \in 1..Len(Libs) /\ (Libs[s.lib].setup => s.lib \in open'[q])
    BY <1>3 DEF Loaded
  <2>1. CASE q = p
    BY <1>5, <2>1
  <2>2. CASE q # p
    BY <1>5, <2>2 DEF StartIInv, Loaded
  <2>. QED  BY <2>1, <2>2
<1>. QED  BY <1>1, <1>2, <1>3, <1>4, <1>5, <1>6, <1>7

LEMMA ExitsKeeps ==
    ASSUME StartIInv, NEW p \in Procs, exits(p)
    PROVE  StartIInv'
<1>1. Ends(p) /\ UNCHANGED pools
  BY DEF exits
<1>2. UNCHANGED <<registered, uva, kva, half, owner>>
  BY <1>1 DEF pools
<1>3. StartTyped'
  BY <1>1, <1>2, Ended DEF StartIInv, StartTyped
<1>4. Flags'
  BY <1>1, <1>2, Ended, Zenon DEF StartIInv, Flags
<1>5. OwnPool'
  <2>1. /\ \A q \in Procs : stage'[q] \in {"registered", "serving"} => stage[q] \in {"registered", "serving"}
        /\ ~overtaken' => ~overtaken
    BY <1>1, Ended
  <2>. QED  BY <1>2, <2>1 DEF StartIInv, OwnPool
<1>. QED  BY <1>1, <1>3, <1>4, <1>5, Ended, GivenKept, PoolsAlone DEF StartIInv

(* The helper that failed was the only one that had the device open.       *)
LEMMA BufsFailKeeps ==
    ASSUME StartIInv, NEW p \in Procs, set_gpu_bufs_fails(p)
    PROVE  StartIInv'
<1>1. Ends(p) /\ gpu_alloc_pinned_mem(p) /\ UNCHANGED half
  BY DEF set_gpu_bufs_fails, Registers
<1>2. StartTyped'
  BY <1>1, Ended, Owned DEF StartIInv, StartTyped
<1>3. Flags'
  BY <1>1, Ended, Zenon DEF StartIInv, Flags
<1>4. OwnPool'
  <2>. SUFFICES ASSUME ~overtaken', NEW q \in Procs, stage'[q] \in {"registered", "serving"}
                PROVE  FALSE
    BY DEF OwnPool
  <2>1. q # p /\ stage[q] # "start" /\ pc[p] = "open" /\ ~overtaken
    BY <1>1, Ended
  <2>2. pc[q] = "open"
    BY <2>1 DEF StartIInv, Staged
  <2>. QED  BY <2>1, <2>2, AtMostOne DEF StartIInv, OneOpener
<1>5. \A i \in 1..registered : i \in 1..registered' /\ owner'[i] = owner[i]
  BY <1>1, Owned DEF StartIInv
<1>. QED  BY <1>1, <1>2, <1>3, <1>4, <1>5, Ended, GivenKept DEF StartIInv

LEMMA OpensAlone ==
    ASSUME StartIInv, UNCHANGED vars
    PROVE  IInv' /\ UNCHANGED pc /\ (~overtaken' <=> ~overtaken)
<1>1. UNCHANGED <<pc, overtaken>>
  BY DEF vars
<1>. QED  BY <1>1, OpenKept, Zenon DEF StartIInv

(* A registration replaces both of the pool's addresses, or says half; the *)
(* process that makes it is the only one that has the device open.         *)
LEMMA BufsKeep ==
    ASSUME StartIInv, NEW p \in Procs, set_gpu_bufs(p) \/ set_gpu_bufs_half(p)
    PROVE  StartIInv'
<1>1. /\ gpu_alloc_pinned_mem(p) /\ pc[p] = "open" /\ stage[p] = "opened"
      /\ stage' = [stage EXCEPT ![p] = "registered"]
      /\ half' \/ (half' = FALSE /\ uva' = registered' /\ kva' = registered')
      /\ half' \in BOOLEAN
      /\ UNCHANGED vars /\ UNCHANGED libraries /\ UNCHANGED client
  BY Zenon DEF set_gpu_bufs, set_gpu_bufs_half, Registers
<1>2. UNCHANGED <<next, open, services, nomem>>
  BY <1>1 DEF libraries
<1>3. StartTyped'
  BY <1>1, <1>2, Owned DEF StartIInv, StartTyped, Stages
<1>4. Flags'
  BY <1>1, <1>2, Zenon DEF StartIInv, Flags
<1>5. Staged'
  BY <1>1, <1>2, OpensAlone DEF StartIInv, StartTyped, Staged
<1>6. OwnPool'
  <2>. SUFFICES ASSUME ~half', ~overtaken', NEW q \in Procs, stage'[q] \in {"registered", "serving"}
                PROVE  uva' = kva' /\ uva' \in 1..registered' /\ owner'[uva'] = q
    BY DEF OwnPool
  <2>1. q = p
    <3>1. pc[q] = "open"
      BY <1>1 DEF StartIInv, StartTyped, Staged
    <3>. QED  BY <1>1, <3>1, AtMostOne, OpensAlone DEF StartIInv, OneOpener
  <2>2. registered' \in 1..registered' /\ owner'[registered'] = p
    BY <1>1, Owned DEF StartIInv, StartTyped
  <2>. QED  BY <1>1, <2>1, <2>2
<1>7. Loaded'
  BY <1>2 DEF StartIInv, Loaded
<1>8. \A i \in 1..registered : i \in 1..registered' /\ owner'[i] = owner[i]
  BY <1>1, Owned DEF StartIInv
<1>. QED  BY <1>1, <1>2, <1>3, <1>4, <1>5, <1>6, <1>7, <1>8, OpensAlone, GivenKept DEF StartIInv

(* The services of a library join those of the libraries before it.        *)
LEMMA LoadKeeps ==
    ASSUME StartIInv, NEW p \in Procs, load_service(p)
    PROVE  StartIInv'
<1>. DEFINE n == next[p]
            lib == Libs[n]
<1>1. PICK S \in SUBSET (IF lib.init THEN Range(lib.names) ELSE {}) :
        /\ services' = [services EXCEPT ![p] = @ \cup [name : S, lib : {n}]]
        /\ open' = IF lib.setup /\ (lib.init /\ S = Range(lib.names))
                   THEN [open EXCEPT ![p] = @ \cup {n}] ELSE open
        /\ nomem' = (nomem \/ (lib.init /\ ~(lib.init /\ S = Range(lib.names))))
  BY DEF load_service
<1>2. /\ stage[p] = "registered" /\ n <= Len(Libs) /\ next' = [next EXCEPT ![p] = n + 1]
      /\ UNCHANGED vars /\ UNCHANGED stage /\ UNCHANGED pools /\ UNCHANGED client
  BY DEF load_service
<1>3. n \in 1..Len(Libs) /\ n \in Nat /\ n + 1 \in Nat \ {0}
  BY <1>2, StartAssumption DEF StartIInv, StartTyped
<1>. HIDE DEF n
<1>4. lib.names \in Seq(STRING)
  BY <1>3, LibraryTyped
<1>5. S \subseteq STRING
  BY <1>4 DEF Range
<1>. HIDE DEF lib
<1>6. StartTyped'
  <2>1. services[p] \cup [name : S, lib : {n}] \in SUBSET [name : STRING, lib : Nat]
    BY <1>3, <1>5 DEF StartIInv, StartTyped
  <2>2. services' \in [Procs -> SUBSET [name : STRING, lib : Nat]]
    BY <1>1, <2>1 DEF StartIInv, StartTyped
  <2>3. open' \in [Procs -> SUBSET Nat]
    BY <1>1, <1>3 DEF StartIInv, StartTyped
  <2>4. next' \in [Procs -> Nat \ {0}]
    BY <1>2, <1>3 DEF StartIInv, StartTyped
  <2>. QED  BY <1>2, <2>2, <2>3, <2>4 DEF StartIInv, StartTyped, pools
<1>7. Flags'
  <2>1. UNCHANGED half
    BY <1>2 DEF pools
  <2>. QED  BY <1>1, <2>1, Zenon DEF StartIInv, Flags
<1>8. Staged'
  BY <1>2, OpensAlone DEF StartIInv, StartTyped, Staged
<1>9. OwnPool'
  BY <1>2, OpensAlone DEF StartIInv, OwnPool, pools
<1>10. ASSUME ~nomem'
       PROVE  ~nomem /\ (lib.init => S = Range(lib.names)) /\ (~lib.init => S = {})
  BY <1>1, <1>10
<1>11. \A q \in Procs \ {p} : services'[q] = services[q] /\ open'[q] = open[q] /\ next'[q] = next[q]
  BY <1>1, <1>2 DEF StartIInv, StartTyped
<1>12. /\ services'[p] = services[p] \cup [name : S, lib : {n}] /\ next'[p] = n + 1
       /\ open[p] \subseteq open'[p]
  BY <1>1, <1>2 DEF StartIInv, StartTyped
<1>13. ASSUME ~nomem', S # {}
       PROVE  lib.setup => n \in open'[p]
  BY <1>1, <1>10, <1>13 DEF StartIInv, StartTyped
<1>14. Loaded'
  <2>. SUFFICES ASSUME ~nomem', NEW q \in Procs
                PROVE  /\ \A i \in 1..Len(Libs) : i < next'[q] /\ Libs[i].init =>
                            \A m \in Range(Libs[i].names) : [name |-> m, lib |-> i] \in services'[q]
                       /\ \A s \in services'[q] :
                            s.lib \in 1..Len(Libs) /\ (Libs[s.lib].setup => s.lib \in open'[q])
    BY DEF Loaded
  <2>1. CASE q # p
    BY <1>10, <1>11, <2>1 DEF StartIInv, Loaded
  <2>2. CASE q = p
    <3>1. ASSUME NEW i \in 1..Len(Libs), i < next'[q], Libs[i].init, NEW m \in Range(Libs[i].names)
          PROVE  [name |-> m, lib |-> i] \in services'[q]
      <4>1. CASE i < n
        BY <1>10, <1>12, <2>2, <3>1, <4>1 DEF StartIInv, Loaded, n
      <4>2. CASE i = n
        <5>1. m \in S
          BY <1>10, <3>1, <4>2 DEF lib
        <5>. QED  BY <1>12, <2>2, <4>2, <5>1
      <4>. QED  BY <1>3, <1>12, <2>2, <3>1, <4>1, <4>2
    <3>2. ASSUME NEW s \in services'[q]
          PROVE  s.lib \in 1..Len(Libs) /\ (Libs[s.lib].setup => s.lib \in open'[q])
      <4>1. CASE s \in services[p]
        BY <1>10, <1>12, <2>2, <4>1 DEF StartIInv, Loaded
      <4>2. CASE s \in [name : S, lib : {n}]
        BY <1>3, <1>13, <2>2, <4>2 DEF lib
      <4>. QED  BY <1>12, <2>2, <3>2, <4>1, <4>2
    <3>. QED  BY <3>1, <3>2
  <2>. QED  BY <2>1, <2>2
<1>15. BufferKept' /\ GivenOwn' /\ ServiceFound'
  <2>1. UNCHANGED <<buffer, request, given, registered, owner>>
    BY <1>2 DEF client, pools
  <2>2. BufferKept' /\ GivenOwn'
    BY <2>1 DEF StartIInv, BufferKept, GivenOwn, Given
  <2>3. ServiceFound'
    BY <1>10, <2>1 DEF StartIInv, ServiceFound
  <2>. QED  BY <2>2, <2>3
<1>. QED  BY <1>2, <1>6, <1>7, <1>8, <1>9, <1>14, <1>15, OpensAlone DEF StartIInv

LEMMA MainLoopKeeps ==
    ASSUME StartIInv, NEW p \in Procs, main_loop(p)
    PROVE  StartIInv'
<1>1. /\ stage[p] = "registered" /\ next[p] = Len(Libs) + 1
      /\ stage' = [stage EXCEPT ![p] = "serving"]
      /\ UNCHANGED vars /\ UNCHANGED libraries /\ UNCHANGED pools /\ UNCHANGED client
  BY DEF main_loop, load_all_services
<1>2. UNCHANGED <<next, open, services, nomem, registered, uva, kva, half, owner>>
  BY <1>1 DEF libraries, pools
<1>3. StartTyped'
  BY <1>1, <1>2 DEF StartIInv, StartTyped, Stages
<1>4. Flags'
  BY <1>2, Zenon DEF StartIInv, Flags
<1>5. Staged' /\ OwnPool'
  BY <1>1, <1>2, OpensAlone DEF StartIInv, StartTyped, Staged, OwnPool
<1>6. Loaded'
  BY <1>2 DEF StartIInv, Loaded
<1>. QED  BY <1>1, <1>2, <1>3, <1>4, <1>5, <1>6, OpensAlone, GivenKept, PoolsAlone DEF StartIInv

(* What a helper reads is rebased to its own registration, and the service *)
(* is that of a library that is open.                                      *)
LEMMA ReadKeeps ==
    ASSUME StartIInv, NEW p \in Procs, kocl_read(p)
    PROVE  StartIInv'
<1>. DEFINE base == IF buffer = kva THEN uva ELSE None
            lib == lookup_service(p, request)
<1>1. /\ stage[p] = "serving" /\ request \in Names /\ request' = "read"
      /\ given' = [by |-> p, at |-> base, found |-> lib, live |-> lib \in open[p],
                   sound |-> ~half /\ ~overtaken]
      /\ UNCHANGED vars /\ UNCHANGED stage /\ UNCHANGED libraries /\ UNCHANGED pools /\ UNCHANGED buffer
  BY DEF kocl_read, Read
<1>2. UNCHANGED <<next, open, services, nomem, registered, uva, kva, half, owner>>
  BY <1>1 DEF libraries, pools
<1>3. StartTyped'
  BY <1>1, <1>2 DEF StartIInv, StartTyped
<1>4. Flags'
  BY <1>2, Zenon DEF StartIInv, Flags
<1>5. Staged' /\ OwnPool' /\ Loaded'
  BY <1>1, <1>2, OpensAlone DEF StartIInv, Staged, OwnPool, Loaded
<1>6. BufferKept'
  BY <1>1 DEF StartIInv, BufferKept
<1>7. GivenOwn'
  <2>1. ~half /\ ~overtaken => uva = kva /\ uva \in 1..registered /\ owner[uva] = p
    BY <1>1 DEF StartIInv, OwnPool
  <2>2. given'.by = p /\ given'.at = base /\ given'.sound = (~half /\ ~overtaken)
    BY <1>1
  <2>. QED  BY <1>1, <1>2, <2>1, <2>2 DEF GivenOwn
<1>8. ServiceFound'
  <2>. SUFFICES ASSUME ~nomem
                PROVE  lib # None /\ (Libs[lib].setup => lib \in open[p])
    BY <1>1, <1>2 DEF ServiceFound
  <2>1. PICK i \in 1..Len(Libs) : Libs[i].init /\ request \in Range(Libs[i].names)
    BY <1>1, Offered
  <2>2. [name |-> request, lib |-> i] \in services[p]
    <3>1. i < next[p]
      BY <1>1, <2>1, StartAssumption DEF StartIInv, Staged
    <3>. QED  BY <2>1, <3>1 DEF StartIInv, Loaded
  <2>3. PICK s \in services[p] : s.name = request /\ lib = s.lib
    BY <2>2, LookupFinds DEF StartIInv
  <2>. QED  BY <2>3, StartAssumption DEF StartIInv, Loaded
<1>. QED  BY <1>1, <1>3, <1>4, <1>5, <1>6, <1>7, <1>8, OpensAlone DEF StartIInv

(* The client's steps, and the module's end: nobody is past the start.     *)
LEMMA ClientKeeps ==
    ASSUME StartIInv, kocl_malloc \/ kocl_offload \/ kocl_free
    PROVE  StartIInv'
<1>1. UNCHANGED vars /\ UNCHANGED stage /\ UNCHANGED libraries /\ UNCHANGED pools
  BY Zenon DEF kocl_malloc, kocl_offload, kocl_free
<1>2. UNCHANGED <<stage, next, open, services, nomem, registered, uva, kva, half, owner>>
  BY <1>1 DEF libraries, pools
<1>3. StartTyped'
  BY <1>2 DEF StartIInv, StartTyped
<1>4. Flags'
  BY <1>2, Zenon DEF StartIInv, Flags
<1>5. Staged' /\ OwnPool' /\ Loaded'
  BY <1>1, <1>2, OpensAlone DEF StartIInv, Staged, OwnPool, Loaded
<1>6. BufferKept' /\ GivenOwn' /\ ServiceFound'
  <2>1. CASE kocl_malloc
    BY <1>2, <2>1, StartAssumption
       DEF kocl_malloc, StartIInv, BufferKept, GivenOwn, ServiceFound, Given
  <2>2. CASE kocl_offload \/ kocl_free
    BY <1>2, <2>2, StartAssumption
       DEF kocl_offload, kocl_free, StartIInv, BufferKept, GivenOwn, ServiceFound, Given
  <2>. QED  BY <2>1, <2>2
<1>. QED  BY <1>1, <1>3, <1>4, <1>5, <1>6, OpensAlone DEF StartIInv

LEMMA ModExitKeeps ==
    ASSUME StartIInv, mod_exit
    PROVE  StartIInv'
<1>1. /\ At("open") = {} /\ half' = FALSE
      /\ UNCHANGED vars /\ UNCHANGED libraries /\ UNCHANGED client
      /\ UNCHANGED <<stage, registered, owner>>
  BY DEF mod_exit
<1>2. UNCHANGED <<next, open, services, nomem>>
  BY <1>1 DEF libraries
<1>3. StartTyped'
  BY <1>1, <1>2 DEF StartIInv, StartTyped
<1>4. Flags'
  BY <1>1, <1>2, Zenon DEF StartIInv, Flags
<1>5. Staged' /\ Loaded'
  BY <1>1, <1>2, OpensAlone DEF StartIInv, Staged, Loaded
<1>6. OwnPool'
  <2>1. \A q \in Procs : stage[q] = "start"
    BY <1>1 DEF StartIInv, Staged, At
  <2>. QED  BY <1>1, <2>1 DEF OwnPool
<1>. QED  BY <1>1, <1>2, <1>3, <1>4, <1>5, <1>6, OpensAlone, GivenKept DEF StartIInv

LEMMA StartStepKeeps == StartIInv /\ [StartNext]_allVars => StartIInv'
<1>. SUFFICES ASSUME StartIInv, [StartNext]_allVars PROVE StartIInv'
  OBVIOUS
<1>1. CASE StartNext
  BY <1>1, HelperOpenKeeps, RefusedKeeps, ExitsKeeps, BufsKeep, BufsFailKeeps, LoadKeeps,
     MainLoopKeeps, ReadKeeps, ClientKeeps, ModExitKeeps, Zenon DEF StartNext
<1>2. CASE UNCHANGED allVars
  <2>1. UNCHANGED vars /\ UNCHANGED startVars
    BY <1>2 DEF allVars
  <2>2. UNCHANGED <<stage, next, open, services, nomem, registered, uva, kva, half, owner,
                    buffer, request, given>>
    BY <2>1 DEF startVars
  <2>3. StartTyped'
    BY <2>2 DEF StartIInv, StartTyped
  <2>4. Flags'
    BY <2>2, Zenon DEF StartIInv, Flags
  <2>5. Staged' /\ OwnPool' /\ Loaded'
    BY <2>1, <2>2, OpensAlone DEF StartIInv, Staged, OwnPool, Loaded
  <2>6. BufferKept' /\ GivenOwn' /\ ServiceFound'
    BY <2>2 DEF StartIInv, BufferKept, GivenOwn, ServiceFound, Given
  <2>. QED  BY <2>1, <2>3, <2>4, <2>5, <2>6, OpensAlone DEF StartIInv
<1>. QED  BY <1>1, <1>2

(* The composition keeps what KoclOpen promises: starting helpers, their   *)
(* deaths, registrations and the module's end are steps of KoclOpen or     *)
(* leave its variables alone.                                              *)
THEOREM StartImplementsOpen == StartSpec => Spec
<1>1. StartInit => Init
  BY DEF StartInit
<1>2. [StartNext]_allVars => [Next]_vars
  BY StepOpens DEF allVars
<1>. QED  BY <1>1, <1>2, PTL DEF StartSpec, Spec

(* A helper that is past its registration is the owner of the pool, and    *)
(* one that serves has every library loaded.                               *)
THEOREM StartIInvAlways == StartSpec => []StartIInv
<1>. QED  BY StartInitHolds, StartStepKeeps, PTL DEF StartSpec

(* fill_ku_request never gives a helper an address in the memory of one    *)
(* that died before it, for any number of helpers and registrations.       *)
THEOREM AlwaysRebasedToOwn == StartSpec => []RebasedToOwn
<1>1. StartIInv => RebasedToOwn
  BY DEF StartIInv, GivenOwn, Given, RebasedToOwn
<1>. QED  BY <1>1, StartIInvAlways, PTL

(* A request for a service that a library offers finds it, and its library *)
(* open, whichever helper reads it, for any libraries.                     *)
THEOREM ServiceAlwaysFound == StartSpec => []ServiceFound
<1>1. StartIInv => ServiceFound
  BY DEF StartIInv
<1>. QED  BY <1>1, StartIInvAlways, PTL
=============================================================================
