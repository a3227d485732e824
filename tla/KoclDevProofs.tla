---------------------------- MODULE KoclDevProofs ----------------------------
(* For any number of callers, requests and call data, signals and deaths   *)
(* of the helper: requests are in one place, callbacks are safe, and the   *)
(* driver keeps what KoclOffload promises its callers.                     *)
EXTENDS KoclDev, FiniteSetTheorems, SequenceTheorems, TLAPS

Positions(r, s) == {i \in DOMAIN s : s[i] = r}

Same(x, r) == IF x = r THEN 1 ELSE 0

(* Occurrences counts, and a list is changed by one element at a time.     *)
LEMMA Counted ==
    ASSUME NEW s \in Seq(Requests), NEW r
    PROVE  /\ IsFiniteSet(Positions(r, s)) /\ Occurrences(r, s) = Cardinality(Positions(r, s))
           /\ Occurrences(r, s) \in Nat
           /\ Occurrences(r, s) = 0 <=> \A i \in 1..Len(s) : s[i] # r
<1>1. DOMAIN s = 1..Len(s) /\ Len(s) \in Nat
  BY LenProperties
<1>2. IsFiniteSet(Positions(r, s))
  <2>1. Positions(r, s) \in SUBSET (1..Len(s))
    BY <1>1 DEF Positions
  <2>2. IsFiniteSet(1..Len(s))
    BY <1>1, FS_Interval
  <2>. QED  BY <2>1, <2>2, FS_Subset
<1>3. Occurrences(r, s) = Cardinality(Positions(r, s))
  BY DEF Occurrences, Positions
<1>4. Positions(r, s) = {} <=> \A i \in 1..Len(s) : s[i] # r
  BY <1>1 DEF Positions
<1>. QED  BY <1>2, <1>3, <1>4, FS_CardinalityType, FS_EmptySet

LEMMA CountedNone ==
    ASSUME NEW s \in Seq(Requests), NEW r, {i \in DOMAIN s : s[i] = r} = {}
    PROVE  Occurrences(r, s) = 0
<1>. QED  BY FS_EmptySet DEF Occurrences

LEMMA CountedEmpty == \A r : Occurrences(r, << >>) = 0
<1>. TAKE r
<1>1. << >> \in Seq(Requests) /\ Len(<< >>) = 0
  BY EmptySeq
<1>2. Occurrences(r, << >>) = 0 <=> \A i \in 1..Len(<< >>) : << >>[i] # r
  BY <1>1, Counted
<1>. QED  BY <1>1, <1>2

LEMMA CountedAppend ==
    ASSUME NEW s \in Seq(Requests), NEW x \in Requests, NEW r
    PROVE  Occurrences(r, Append(s, x)) = Occurrences(r, s) + Same(x, r)
<1>1. /\ Append(s, x) \in Seq(Requests) /\ Len(Append(s, x)) = Len(s) + 1
      /\ \A i \in 1..Len(s) : Append(s, x)[i] = s[i]
      /\ Append(s, x)[Len(s) + 1] = x
  BY AppendProperties
<1>2. DOMAIN s = 1..Len(s) /\ DOMAIN Append(s, x) = 1..Len(s) + 1 /\ Len(s) \in Nat
  BY <1>1, LenProperties
<1>3. Positions(r, Append(s, x)) = Positions(r, s) \cup (IF x = r THEN {Len(s) + 1} ELSE {})
  BY <1>1, <1>2 DEF Positions
<1>4. Len(s) + 1 \notin Positions(r, s)
  BY <1>2 DEF Positions
<1>5. Cardinality(Positions(r, s) \cup {Len(s) + 1}) = Cardinality(Positions(r, s)) + 1
  BY <1>4, Counted, FS_AddElement
<1>6. /\ Occurrences(r, Append(s, x)) = Cardinality(Positions(r, Append(s, x)))
      /\ Occurrences(r, s) = Cardinality(Positions(r, s)) /\ Occurrences(r, s) \in Nat
  BY <1>1, Counted
<1>7. CASE x = r
  BY <1>3, <1>5, <1>6, <1>7 DEF Same
<1>8. CASE x # r
  BY <1>3, <1>6, <1>8 DEF Same
<1>. QED  BY <1>7, <1>8

(* t is s without its element at place k.                                  *)
Without(t, s, k) ==
    /\ t \in Seq(Requests) /\ Len(t) = Len(s) - 1
    /\ \A i \in 1..Len(t) : t[i] = IF i < k THEN s[i] ELSE s[i + 1]

(* Such a list counts one less of that element.                            *)
LEMMA CountedRemove ==
    ASSUME NEW s \in Seq(Requests), NEW k \in 1..Len(s), NEW t, NEW r, Without(t, s, k)
    PROVE  Occurrences(r, t) = Occurrences(r, s) - Same(s[k], r)
<1>. t \in Seq(Requests) /\ Len(t) = Len(s) - 1 /\ \A i \in 1..Len(t) : t[i] = IF i < k THEN s[i] ELSE s[i + 1]
  BY DEF Without
<1>. DEFINE f == [i \in Positions(r, t) |-> IF i < k THEN i ELSE i + 1]
<1>1. DOMAIN s = 1..Len(s) /\ DOMAIN t = 1..Len(t) /\ Len(s) \in Nat /\ Len(t) \in Nat
  BY LenProperties
<1>2. f \in Bijection(Positions(r, t), Positions(r, s) \ {k})
  <2>1. f \in [Positions(r, t) -> Positions(r, s) \ {k}]
    BY <1>1 DEF Positions
  <2>2. f \in Injection(Positions(r, t), Positions(r, s) \ {k})
    BY <1>1, <2>1 DEF Positions, Injection, IsInjective
  <2>3. ASSUME NEW j \in Positions(r, s) \ {k}
        PROVE  \E i \in Positions(r, t) : f[i] = j
    <3>1. CASE j < k
      <4>1. j \in Positions(r, t) /\ f[j] = j
        BY <1>1, <3>1 DEF Positions
      <4>. QED  BY <4>1
    <3>2. CASE j > k
      <4>1. j - 1 \in Positions(r, t) /\ f[j - 1] = j
        BY <1>1, <3>2 DEF Positions
      <4>. QED  BY <4>1
    <3>3. j \in Nat /\ k \in Nat /\ j # k
      BY <1>1 DEF Positions
    <3>. QED  BY <3>1, <3>2, <3>3
  <2>4. f \in Surjection(Positions(r, t), Positions(r, s) \ {k})
    BY <2>1, <2>3 DEF Surjection
  <2>. QED  BY <2>2, <2>4 DEF Bijection
<1>3. Cardinality(Positions(r, s) \ {k}) = Cardinality(Positions(r, t))
  BY <1>2, Counted, FS_Bijection DEF ExistsBijection
<1>4. k \in Positions(r, s) <=> s[k] = r
  BY <1>1 DEF Positions
<1>5. /\ Occurrences(r, t) = Cardinality(Positions(r, t))
      /\ Occurrences(r, s) = Cardinality(Positions(r, s)) /\ Occurrences(r, s) \in Nat
      /\ IsFiniteSet(Positions(r, s))
  BY Counted
<1>6. Cardinality(Positions(r, s) \ {k})
        = IF k \in Positions(r, s) THEN Cardinality(Positions(r, s)) - 1 ELSE Cardinality(Positions(r, s))
  BY <1>5, FS_RemoveElement
<1>. QED  BY <1>3, <1>4, <1>5, <1>6 DEF Same

LEMMA CountedTail ==
    ASSUME NEW s \in Seq(Requests), s # << >>
    PROVE  /\ Tail(s) \in Seq(Requests) /\ Head(s) \in Requests
           /\ \A r : Occurrences(r, Tail(s)) = Occurrences(r, s) - Same(Head(s), r)
<1>1. /\ Head(s) \in Requests /\ Tail(s) \in Seq(Requests) /\ Len(Tail(s)) = Len(s) - 1
      /\ \A i \in 1..Len(Tail(s)) : Tail(s)[i] = s[i + 1]
  BY HeadTailProperties
<1>2. Len(s) \in Nat \ {0} /\ Head(s) = s[1]
  BY EmptySeq
<1>3. 1 \in 1..Len(s) /\ \A i \in 1..Len(Tail(s)) : Tail(s)[i] = IF i < 1 THEN s[i] ELSE s[i + 1]
  BY <1>1, <1>2
<1>4. ASSUME NEW r
      PROVE  Occurrences(r, Tail(s)) = Occurrences(r, s) - Same(s[1], r)
  <2>1. Without(Tail(s), s, 1)
    BY <1>1, <1>3 DEF Without
  <2>2. 1 \in 1..Len(s)
    BY <1>3
  <2>. QED  BY <2>1, <2>2, CountedRemove, Zenon
<1>. QED  BY <1>1, <1>2, <1>4

LEMMA CountedFind ==
    ASSUME NEW id \in Requests, rtdreqs \in Seq(Requests), find_request(id)
    PROVE  /\ rtdreqs' \in Seq(Requests)
           /\ \A r : Occurrences(r, rtdreqs') = Occurrences(r, rtdreqs) - Same(id, r)
<1>. DEFINE s == rtdreqs
<1>1. PICK k \in Matches(id) : rtdreqs' = SubSeq(s, 1, k - 1) \o SubSeq(s, k + 1, Len(s))
  BY DEF find_request
<1>2. k \in 1..Len(s) /\ s[k] = id /\ Len(s) \in Nat /\ s \in [1..Len(s) -> Requests]
  BY <1>1, LenProperties DEF Matches
<1>3. /\ SubSeq(s, 1, k - 1) \in Seq(Requests) /\ Len(SubSeq(s, 1, k - 1)) = k - 1
      /\ \A i \in 1..k - 1 : SubSeq(s, 1, k - 1)[i] = s[i]
  BY <1>2, SubSeqProperties
<1>4. /\ SubSeq(s, k + 1, Len(s)) \in Seq(Requests) /\ Len(SubSeq(s, k + 1, Len(s))) = Len(s) - k
      /\ \A i \in 1..Len(s) - k : SubSeq(s, k + 1, Len(s))[i] = s[k + i]
  <2>. DEFINE m == k + 1
              u == SubSeq(s, m, Len(s))
  <2>1. m \in Int /\ Len(s) \in Int /\ \A i \in m..Len(s) : s[i] \in Requests
    BY <1>2
  <2>2. u \in Seq(Requests)
    BY <2>1, SubSeqProperties
  <2>3. Len(u) = IF m <= Len(s) THEN Len(s) - m + 1 ELSE 0
    BY <2>1, SubSeqProperties
  <2>4. \A i \in 1..Len(s) - m + 1 : u[i] = s[m + i - 1]
    BY <2>1, SubSeqProperties
  <2>. HIDE DEF u
  <2>5. Len(u) = Len(s) - k
    <3>1. k \in Nat /\ k <= Len(s) /\ Len(s) \in Nat
      BY <1>2
    <3>2. CASE k < Len(s)
      BY <2>3, <3>1, <3>2
    <3>3. CASE k = Len(s)
      BY <2>3, <3>1, <3>3
    <3>. QED  BY <3>1, <3>2, <3>3
  <2>6. \A i \in 1..Len(s) - k : u[i] = s[k + i]
    BY <1>2, <2>4
  <2>. QED  BY <2>2, <2>5, <2>6 DEF u
<1>5. /\ rtdreqs' \in Seq(Requests) /\ Len(rtdreqs') = Len(s) - 1
      /\ \A i \in 1..Len(rtdreqs') : rtdreqs'[i] = IF i < k THEN s[i] ELSE s[i + 1]
  <2>. DEFINE u == SubSeq(s, 1, k - 1)
              v == SubSeq(s, k + 1, Len(s))
  <2>1. /\ u \o v \in Seq(Requests) /\ Len(u \o v) = Len(u) + Len(v)
        /\ \A i \in 1..Len(u) + Len(v) : (u \o v)[i] = IF i <= Len(u) THEN u[i] ELSE v[i - Len(u)]
    BY <1>3, <1>4, ConcatProperties, Zenon
  <2>. HIDE DEF u, v
  <2>2. rtdreqs' = u \o v
    BY <1>1 DEF u, v
  <2>3. /\ Len(u) = k - 1 /\ \A i \in 1..k - 1 : u[i] = s[i]
        /\ Len(v) = Len(s) - k /\ \A i \in 1..Len(s) - k : v[i] = s[k + i]
    BY <1>3, <1>4 DEF u, v
  <2>4. Len(rtdreqs') = Len(s) - 1 /\ rtdreqs' \in Seq(Requests)
    <3>1. Len(u) + Len(v) = Len(s) - 1
      BY <1>2, <2>3
    <3>. QED  BY <2>1, <2>2, <3>1
  <2>5. ASSUME NEW i \in 1..Len(rtdreqs')
        PROVE  rtdreqs'[i] = IF i < k THEN s[i] ELSE s[i + 1]
    <3>1. i \in 1..Len(u) + Len(v) /\ k \in Nat
      BY <1>2, <2>3, <2>4
    <3>2. rtdreqs'[i] = IF i <= Len(u) THEN u[i] ELSE v[i - Len(u)]
      BY <2>1, <2>2, <3>1
    <3>3. CASE i < k
      BY <1>2, <2>3, <3>1, <3>2, <3>3
    <3>4. CASE i >= k
      <4>1. i - (k - 1) \in 1..Len(s) - k /\ k + (i - (k - 1)) = i + 1 /\ ~(i <= Len(u)) /\ ~(i < k)
        BY <1>2, <2>3, <2>4, <3>1, <3>4
      <4>2. v[i - (k - 1)] = s[k + (i - (k - 1))]
        BY <2>3, <4>1
      <4>. QED  BY <2>3, <3>2, <4>1, <4>2
    <3>. QED  BY <3>1, <3>3, <3>4
  <2>. QED  BY <2>4, <2>5
<1>6. ASSUME NEW r
      PROVE  Occurrences(r, rtdreqs') = Occurrences(r, s) - Same(s[k], r)
  <2>1. Without(rtdreqs', s, k)
    BY <1>5 DEF Without
  <2>2. k \in 1..Len(s) /\ s \in Seq(Requests)
    BY <1>2
  <2>. QED  BY <2>1, <2>2, CountedRemove, Zenon
<1>. QED  BY <1>2, <1>5, <1>6

-----------------------------------------------------------------------------
(* The inductive invariant.                                                *)
Callback == {"NULL", "sync_callback", "async_callback"}
KData == Data \cup Callers \cup {Null}
Places == {"idle", "filled", "sync", "async", "wait", "completion", "returned"}
InCall == {"read", "found", "release", "wake"}

Typed ==
  /\ reqs \in Seq(Requests) /\ rtdreqs \in Seq(Requests)
  /\ callback \in [Requests -> Callback]
  /\ kdata \in [Requests -> KData]
  /\ freeReqs \subseteq Requests /\ freeData \subseteq Data
  /\ old \in [Data -> [callback : Callback, kdata : KData]]
  /\ pc \in [Callers -> Places]
  /\ req \in [Callers -> Requests \cup {Null}]
  /\ data \in [Callers -> Data \cup {Null}]
  /\ \A c \in Callers : /\ pc[c] # "idle" => req[c] \in Requests
                        /\ pc[c] \in {"sync", "wait"} => data[c] \in Data
  /\ hpc \in {"user"} \cup InCall
  /\ hreq \in Requests \cup {Null} /\ (hpc \in InCall => hreq \in Requests)
  /\ todo \in [Requests -> Nat]
  /\ signals \in 0..MaxSignals

Flags == done \in [Data -> BOOLEAN] /\ completed \in [Callers -> BOOLEAN]

(* What the helper still has to answer is in rtdreqs.                      *)
Awaited == \A r \in Requests : todo[r] <= Occurrences(r, rtdreqs)

(* c's request is c's, and nobody else's.                                  *)
Has(c) == \/ pc[c] \in {"filled", "sync", "async", "wait", "returned"}
          \/ pc[c] = "completion" /\ ~completed[c]

Held ==
  /\ \A c \in Callers : Has(c) => req[c] \in Requests \ freeReqs
  /\ \A c, d \in Callers : Has(c) /\ Has(d) /\ req[c] = req[d] => c = d
  /\ hpc = "release" => hreq \notin freeReqs /\ \A c \in Callers : Has(c) => req[c] # hreq
  /\ \A c \in Callers : completed[c] => pc[c] = "completion"

(* A synchronous caller has call data of its own, which its request names. *)
InSync(c) == pc[c] \in {"sync", "wait"}

SyncOwn ==
  /\ \A c \in Callers : InSync(c) =>
        /\ data[c] \in Data \ freeData
        /\ kdata[req[c]] = data[c] /\ callback[req[c]] = "sync_callback"
  /\ \A c, d \in Callers : InSync(c) /\ InSync(d) /\ data[c] = data[d] => c = d
  /\ \A c \in Callers : pc[c] = "sync" => ~done[data[c]]

InAsync(c) == pc[c] = "async" \/ (pc[c] = "completion" /\ ~completed[c])

AsyncOwn ==
  \A c \in Callers : InAsync(c) => kdata[req[c]] = c /\ callback[req[c]] = "async_callback"

(* A request is in one place if its caller is owed an answer, else in none. *)
Placed ==
  \A r \in Requests :
    \/ Pointers(r) = 1 /\ \E c \in Callers : Owed(c) /\ req[c] = r
    \/ Pointers(r) = 0 /\ \A c \in Callers : Owed(c) => req[c] # r

Own == signals = 0 => Held /\ SyncOwn /\ AsyncOwn /\ Placed /\ oops # "callback"

IInv == Typed /\ Flags /\ Awaited /\ Own

LEMMA InitHolds == Init => IInv
<1>. SUFFICES ASSUME Init PROVE IInv
  OBVIOUS
<1>1. Typed
  BY EmptySeq, BoundsAssumption DEF Init, Typed, Callback, KData, Places, InCall
<1>2. Flags
  BY Zenon DEF Init, Flags
<1>3. Awaited
  BY CountedEmpty DEF Init, Awaited
<1>4. Own
  <2>1. \A r \in Requests : Pointers(r) = 0
    BY CountedEmpty DEF Init, Pointers
  <2>2. \A c \in Callers : ~Owed(c) /\ ~Has(c) /\ ~InSync(c) /\ ~InAsync(c) /\ ~completed[c] /\ pc[c] # "sync"
    BY DEF Init, Owed, Has, InSync, InAsync
  <2>3. oops = "no" /\ hpc # "release"
    BY DEF Init
  <2>. QED  BY <2>1, <2>2, <2>3 DEF Own, Held, SyncOwn, AsyncOwn, Placed
<1>. QED  BY <1>1, <1>2, <1>3, <1>4 DEF IInv

-----------------------------------------------------------------------------
(* Types.                                                                  *)
LEMMA TypedReturn ==
    ASSUME Typed, NEW c \in Callers, pc[c] = "wait", sync_return(c), signals' \in 0..MaxSignals
    PROVE  Typed'
<1>. USE DEF Typed, devVars, helperVars
<1>1. req[c] \in Requests /\ data[c] \in Data
  OBVIOUS
<1>2. old[data[c]].callback \in Callback /\ old[data[c]].kdata \in KData
  BY <1>1
<1>3. callback' \in [Requests -> Callback] /\ kdata' \in [Requests -> KData]
  BY <1>1, <1>2 DEF sync_return
<1>4. freeData' \subseteq Data /\ data' \in [Callers -> Data \cup {Null}] /\ pc' \in [Callers -> Places]
  BY <1>1 DEF sync_return, Places
<1>5. pc'[c] = "returned" /\ \A d \in Callers \ {c} : pc'[d] = pc[d] /\ data'[d] = data[d]
  BY DEF sync_return
<1>6. \A d \in Callers : /\ pc'[d] # "idle" => req'[d] \in Requests
                         /\ pc'[d] \in {"sync", "wait"} => data'[d] \in Data
  BY <1>1, <1>5 DEF sync_return
<1>. QED  BY <1>3, <1>4, <1>6 DEF sync_return

LEMMA TypedCaller ==
    ASSUME Typed, NEW c \in Callers, CallerStep(c)
    PROVE  Typed'
<1>. USE BoundsAssumption DEF Typed, devVars, slabVars, callerVars, helperVars, boundVars
<1>1. CASE \E r \in Requests : kocl_alloc_request(c, r)
  BY <1>1 DEF kocl_alloc_request, Places
<1>2. CASE kocl_free_request(c)
  BY <1>2 DEF kocl_free_request, Places
<1>3. CASE kocl_offload_refused(c)
  BY <1>3 DEF kocl_offload_refused, Places
<1>4. CASE \E d \in Data : sync_prepare(c, d)
  <2>1. PICK d \in Data : sync_prepare(c, d)
    BY <1>4
  <2>2. pc[c] = "filled" /\ req[c] \in Requests
    BY <2>1 DEF sync_prepare
  <2>3. [callback |-> callback[req[c]], kdata |-> kdata[req[c]]] \in [callback : Callback, kdata : KData]
    BY <2>2
  <2>4. old' \in [Data -> [callback : Callback, kdata : KData]]
    BY <2>1, <2>3 DEF sync_prepare
  <2>. QED  BY <2>1, <2>2, <2>4 DEF sync_prepare, Places, Callback, KData
<1>5. CASE async_prepare(c)
  BY <1>5 DEF async_prepare, Places, Callback, KData
<1>6. CASE enqueue(c)
  BY <1>6, AppendProperties DEF enqueue, Places
<1>7. CASE sync_woken(c)
  <2>1. sync_return(c) /\ pc[c] = "wait" /\ signals' \in 0..MaxSignals
    BY <1>7 DEF sync_woken
  <2>. QED  BY <2>1, TypedReturn
<1>8. CASE async_completed(c)
  BY <1>8 DEF async_completed, Places
<1>9. CASE sync_interrupted(c)
  <2>1. sync_return(c) /\ pc[c] = "wait" /\ signals' \in 0..MaxSignals
    BY <1>9 DEF sync_interrupted
  <2>. QED  BY <2>1, TypedReturn
<1>. QED  BY <1>1, <1>2, <1>3, <1>4, <1>5, <1>6, <1>7, <1>8, <1>9 DEF CallerStep, CallerWakes

(* The helper finds what it answers.                                       *)
LEMMA Answerable ==
    ASSUME Typed, Awaited, NEW r \in Requests, kocl_write(r)
    PROVE  find_request(r) /\ hpc' = "found" /\ hreq' = r
<1>1. Occurrences(r, rtdreqs) > 0
  BY Counted DEF Typed, Awaited, kocl_write
<1>2. ASSUME Matches(r) = {} PROVE FALSE
  <2>1. {i \in DOMAIN rtdreqs : rtdreqs[i] = r} = {} /\ rtdreqs \in Seq(Requests)
    BY <1>2 DEF Matches, Typed
  <2>2. Occurrences(r, rtdreqs) = 0
    BY <2>1, CountedNone, Zenon
  <2>. QED  BY <1>1, <2>2
<1>. QED  BY <1>2 DEF kocl_write

LEMMA TypedHelper ==
    ASSUME Typed, Awaited, Read \/ (\E r \in Requests : kocl_write(r)) \/ InSyscall \/ terminate_all_requests \/ helper_restart
    PROVE  Typed'
<1>. USE DEF Typed, InCall, devVars, slabVars, callerVars, helperVars, boundVars
<1>1. CASE Read
  BY <1>1, CountedTail DEF Read, kocl_read, kocl_poll
<1>2. ASSUME NEW r \in Requests, kocl_write(r) PROVE Typed'
  <2>1. find_request(r) /\ hpc' = "found" /\ hreq' = r
    BY <1>2, Answerable
  <2>2. rtdreqs' \in Seq(Requests)
    BY <2>1, CountedFind
  <2>. QED  BY <1>2, <2>1, <2>2 DEF kocl_write
<1>3. CASE kocl_read_end
  BY <1>3, AppendProperties DEF kocl_read_end
<1>4. CASE \E d \in Data : sync_callback(d)
  BY <1>4 DEF sync_callback
<1>5. CASE sync_callback_end
  BY <1>5 DEF sync_callback_end
<1>6. CASE \E c \in Callers : async_callback(c)
  BY <1>6 DEF async_callback
<1>7. CASE async_callback_end
  BY <1>7 DEF async_callback_end
<1>8. CASE null_callback
  BY <1>8 DEF null_callback
<1>9. CASE terminate_all_requests
  BY <1>9 DEF terminate_all_requests
<1>10. CASE helper_restart
  BY <1>10 DEF helper_restart
<1>. QED  BY <1>1, <1>2, <1>3, <1>4, <1>5, <1>6, <1>7, <1>8, <1>9, <1>10 DEF InSyscall

LEMMA FlagsStep ==
    ASSUME Flags, Next
    PROVE  Flags'
<1>. USE DEF Flags, devVars, slabVars, callerVars, helperVars, boundVars
<1>1. ASSUME NEW c \in Callers, CallerStep(c) PROVE Flags'
  <2>1. ASSUME NEW d \in Data, sync_prepare(c, d) PROVE Flags'
    BY <2>1, Zenon DEF sync_prepare
  <2>2. CASE async_completed(c)
    BY <2>2, Zenon DEF async_completed
  <2>3. CASE UNCHANGED <<done, completed>>
    BY <2>3, Zenon
  <2>4. \/ \E d \in Data : sync_prepare(c, d)
        \/ async_completed(c)
        \/ UNCHANGED <<done, completed>>
    BY <1>1 DEF CallerStep, CallerWakes, kocl_alloc_request, kocl_free_request, kocl_offload_refused,
       async_prepare, enqueue, sync_woken, sync_interrupted, sync_return
  <2>. QED  BY <2>1, <2>2, <2>3, <2>4
<1>2. ASSUME NEW d \in Data, sync_callback(d) PROVE Flags'
  <2>1. UNCHANGED completed
    BY <1>2, Zenon DEF sync_callback
  <2>2. done' = [done EXCEPT ![d] = TRUE]
    BY <1>2, Zenon DEF sync_callback
  <2>. QED  BY <2>1, <2>2, Zenon
<1>3. ASSUME NEW c \in Callers, async_callback(c) PROVE Flags'
  BY <1>3, Zenon DEF async_callback
<1>4. CASE UNCHANGED <<done, completed>>
  BY <1>4, Zenon
<1>5. \/ \E c \in Callers : CallerStep(c) \/ async_callback(c)
      \/ \E d \in Data : sync_callback(d)
      \/ UNCHANGED <<done, completed>>
  BY DEF Next, Read, InSyscall, kocl_read, kocl_write, kocl_read_end, sync_callback_end, async_callback_end,
     null_callback, terminate_all_requests, helper_restart
<1>. QED  BY <1>1, <1>2, <1>3, <1>4, <1>5

LEMMA AwaitedStep ==
    ASSUME Typed, Awaited, Next
    PROVE  Awaited'
<1>. USE DEF Awaited
<1>1. CASE kocl_read_end
  <2>1. hreq \in Requests /\ rtdreqs' = Append(rtdreqs, hreq) /\ todo' = [todo EXCEPT ![hreq] = @ + 1]
    BY <1>1 DEF kocl_read_end, Typed, InCall
  <2>2. \A r \in Requests : Occurrences(r, rtdreqs') = Occurrences(r, rtdreqs) + Same(hreq, r)
    BY <2>1, CountedAppend DEF Typed
  <2>. QED  BY <2>1, <2>2, Counted DEF Same, Typed
<1>2. ASSUME NEW id \in Requests, kocl_write(id) PROVE Awaited'
  <2>1. find_request(id)
    BY <1>2, Answerable
  <2>2. \A r \in Requests : Occurrences(r, rtdreqs') = Occurrences(r, rtdreqs) - Same(id, r)
    BY <2>1, CountedFind DEF Typed
  <2>3. todo' = [todo EXCEPT ![id] = @ - 1]
    BY <1>2 DEF kocl_write
  <2>. QED  BY <2>2, <2>3, Counted DEF Same, Typed
<1>3. CASE helper_restart
  BY <1>3, Counted DEF helper_restart, Typed, devVars
<1>4. CASE UNCHANGED <<rtdreqs, todo>>
  BY <1>4
<1>5. \/ kocl_read_end \/ helper_restart
      \/ \E r \in Requests : kocl_write(r)
      \/ UNCHANGED <<rtdreqs, todo>>
  <2>1. ASSUME NEW c \in Callers, CallerStep(c) PROVE UNCHANGED <<rtdreqs, todo>>
    BY <2>1 DEF CallerStep, CallerWakes, kocl_alloc_request, kocl_free_request, kocl_offload_refused,
       sync_prepare, async_prepare, enqueue, sync_woken, sync_interrupted, sync_return, async_completed,
       devVars, helperVars
  <2>. QED  BY <2>1 DEF Next, Read, InSyscall, kocl_read, sync_callback, sync_callback_end, async_callback,
     async_callback_end, null_callback, terminate_all_requests, devVars, helperVars
<1>. QED  BY <1>1, <1>2, <1>3, <1>4, <1>5

-----------------------------------------------------------------------------
(* Where a request is.                                                     *)
Hand(r) == IF hpc \in {"read", "found"} /\ hreq = r THEN 1 ELSE 0

LEMMA PointersCount ==
    ASSUME Typed, NEW r \in Requests
    PROVE  /\ Pointers(r) = Occurrences(r, reqs) + Occurrences(r, rtdreqs) + Hand(r)
           /\ Occurrences(r, reqs) \in Nat /\ Occurrences(r, rtdreqs) \in Nat /\ Hand(r) \in Nat
<1>. QED  BY Counted DEF Typed, Pointers, Hand

LEMMA PointersStay ==
    ASSUME Typed, Typed', UNCHANGED <<reqs, rtdreqs>>, NEW r \in Requests, Hand(r)' = Hand(r)
    PROVE  Pointers(r)' = Pointers(r)
<1>. QED  BY DEF Pointers, Hand

(* A request the helper reads or answers goes from one place to the next.  *)
LEMMA PointersMove ==
    ASSUME Typed, Awaited, Typed', NEW r \in Requests,
           Read \/ kocl_read_end \/ (\E id \in Requests : kocl_write(id))
    PROVE  Pointers(r)' = Pointers(r)
<1>1. /\ Pointers(r) = Occurrences(r, reqs) + Occurrences(r, rtdreqs) + Hand(r)
      /\ Occurrences(r, reqs) \in Nat /\ Occurrences(r, rtdreqs) \in Nat /\ Hand(r) \in Nat
  BY PointersCount
<1>2. Pointers(r)' = Occurrences(r, reqs') + Occurrences(r, rtdreqs') + Hand(r)'
  BY DEF Pointers, Hand
<1>3. CASE Read
  <2>1. PICK x \in Requests : kocl_read(x)
    BY <1>3 DEF Read
  <2>2. Occurrences(r, reqs') = Occurrences(r, reqs) - Same(x, r) /\ rtdreqs' = rtdreqs
    BY <2>1, CountedTail DEF kocl_read, kocl_poll, Typed
  <2>3. Hand(r) = 0 /\ Hand(r)' = Same(x, r)
    BY <2>1 DEF kocl_read, Hand, Same
  <2>. QED  BY <1>1, <1>2, <2>2, <2>3 DEF Same
<1>4. CASE kocl_read_end
  <2>1. Occurrences(r, rtdreqs') = Occurrences(r, rtdreqs) + Same(hreq, r) /\ reqs' = reqs
    BY <1>4, CountedAppend DEF kocl_read_end, Typed, InCall
  <2>2. Hand(r) = Same(hreq, r) /\ Hand(r)' = 0
    BY <1>4 DEF kocl_read_end, Hand, Same
  <2>. QED  BY <1>1, <1>2, <2>1, <2>2 DEF Same
<1>5. ASSUME NEW id \in Requests, kocl_write(id) PROVE Pointers(r)' = Pointers(r)
  <2>1. find_request(id) /\ hpc' = "found" /\ hreq' = id
    BY <1>5, Answerable
  <2>2. Occurrences(r, rtdreqs') = Occurrences(r, rtdreqs) - Same(id, r) /\ reqs' = reqs
    BY <1>5, <2>1, CountedFind DEF kocl_write, Typed
  <2>3. Hand(r) = 0 /\ Hand(r)' = Same(id, r)
    BY <1>5, <2>1 DEF kocl_write, Hand, Same
  <2>. QED  BY <1>1, <1>2, <2>2, <2>3 DEF Same
<1>. QED  BY <1>3, <1>4, <1>5

(* A callback takes it out of the driver's hands ...                       *)
LEMMA PointersEnd ==
    ASSUME Typed, Typed', NEW r \in Requests, UNCHANGED <<reqs, rtdreqs>>,
           hpc = "found", hpc' \notin {"read", "found"}
    PROVE  Pointers(r)' = Pointers(r) - Same(hreq, r)
<1>1. Hand(r) = Same(hreq, r) /\ Hand(r)' = 0
  BY DEF Hand, Same
<1>2. Pointers(r)' = Occurrences(r, reqs') + Occurrences(r, rtdreqs') + Hand(r)'
  BY DEF Pointers, Hand
<1>. QED  BY <1>1, <1>2, PointersCount DEF Same

(* ... and a caller that queues it puts it there.                          *)
LEMMA PointersEnqueue ==
    ASSUME Typed, Typed', NEW c \in Callers, enqueue(c), NEW r \in Requests
    PROVE  Pointers(r)' = Pointers(r) + Same(req[c], r)
<1>1. reqs' = Append(reqs, req[c]) /\ rtdreqs' = rtdreqs /\ Hand(r)' = Hand(r) /\ req[c] \in Requests
  BY DEF enqueue, Typed, helperVars, Hand
<1>2. Occurrences(r, reqs') = Occurrences(r, reqs) + Same(req[c], r)
  BY <1>1, CountedAppend DEF Typed
<1>3. Pointers(r)' = Occurrences(r, reqs') + Occurrences(r, rtdreqs') + Hand(r)'
  BY DEF Pointers, Hand
<1>. QED  BY <1>1, <1>2, <1>3, PointersCount DEF Same

-----------------------------------------------------------------------------
(* Who has a request.  Other callers and what is theirs rest while c steps. *)
Rests(d) ==
  /\ pc'[d] = pc[d] /\ req'[d] = req[d] /\ data'[d] = data[d]
  /\ Has(d)' <=> Has(d)
  /\ InSync(d)' <=> InSync(d)
  /\ InAsync(d)' <=> InAsync(d)
  /\ Owed(d)' <=> Owed(d)

LEMMA OthersRest ==
    ASSUME Typed, Flags, SyncOwn, NEW c \in Callers, CallerStep(c), NEW d \in Callers, d # c
    PROVE  Rests(d)
<1>1. pc'[d] = pc[d] /\ req'[d] = req[d] /\ data'[d] = data[d]
  BY DEF Typed, CallerStep, CallerWakes, kocl_alloc_request, kocl_free_request, kocl_offload_refused,
     sync_prepare, async_prepare, enqueue, sync_woken, sync_interrupted, sync_return, async_completed
<1>2. completed'[d] = completed[d]
  <2>1. completed' = completed \/ completed' = [completed EXCEPT ![c] = FALSE]
    BY DEF CallerStep, CallerWakes, kocl_alloc_request, kocl_free_request, kocl_offload_refused,
       sync_prepare, async_prepare, enqueue, sync_woken, sync_interrupted, sync_return, async_completed, callerVars
  <2>. QED  BY <2>1, Zenon DEF Flags
<1>3. pc[d] = "wait" => done'[data[d]] = done[data[d]]
  <2>1. CASE done' = done
    BY <2>1
  <2>2. ASSUME NEW e \in Data, sync_prepare(c, e), pc[d] = "wait" PROVE done'[data[d]] = done[data[d]]
    <3>1. data[d] # e /\ data[d] \in Data
      BY <2>2 DEF SyncOwn, InSync, sync_prepare
    <3>2. done' = [done EXCEPT ![e] = FALSE]
      BY <2>2, Zenon DEF sync_prepare
    <3>. QED  BY <3>1, <3>2, Zenon DEF Flags
  <2>3. done' = done \/ \E e \in Data : sync_prepare(c, e)
    BY DEF CallerStep, CallerWakes, kocl_alloc_request, kocl_free_request, kocl_offload_refused,
       async_prepare, enqueue, sync_woken, sync_interrupted, sync_return, async_completed, slabVars
  <2>. QED  BY <2>1, <2>2, <2>3
<1>4. Has(d)' <=> Has(d)
  BY <1>1, <1>2, Zenon DEF Has
<1>5. InSync(d)' <=> InSync(d)
  BY <1>1, Zenon DEF InSync
<1>6. InAsync(d)' <=> InAsync(d)
  BY <1>1, <1>2, Zenon DEF InAsync
<1>7. Owed(d)' <=> Owed(d)
  BY <1>1, <1>2, <1>3, Zenon DEF Owed
<1>. QED  BY <1>1, <1>4, <1>5, <1>6, <1>7 DEF Rests

(* A caller's step that is no wake-up begins before its call is queued.    *)
LEMMA CompletedKept ==
    ASSUME Typed, Flags, Held, NEW c \in Callers, CallerStep(c)
    PROVE  \A d \in Callers : completed'[d] => pc'[d] = "completion"
<1>1. CASE async_completed(c)
  <2>1. completed' = [completed EXCEPT ![c] = FALSE] /\ \A d \in Callers \ {c} : pc'[d] = pc[d]
    BY <1>1 DEF async_completed, Typed
  <2>. QED  BY <2>1, Zenon DEF Held, Flags
<1>2. CASE ~async_completed(c)
  <2>1. completed' = completed
    BY <1>2 DEF CallerStep, CallerWakes, kocl_alloc_request, kocl_free_request, kocl_offload_refused,
       sync_prepare, async_prepare, enqueue, sync_woken, sync_interrupted, sync_return, callerVars
  <2>2. pc[c] # "completion" /\ \A d \in Callers \ {c} : pc'[d] = pc[d]
    BY <1>2 DEF CallerStep, CallerWakes, kocl_alloc_request, kocl_free_request, kocl_offload_refused,
       sync_prepare, async_prepare, enqueue, sync_woken, sync_interrupted, sync_return, Typed
  <2>. QED  BY <2>1, <2>2, Zenon DEF Held
<1>. QED  BY <1>1, <1>2

LEMMA HeldCaller ==
    ASSUME Typed, Flags, Held, SyncOwn, NEW c \in Callers, CallerStep(c)
    PROVE  Held'
<1>1. \A d \in Callers \ {c} : Rests(d)
  BY OthersRest
<1>2. hpc' = hpc /\ hreq' = hreq
  BY DEF CallerStep, CallerWakes, kocl_alloc_request, kocl_free_request, kocl_offload_refused,
     sync_prepare, async_prepare, enqueue, sync_woken, sync_interrupted, sync_return, async_completed, helperVars
<1>3. ASSUME NEW r \in Requests, kocl_alloc_request(c, r) PROVE Held'
  <2>1. r \in freeReqs /\ freeReqs' = freeReqs \ {r} /\ req'[c] = r
    BY <1>3 DEF kocl_alloc_request, Typed
  <2>2. \A d \in Callers \ {c} : Has(d)' => Has(d) /\ req'[d] = req[d] /\ req[d] # r
    BY <1>1, <2>1 DEF Held, Rests
  <2>. QED  BY <1>2, <2>1, <2>2, CompletedKept DEF Held
<1>4. CASE kocl_free_request(c)
  <2>1. Has(c) /\ ~Has(c)' /\ freeReqs' = freeReqs \cup {req[c]}
    BY <1>4 DEF kocl_free_request, Typed, Has
  <2>2. \A d \in Callers : Has(d)' => Has(d) /\ req'[d] = req[d] /\ req[d] # req[c]
    BY <1>1, <2>1 DEF Held, Rests
  <2>3. hpc = "release" => hreq \notin freeReqs'
    BY <2>1 DEF Held
  <2>. QED  BY <1>2, <2>1, <2>2, <2>3, CompletedKept DEF Held
<1>5. CASE ~kocl_free_request(c) /\ ~\E r \in Requests : kocl_alloc_request(c, r)
  <2>1. freeReqs' = freeReqs
    BY <1>5 DEF CallerStep, CallerWakes, kocl_offload_refused, sync_prepare, async_prepare, enqueue,
       sync_woken, sync_interrupted, sync_return, async_completed, slabVars
  <2>2. Has(c)' => Has(c) /\ req'[c] = req[c]
    <3>1. CASE async_completed(c)
      BY <3>1 DEF async_completed, Has, Typed
    <3>2. CASE ~async_completed(c)
      BY <1>5, <3>2 DEF CallerStep, CallerWakes, kocl_offload_refused, sync_prepare, async_prepare, enqueue,
         sync_woken, sync_interrupted, sync_return, Has, Typed
    <3>. QED  BY <3>1, <3>2
  <2>3. \A d \in Callers : Has(d)' => Has(d) /\ req'[d] = req[d]
    BY <1>1, <2>2 DEF Rests
  <2>. QED  BY <1>2, <2>1, <2>3, CompletedKept DEF Held
<1>. QED  BY <1>3, <1>4, <1>5

(* From then on the caller is owed an answer, and nobody was for its       *)
(* request.                                                                *)
LEMMA QueuedOwed ==
    ASSUME Typed, Flags, Held, SyncOwn, NEW c \in Callers, enqueue(c)
    PROVE  /\ ~Owed(c) /\ Has(c) /\ req[c] \in Requests /\ Owed(c)' /\ req'[c] = req[c]
           /\ \A d \in Callers : Owed(d) => req[d] # req[c]
<1>1. ~Owed(c) /\ Has(c) /\ req[c] \in Requests
  BY DEF enqueue, Owed, Has, Typed
<1>2. \A d \in Callers : Owed(d) => Has(d)
  BY DEF Owed, Has
<1>3. \A d \in Callers : Owed(d) => req[d] # req[c]
  BY <1>1, <1>2 DEF Held
<1>4. CASE pc[c] = "sync"
  <2>1. pc'[c] = "wait" /\ data'[c] = data[c] /\ done' = done /\ req' = req
    BY <1>4 DEF enqueue, Typed, slabVars
  <2>2. ~done[data[c]]
    BY <1>4 DEF SyncOwn
  <2>3. Owed(c)'
    BY <2>1, <2>2, Zenon DEF Owed
  <2>. QED  BY <1>1, <1>3, <2>1, <2>3
<1>5. CASE pc[c] = "async"
  <2>1. pc'[c] = "completion" /\ completed' = completed /\ req' = req
    BY <1>5 DEF enqueue, Typed
  <2>2. ~completed[c]
    BY <1>5 DEF Held
  <2>3. Owed(c)'
    BY <2>1, <2>2, Zenon DEF Owed
  <2>. QED  BY <1>1, <1>3, <2>1, <2>3
<1>. QED  BY <1>4, <1>5 DEF enqueue

LEMMA PlacedCaller ==
    ASSUME Typed, Typed', Flags, Held, SyncOwn, Placed, NEW c \in Callers, CallerStep(c), signals' = 0
    PROVE  Placed'
<1>1. \A d \in Callers \ {c} : Rests(d)
  BY OthersRest
<1>2. CASE enqueue(c)
  <2>1. ~Owed(c) /\ Has(c) /\ req[c] \in Requests /\ Owed(c)' /\ req'[c] = req[c]
    BY <1>2, QueuedOwed
  <2>3. \A d \in Callers : Owed(d) => req[d] # req[c]
    BY <1>2, QueuedOwed
  <2>5. \A r \in Requests : Pointers(r)' = Pointers(r) + Same(req[c], r)
    BY <1>2, PointersEnqueue
  <2>6. \A r \in Requests : Pointers(r)' = IF r = req[c] THEN 1 ELSE Pointers(r)
    <3>1. Pointers(req[c]) = 0 /\ \A r \in Requests : Pointers(r) \in Nat
      BY <2>1, <2>3 DEF Placed
    <3>. QED  BY <2>5, <3>1 DEF Same
  <2>7. \A d \in Callers \ {c} : (Owed(d)' <=> Owed(d)) /\ req'[d] = req[d]
    BY <1>1 DEF Rests
  <2>. QED  BY <2>1, <2>3, <2>6, <2>7 DEF Placed
<1>3. CASE ~enqueue(c)
  <2>1. ~Owed(c) /\ ~Owed(c)'
    <3>1. CASE sync_woken(c)
      BY <3>1 DEF sync_woken, sync_return, Owed, Typed
    <3>2. CASE async_completed(c)
      BY <3>2 DEF async_completed, Owed, Typed
    <3>3. CASE ~sync_woken(c) /\ ~async_completed(c)
      BY <1>3, <3>3 DEF CallerStep, CallerWakes, kocl_alloc_request, kocl_free_request, kocl_offload_refused,
         sync_prepare, async_prepare, sync_interrupted, Owed, Typed
    <3>. QED  BY <3>1, <3>2, <3>3
  <2>2. reqs' = reqs /\ rtdreqs' = rtdreqs /\ hpc' = hpc /\ hreq' = hreq
    BY <1>3 DEF CallerStep, CallerWakes, kocl_alloc_request, kocl_free_request, kocl_offload_refused,
       sync_prepare, async_prepare, sync_woken, sync_interrupted, sync_return, async_completed, helperVars, devVars
  <2>3. \A r \in Requests : Pointers(r)' = Pointers(r)
    BY <2>2, PointersStay DEF Hand
  <2>4. \A d \in Callers : (Owed(d)' <=> Owed(d)) /\ (Owed(d) => req'[d] = req[d])
    BY <1>1, <2>1 DEF Rests
  <2>. QED  BY <2>3, <2>4 DEF Placed
<1>. QED  BY <1>2, <1>3

(* The call data and the request that another caller waits with are not    *)
(* the ones c gets, gives back or fills in.                                *)
LEMMA SyncCaller ==
    ASSUME Typed, Flags, Held, SyncOwn, NEW c \in Callers, CallerStep(c)
    PROVE  SyncOwn'
<1>1. \A d \in Callers \ {c} : Rests(d)
  BY OthersRest
<1>2. \A d \in Callers \ {c} : InSync(d) /\ Has(c) => req[d] # req[c]
  BY DEF Held, InSync, Has
<1>3. ASSUME NEW e \in Data, sync_prepare(c, e) PROVE SyncOwn'
  <2>1. /\ pc'[c] = "sync" /\ data'[c] = e /\ kdata'[req[c]] = e /\ callback'[req[c]] = "sync_callback"
        /\ req' = req /\ e \in freeData /\ freeData' = freeData \ {e} /\ req[c] \in Requests /\ Has(c)
    BY <1>3 DEF sync_prepare, Typed, Has
  <2>2. \A d \in Callers \ {c} : InSync(d) =>
          /\ data[d] \in Data \ freeData' /\ data[d] # e
          /\ kdata'[req[d]] = data[d] /\ callback'[req[d]] = "sync_callback"
    BY <1>2, <1>3, <2>1 DEF SyncOwn, sync_prepare, Typed
  <2>3. done' = [done EXCEPT ![e] = FALSE]
    BY <1>3, Zenon DEF sync_prepare
  <2>4. \A d \in Callers : pc'[d] = "sync" => ~done'[data'[d]]
    <3>1. \A d \in Callers \ {c} : pc'[d] = "sync" => data'[d] # e /\ data'[d] \in Data /\ ~done[data'[d]]
      BY <1>1, <2>2 DEF Rests, SyncOwn, InSync
    <3>. QED  BY <2>1, <2>3, <3>1, Zenon DEF Flags
  <2>5. \A d \in Callers \ {c} : (InSync(d)' <=> InSync(d)) /\ data'[d] = data[d] /\ req'[d] = req[d]
    BY <1>1 DEF Rests
  <2>6. \A d \in Callers : InSync(d)' =>
          data'[d] \in Data \ freeData' /\ kdata'[req'[d]] = data'[d] /\ callback'[req'[d]] = "sync_callback"
    BY <2>1, <2>2, <2>5
  <2>7. \A d, f \in Callers : InSync(d)' /\ InSync(f)' /\ data'[d] = data'[f] => d = f
    BY <2>1, <2>2, <2>5 DEF SyncOwn
  <2>. QED  BY <2>4, <2>6, <2>7 DEF SyncOwn
<1>4. CASE sync_woken(c) \/ sync_interrupted(c)
  <2>1. sync_return(c) /\ pc[c] = "wait" /\ Has(c) /\ InSync(c)
    BY <1>4 DEF sync_woken, sync_interrupted, Has, InSync
  <2>2. /\ ~InSync(c)' /\ pc'[c] # "sync" /\ freeData' = freeData \cup {data[c]} /\ done' = done
    BY <2>1 DEF sync_return, InSync, Typed
  <2>3. \A d \in Callers \ {c} : InSync(d) => kdata'[req[d]] = kdata[req[d]] /\ callback'[req[d]] = callback[req[d]]
    BY <1>2, <2>1 DEF sync_return, Typed, InSync
  <2>4. \A d \in Callers \ {c} : InSync(d) => data[d] # data[c]
    BY <2>1 DEF SyncOwn
  <2>5. \A d \in Callers : InSync(d)' => d # c /\ InSync(d) /\ data'[d] = data[d] /\ req'[d] = req[d]
    BY <1>1, <2>2 DEF Rests
  <2>6. \A d \in Callers : pc'[d] = "sync" => pc[d] = "sync" /\ data'[d] = data[d]
    BY <1>1, <2>2 DEF Rests
  <2>7. \A d \in Callers : pc'[d] = "sync" => ~done'[data'[d]]
    BY <2>2, <2>6 DEF SyncOwn
  <2>. QED  BY <2>2, <2>3, <2>4, <2>5, <2>7 DEF SyncOwn
<1>5. CASE ~sync_woken(c) /\ ~sync_interrupted(c) /\ ~\E e \in Data : sync_prepare(c, e)
  <2>1. /\ done' = done /\ freeData' \subseteq freeData
        /\ (pc'[c] = "sync" => FALSE) /\ (InSync(c)' => InSync(c)) /\ data' = data /\ (InSync(c)' => req' = req)
    BY <1>5 DEF CallerStep, CallerWakes, kocl_alloc_request, kocl_free_request, kocl_offload_refused,
       async_prepare, enqueue, async_completed, slabVars, InSync, Typed
  <2>2. \/ callback' = callback /\ kdata' = kdata
        \/ async_prepare(c)
    BY <1>5 DEF CallerStep, CallerWakes, kocl_alloc_request, kocl_free_request, kocl_offload_refused,
       enqueue, async_completed, slabVars
  <2>3. \A d \in Callers : InSync(d)' => InSync(d) /\ data'[d] = data[d] /\ req'[d] = req[d]
    BY <1>1, <2>1 DEF Rests
  <2>4. \A d \in Callers : InSync(d)' => kdata'[req[d]] = kdata[req[d]] /\ callback'[req[d]] = callback[req[d]]
    <3>1. CASE async_prepare(c)
      <4>1. Has(c) /\ ~InSync(c)
        BY <3>1 DEF async_prepare, Has, InSync
      <4>. QED  BY <1>2, <2>3, <3>1, <4>1 DEF async_prepare, Typed, InSync
    <3>. QED  BY <2>2, <3>1
  <2>5. \A d \in Callers : pc'[d] = "sync" => pc[d] = "sync"
    BY <1>1, <2>1 DEF Rests
  <2>6. \A d \in Callers : pc'[d] = "sync" => ~done'[data'[d]]
    BY <2>1, <2>5 DEF SyncOwn
  <2>7. \A d \in Callers : InSync(d)' => data'[d] \in Data \ freeData'
    BY <2>1, <2>3 DEF SyncOwn
  <2>. QED  BY <2>3, <2>4, <2>6, <2>7 DEF SyncOwn
<1>. QED  BY <1>3, <1>4, <1>5

LEMMA AsyncCaller ==
    ASSUME Typed, Flags, Held, SyncOwn, AsyncOwn, NEW c \in Callers, CallerStep(c)
    PROVE  AsyncOwn'
<1>1. \A d \in Callers \ {c} : Rests(d)
  BY OthersRest
<1>2. \A d \in Callers \ {c} : InAsync(d) /\ Has(c) => req[d] # req[c]
  BY DEF Held, InAsync, Has
<1>3. \A d \in Callers \ {c} : InAsync(d) => kdata'[req[d]] = d /\ callback'[req[d]] = "async_callback"
  <2>1. CASE callback' = callback /\ kdata' = kdata
    BY <2>1 DEF AsyncOwn
  <2>2. CASE Has(c) /\ \A r \in Requests \ {req[c]} : callback'[r] = callback[r] /\ kdata'[r] = kdata[r]
    BY <1>2, <2>2 DEF AsyncOwn, InAsync, Typed
  <2>3. \/ callback' = callback /\ kdata' = kdata
        \/ Has(c) /\ \A r \in Requests \ {req[c]} : callback'[r] = callback[r] /\ kdata'[r] = kdata[r]
    BY DEF CallerStep, CallerWakes, kocl_alloc_request, kocl_free_request, kocl_offload_refused, sync_prepare,
       async_prepare, enqueue, sync_woken, sync_interrupted, sync_return, async_completed, slabVars, Typed, Has
  <2>. QED  BY <2>1, <2>2, <2>3
<1>4. InAsync(c)' => kdata'[req'[c]] = c /\ callback'[req'[c]] = "async_callback"
  <2>1. CASE async_prepare(c)
    BY <2>1 DEF async_prepare, Typed
  <2>2. CASE enqueue(c)
    <3>1. kdata' = kdata /\ callback' = callback /\ req' = req /\ (pc[c] = "async" \/ pc'[c] = "wait")
      BY <2>2 DEF enqueue, slabVars, Typed
    <3>2. pc[c] = "async" => kdata[req[c]] = c /\ callback[req[c]] = "async_callback"
      BY DEF AsyncOwn, InAsync
    <3>3. pc'[c] = "wait" => ~InAsync(c)'
      BY DEF InAsync
    <3>. QED  BY <3>1, <3>2, <3>3
  <2>3. CASE ~async_prepare(c) /\ ~enqueue(c)
    <3>1. pc'[c] \notin {"async", "completion"}
      BY <2>3 DEF CallerStep, CallerWakes, kocl_alloc_request, kocl_free_request, kocl_offload_refused, sync_prepare,
         sync_woken, sync_interrupted, sync_return, async_completed, Typed
    <3>. QED  BY <3>1 DEF InAsync
  <2>. QED  BY <2>1, <2>2, <2>3
<1>5. \A d \in Callers \ {c} : (InAsync(d)' <=> InAsync(d)) /\ req'[d] = req[d]
  BY <1>1 DEF Rests
<1>. QED  BY <1>3, <1>4, <1>5 DEF AsyncOwn

LEMMA OwnCaller ==
    ASSUME Typed, Typed', Flags, Own, oops = "no", NEW c \in Callers, CallerStep(c)
    PROVE  Own'
<1>. SUFFICES ASSUME signals' = 0 PROVE Own'
  BY DEF Own
<1>1. signals = 0
  BY DEF Typed, CallerStep, CallerWakes, kocl_alloc_request, kocl_free_request, kocl_offload_refused, sync_prepare,
     async_prepare, enqueue, sync_woken, sync_interrupted, async_completed, boundVars
<1>2. oops' = "no"
  BY DEF CallerStep, CallerWakes, kocl_alloc_request, kocl_free_request, kocl_offload_refused, sync_prepare,
     async_prepare, enqueue, sync_woken, sync_interrupted, sync_return, async_completed, boundVars
<1>3. Held /\ SyncOwn /\ AsyncOwn /\ Placed
  BY <1>1 DEF Own
<1>. QED  BY <1>2, <1>3, HeldCaller, SyncCaller, AsyncCaller, PlacedCaller DEF Own

(* What the helper does between two callbacks changes nothing of a caller's. *)
LEMMA OwnRest ==
    ASSUME Typed, Own,
           UNCHANGED <<callerVars, callback, kdata, freeReqs, freeData, done, signals>>,
           oops' = oops \/ oops' # "callback",
           hpc' = "release" => hpc = "release" /\ hreq' = hreq,
           \A r \in Requests : Pointers(r)' = Pointers(r)
    PROVE  Own'
<1>1. \A c \in Callers : /\ Has(c)' <=> Has(c)
                         /\ InSync(c)' <=> InSync(c)
                         /\ InAsync(c)' <=> InAsync(c)
                         /\ Owed(c)' <=> Owed(c)
  BY Zenon DEF Has, InSync, InAsync, Owed, callerVars
<1>2. Held => Held'
  BY <1>1 DEF Held, callerVars
<1>3. SyncOwn => SyncOwn'
  BY <1>1 DEF SyncOwn, callerVars
<1>4. AsyncOwn => AsyncOwn'
  BY <1>1 DEF AsyncOwn, callerVars
<1>5. Placed => Placed'
  BY <1>1 DEF Placed, callerVars
<1>6. (oops # "callback" => oops' # "callback") /\ signals' = signals
  OBVIOUS
<1>. QED  BY <1>2, <1>3, <1>4, <1>5, <1>6 DEF Own

LEMMA OwnHelper ==
    ASSUME Typed, Typed', Awaited, Own, oops = "no",
           \/ Read \/ kocl_read_end \/ (\E r \in Requests : kocl_write(r))
           \/ sync_callback_end \/ terminate_all_requests \/ helper_restart
    PROVE  Own'
<1>1. /\ UNCHANGED <<callerVars, callback, kdata, freeReqs, freeData, done, signals>>
      /\ oops' = oops \/ oops' # "callback"
      /\ hpc' # "release"
  BY DEF Read, kocl_read, kocl_read_end, kocl_write, sync_callback_end, terminate_all_requests, helper_restart,
     slabVars, boundVars, helperVars
<1>2. \A r \in Requests : Pointers(r)' = Pointers(r)
  <2>1. CASE sync_callback_end \/ terminate_all_requests \/ helper_restart
    <3>1. reqs' = reqs /\ rtdreqs' = rtdreqs /\ \A r \in Requests : Hand(r)' = Hand(r)
      BY <2>1 DEF sync_callback_end, terminate_all_requests, helper_restart, devVars, helperVars, Hand
    <3>. QED  BY <3>1, PointersStay
  <2>. QED  BY <2>1, PointersMove
<1>. QED  BY <1>1, <1>2, OwnRest

(* A callback works for the caller that is owed the answer to the request. *)
LEMMA CallbackFor ==
    ASSUME Typed, Held, SyncOwn, AsyncOwn, Placed, hpc = "found"
    PROVE  \E c \in Callers :
             /\ Owed(c) /\ req[c] = hreq /\ \A d \in Callers \ {c} : Has(d) => req[d] # hreq
             /\ \/ pc[c] = "wait" /\ callback[hreq] = "sync_callback" /\ kdata[hreq] = data[c] /\ data[c] \in Data \ freeData
                \/ pc[c] = "completion" /\ ~completed[c] /\ callback[hreq] = "async_callback" /\ kdata[hreq] = c
<1>1. hreq \in Requests
  BY DEF Typed, InCall
<1>2. Pointers(hreq) # 0
  <2>1. Hand(hreq) = 1
    BY DEF Hand
  <2>. QED  BY <1>1, <2>1, PointersCount
<1>3. PICK c \in Callers : Owed(c) /\ req[c] = hreq
  BY <1>1, <1>2 DEF Placed
<1>4. Has(c) /\ \A d \in Callers \ {c} : Has(d) => req[d] # hreq
  BY <1>3 DEF Held, Has, Owed
<1>5. CASE pc[c] = "wait"
  BY <1>3, <1>4, <1>5 DEF SyncOwn, InSync
<1>6. CASE pc[c] = "completion" /\ ~completed[c]
  BY <1>3, <1>4, <1>6 DEF AsyncOwn, InAsync
<1>. QED  BY <1>3, <1>5, <1>6 DEF Owed

LEMMA OwnSyncCallback ==
    ASSUME Typed, Typed', Flags, Own, oops = "no", NEW d \in Data, sync_callback(d)
    PROVE  Own'
<1>. SUFFICES ASSUME signals' = 0 PROVE Own'
  BY DEF Own
<1>1. signals = 0 /\ Held /\ SyncOwn /\ AsyncOwn /\ Placed
  BY DEF Own, sync_callback
<1>2. hpc = "found" /\ callback[hreq] = "sync_callback" /\ d = kdata[hreq] /\ hreq \in Requests
  BY DEF sync_callback, Typed, InCall
<1>3. PICK c \in Callers :
        /\ Owed(c) /\ req[c] = hreq /\ \A e \in Callers \ {c} : Has(e) => req[e] # hreq
        /\ pc[c] = "wait" /\ data[c] = d /\ d \in Data \ freeData
  BY <1>1, <1>2, CallbackFor
<1>4. done' = [done EXCEPT ![d] = TRUE]
  BY Zenon DEF sync_callback
<1>5. oops' = "no"
  BY <1>3 DEF sync_callback
<1>6. UNCHANGED <<pc, req, data, completed, callback, kdata, freeReqs, freeData>> /\ hpc' = "wake"
  BY DEF sync_callback, callerVars
<1>7. \A e \in Callers : (Has(e)' <=> Has(e)) /\ (InSync(e)' <=> InSync(e)) /\ (InAsync(e)' <=> InAsync(e))
  BY <1>6, Zenon DEF Has, InSync, InAsync
<1>8. Held'
  BY <1>1, <1>6, <1>7 DEF Held
<1>9. AsyncOwn'
  BY <1>1, <1>6, <1>7 DEF AsyncOwn
<1>10. \A e \in Callers \ {c} : InSync(e) => data[e] # d /\ data[e] \in Data
  BY <1>1, <1>3 DEF SyncOwn, InSync
<1>11. \A e \in Callers \ {c} : InSync(e) => done'[data[e]] = done[data[e]]
  BY <1>4, <1>10, Zenon DEF Flags
<1>12. SyncOwn'
  <2>1. \A e \in Callers : pc[e] = "sync" => e # c /\ InSync(e)
    BY <1>3 DEF InSync
  <2>2. \A e \in Callers : pc'[e] = "sync" => ~done'[data'[e]]
    BY <1>1, <1>6, <1>11, <2>1 DEF SyncOwn
  <2>. QED  BY <1>1, <1>6, <1>7, <2>2 DEF SyncOwn
<1>13. ~Owed(c)'
  <2>1. done'[d]
    BY <1>4, Zenon DEF Flags
  <2>. QED  BY <1>3, <1>6, <2>1 DEF Owed
<1>14. \A e \in Callers \ {c} : Owed(e)' <=> Owed(e)
  <2>1. \A e \in Callers \ {c} : pc[e] = "wait" => done'[data[e]] = done[data[e]]
    BY <1>11 DEF InSync
  <2>. QED  BY <1>6, <2>1, Zenon DEF Owed
<1>15. Placed'
  <2>1. \A r \in Requests : Pointers(r)' = Pointers(r) - Same(hreq, r)
    BY <1>2, <1>6, PointersEnd DEF sync_callback, devVars
  <2>2. Pointers(hreq) = 1
    BY <1>1, <1>2, <1>3 DEF Placed
  <2>3. \A r \in Requests : Pointers(r)' = IF r = hreq THEN 0 ELSE Pointers(r)
    BY <1>1, <2>1, <2>2 DEF Same, Placed
  <2>4. \A e \in Callers : Owed(e) => Has(e)
    BY DEF Owed, Has
  <2>. QED  BY <1>1, <1>3, <1>6, <1>13, <1>14, <2>3, <2>4 DEF Placed
<1>. QED  BY <1>5, <1>8, <1>9, <1>12, <1>15 DEF Own

LEMMA OwnAsyncCallback ==
    ASSUME Typed, Typed', Flags, Own, oops = "no", NEW c \in Callers, async_callback(c)
    PROVE  Own'
<1>. SUFFICES ASSUME signals' = 0 PROVE Own'
  BY DEF Own
<1>1. signals = 0 /\ Held /\ SyncOwn /\ AsyncOwn /\ Placed
  BY DEF Own, async_callback
<1>2. hpc = "found" /\ callback[hreq] = "async_callback" /\ c = kdata[hreq] /\ hreq \in Requests
  BY DEF async_callback, Typed, InCall
<1>3. /\ Owed(c) /\ req[c] = hreq /\ \A e \in Callers \ {c} : Has(e) => req[e] # hreq
      /\ pc[c] = "completion" /\ ~completed[c]
  BY <1>1, <1>2, CallbackFor
<1>4. completed' = [completed EXCEPT ![c] = TRUE]
  BY Zenon DEF async_callback
<1>5. oops' = "no"
  BY <1>3 DEF async_callback
<1>6. UNCHANGED <<pc, req, data, done, callback, kdata, freeReqs, freeData>> /\ hpc' = "release" /\ hreq' = hreq
  BY DEF async_callback, slabVars
<1>7. completed'[c] /\ \A e \in Callers \ {c} : completed'[e] = completed[e]
  BY <1>4, Zenon DEF Flags
<1>8. \A e \in Callers \ {c} : /\ Has(e)' <=> Has(e)
                               /\ InAsync(e)' <=> InAsync(e)
                               /\ Owed(e)' <=> Owed(e)
  BY <1>6, <1>7, Zenon DEF Has, InAsync, Owed
<1>9. ~Has(c)' /\ ~InAsync(c)' /\ ~Owed(c)'
  BY <1>3, <1>6, <1>7 DEF Has, InAsync, Owed
<1>10. \A e \in Callers : InSync(e)' <=> InSync(e)
  BY <1>6, Zenon DEF InSync
<1>11. SyncOwn'
  BY <1>1, <1>6, <1>10 DEF SyncOwn
<1>12. AsyncOwn'
  BY <1>1, <1>6, <1>8, <1>9 DEF AsyncOwn
<1>13. Held'
  <2>1. hreq \notin freeReqs
    BY <1>1, <1>3 DEF Held, Has
  <2>2. \A e \in Callers : completed'[e] => pc'[e] = "completion"
    BY <1>1, <1>3, <1>6, <1>7 DEF Held
  <2>. QED  BY <1>1, <1>3, <1>6, <1>8, <1>9, <2>1, <2>2 DEF Held
<1>14. Placed'
  <2>1. \A r \in Requests : Pointers(r)' = Pointers(r) - Same(hreq, r)
    BY <1>2, <1>6, PointersEnd DEF async_callback, devVars
  <2>2. Pointers(hreq) = 1
    BY <1>1, <1>2, <1>3 DEF Placed
  <2>3. \A r \in Requests : Pointers(r)' = IF r = hreq THEN 0 ELSE Pointers(r)
    BY <1>1, <2>1, <2>2 DEF Same, Placed
  <2>4. \A e \in Callers : Owed(e) => Has(e)
    BY DEF Owed, Has
  <2>. QED  BY <1>1, <1>3, <1>6, <1>8, <1>9, <2>3, <2>4 DEF Placed
<1>. QED  BY <1>5, <1>11, <1>12, <1>13, <1>14 DEF Own

LEMMA OwnRelease ==
    ASSUME Typed, Typed', Own, oops = "no", async_callback_end
    PROVE  Own'
<1>. SUFFICES ASSUME signals' = 0 PROVE Own'
  BY DEF Own
<1>1. signals = 0 /\ Held /\ SyncOwn /\ AsyncOwn /\ Placed
  BY DEF Own, async_callback_end, boundVars
<1>2. /\ UNCHANGED <<callerVars, callback, kdata, freeData, done, oops, reqs, rtdreqs>>
      /\ hpc = "release" /\ hpc' = "user" /\ freeReqs' = freeReqs \cup {hreq}
  BY DEF async_callback_end, boundVars, devVars
<1>3. \A c \in Callers : /\ Has(c)' <=> Has(c)
                         /\ InSync(c)' <=> InSync(c)
                         /\ InAsync(c)' <=> InAsync(c)
                         /\ Owed(c)' <=> Owed(c)
  BY <1>2, Zenon DEF Has, InSync, InAsync, Owed, callerVars
<1>4. Held'
  BY <1>1, <1>2, <1>3 DEF Held, callerVars
<1>5. SyncOwn' /\ AsyncOwn'
  BY <1>1, <1>2, <1>3 DEF SyncOwn, AsyncOwn, callerVars
<1>6. Placed'
  <2>1. \A r \in Requests : Pointers(r)' = Pointers(r)
    BY <1>2, PointersStay DEF Hand
  <2>. QED  BY <1>1, <1>2, <1>3, <2>1 DEF Placed, callerVars
<1>. QED  BY <1>2, <1>4, <1>5, <1>6 DEF Own

(* Without signals no request whose callback is not set is found.          *)
LEMMA OwnNull ==
    ASSUME Typed, Own, null_callback
    PROVE  Own'
<1>1. hpc = "found" /\ callback[hreq] = "NULL" /\ signals' = signals
  BY DEF null_callback
<1>2. signals # 0
  BY <1>1, CallbackFor DEF Own
<1>. QED  BY <1>1, <1>2 DEF Own

LEMMA StepKeeps == IInv /\ [Next]_vars => IInv'
<1>. SUFFICES ASSUME IInv, [Next]_vars PROVE IInv'
  OBVIOUS
<1>1. CASE UNCHANGED vars
  <2>1. UNCHANGED <<devVars, slabVars, callerVars, helperVars, boundVars>>
    BY <1>1 DEF vars
  <2>2. Typed'
    BY <2>1 DEF IInv, Typed, devVars, slabVars, callerVars, helperVars, boundVars
  <2>3. Flags'
    BY <2>1, Zenon DEF IInv, Flags, slabVars, callerVars
  <2>4. Awaited'
    BY <2>1 DEF IInv, Awaited, devVars, helperVars
  <2>5. Own'
    <3>1. UNCHANGED <<callerVars, callback, kdata, freeReqs, freeData, done, signals, oops>> /\ UNCHANGED <<reqs, rtdreqs, hpc, hreq>>
      BY <2>1 DEF devVars, slabVars, helperVars, boundVars
    <3>2. \A r \in Requests : Pointers(r)' = Pointers(r)
      BY <2>2, <3>1, PointersStay DEF IInv, Hand
    <3>. QED  BY <3>1, <3>2, OwnRest DEF IInv
  <2>. QED  BY <2>2, <2>3, <2>4, <2>5 DEF IInv
<1>2. CASE Next
  <2>1. oops = "no" /\ Typed /\ Flags /\ Awaited /\ Own
    BY <1>2 DEF IInv, Next
  <2>2. Typed'
    BY <1>2, <2>1, TypedCaller, TypedHelper DEF Next
  <2>3. Flags'
    BY <1>2, <2>1, FlagsStep
  <2>4. Awaited'
    BY <1>2, <2>1, AwaitedStep
  <2>5. Own'
    BY <1>2, <2>1, <2>2, OwnCaller, OwnHelper, OwnSyncCallback, OwnAsyncCallback, OwnRelease, OwnNull
       DEF Next, InSyscall
  <2>. QED  BY <2>2, <2>3, <2>4, <2>5 DEF IInv
<1>. QED  BY <1>1, <1>2

(* The invariant behind the other theorems: a request has one owner, its   *)
(* fields name what its owner waits with, and it is in one place while an  *)
(* answer is owed, until a signal ends a wait; what the helper is to       *)
(* answer is in rtdreqs always.                                            *)
THEOREM IInvAlways == Spec => []IInv
<1>. QED  BY InitHolds, StepKeeps, PTL DEF Spec

(* Without signals, a request whose call is owed an answer is in exactly   *)
(* one place, and one that is not is in none: kocl_read, kocl_write, their *)
(* two locks and the helper's restart lose and duplicate nothing.          *)
THEOREM RequestsInOnePlace == Spec => []OnePlace
<1>1. ASSUME IInv, signals = 0, NEW r \in Requests
      PROVE  /\ Pointers(r) <= 1
             /\ Pointers(r) = Cardinality({c \in Callers : req[c] = r /\ Owed(c)})
             /\ Pointers(r) = 1 => r \notin freeReqs
  <2>1. Held /\ Placed
    BY <1>1 DEF IInv, Own
  <2>2. CASE Pointers(r) = 0 /\ \A c \in Callers : Owed(c) => req[c] # r
    <3>1. {c \in Callers : req[c] = r /\ Owed(c)} = {}
      BY <2>2
    <3>. QED  BY <2>2, <3>1, FS_EmptySet
  <2>3. ASSUME NEW c \in Callers, Pointers(r) = 1, Owed(c), req[c] = r
        PROVE  /\ Cardinality({d \in Callers : req[d] = r /\ Owed(d)}) = 1
               /\ r \notin freeReqs
    <3>1. \A d \in Callers : Owed(d) => Has(d)
      BY DEF Owed, Has
    <3>2. {d \in Callers : req[d] = r /\ Owed(d)} = {c}
      BY <2>1, <2>3, <3>1 DEF Held
    <3>. QED  BY <2>1, <2>3, <3>1, <3>2, FS_Singleton DEF Held
  <2>. QED  BY <2>1, <2>2, <2>3 DEF Placed
<1>2. IInv => OnePlace
  BY <1>1 DEF OnePlace
<1>. QED  BY <1>2, IInvAlways, PTL

(* Without signals kocl_write never runs a callback that is not set, and   *)
(* none sets a flag or a completion whose caller is no longer waiting for  *)
(* the answer to this request.  The wake-up after the flag is not covered: *)
(* its call data may be gone (oops = "wake").                              *)
THEOREM CallbacksAlwaysSafe == Spec => []CallbacksSafe
<1>1. IInv => CallbacksSafe
  BY Zenon DEF IInv, Own, CallbacksSafe
<1>. QED  BY <1>1, IInvAlways, PTL

(* The helper never answers a request that the driver does not find, after *)
(* signals, restarts and reuse of requests too.                            *)
THEOREM HelperNeverAborted == Spec => []HelperNotAborted
<1>1. IInv => HelperNotAborted
  BY DEF IInv, Typed, InCall, HelperNotAborted
<1>. QED  BY <1>1, IInvAlways, PTL

-----------------------------------------------------------------------------
(* As long as no signal ends a wait, every step of the driver, its callers *)
(* and the helper is one that KoclOffload allows, for any number of them:  *)
(* a step that leaves what a call is owed, was answered or lost alone is a *)
(* stutter there.                                                          *)
Outline(c) ==
  /\ Owed(c)' <=> Owed(c)
  /\ Answered(c)' <=> Answered(c)
  /\ Owed(c) => (Lost(c)' <=> Lost(c))

LEMMA StatusStays ==
    ASSUME NEW c \in Callers, Outline(c)
    PROVE  Status(c)' = Status(c)
<1>1. (Lost(c) => Owed(c)) /\ (Lost(c)' => Owed(c)')
  BY DEF Lost
<1>. QED  BY <1>1, Zenon DEF Outline, Status

LEMMA Stutter ==
    ASSUME \A c \in Callers : Outline(c)
    PROVE  UNCHANGED status
<1>1. \A c \in Callers : Status(c)' = Status(c)
  BY StatusStays
<1>. QED  BY <1>1 DEF status

(* One caller's status changes.                                            *)
LEMMA Changed ==
    ASSUME NEW c \in Callers, \A d \in Callers \ {c} : Outline(d), NEW s, Status(c)' = s
    PROVE  status' = [status EXCEPT ![c] = s]
<1>1. \A d \in Callers \ {c} : Status(d)' = Status(d)
  BY StatusStays
<1>. QED  BY <1>1 DEF status

(* What is in the driver's hands, or in no place, is not in rtdreqs.       *)
LEMMA Elsewhere ==
    ASSUME Typed, Placed, NEW r \in Requests, Pointers(r) = 0 \/ Hand(r) = 1
    PROVE  Occurrences(r, rtdreqs) = 0
<1>. QED  BY PointersCount DEF Placed

LEMMA InitImplements == Init => Offload!Init
<1>. SUFFICES ASSUME Init PROVE Offload!Init
  OBVIOUS
<1>1. \A c \in Callers : Status(c) = "idle"
  BY DEF Init, Status, Lost, Owed, Answered
<1>. QED  BY <1>1 DEF Offload!Init, status

LEMMA OthersOutline ==
    ASSUME Typed, Flags, SyncOwn, NEW c \in Callers, CallerStep(c), NEW d \in Callers, d # c
    PROVE  Outline(d)
<1>1. Rests(d)
  BY OthersRest
<1>2. todo' = todo /\ rtdreqs' = rtdreqs
  BY DEF CallerStep, CallerWakes, kocl_alloc_request, kocl_free_request, kocl_offload_refused, sync_prepare,
     async_prepare, enqueue, sync_woken, sync_interrupted, sync_return, async_completed, helperVars, devVars
<1>3. Answered(d) <=> pc[d] \in {"wait", "completion"} /\ ~Owed(d)
  BY Zenon DEF Answered, Owed
<1>4. Answered(d)' <=> pc'[d] \in {"wait", "completion"} /\ ~Owed(d)'
  BY Zenon DEF Answered, Owed
<1>. QED  BY <1>1, <1>2, <1>3, <1>4 DEF Outline, Rests, Lost

LEMMA CallerImplements ==
    ASSUME Typed, Typed', Flags, Held, SyncOwn, Placed, NEW c \in Callers, CallerStep(c), signals' = 0
    PROVE  [Offload!Next]_status
<1>1. \A d \in Callers \ {c} : Outline(d)
  BY OthersOutline
<1>2. CASE enqueue(c)
  <2>1. Status(c) = "idle" /\ Has(c) /\ ~Owed(c)
    BY <1>2 DEF enqueue, Status, Lost, Owed, Answered, Has
  <2>2. Status(c)' = "pending"
    <3>1. Owed(c)' /\ req'[c] = req[c] /\ req[c] \in Requests /\ rtdreqs' = rtdreqs
      BY <1>2, QueuedOwed DEF enqueue
    <3>2. Pointers(req[c]) = 0
      BY <1>2, QueuedOwed DEF Placed
    <3>3. Occurrences(req[c], rtdreqs) = 0
      BY <3>1, <3>2, Elsewhere
    <3>. QED  BY <3>1, <3>3 DEF Status, Lost
  <2>3. status' = [status EXCEPT ![c] = "pending"] /\ status[c] = "idle"
    BY <1>1, <2>1, <2>2, Changed DEF status
  <2>. QED  BY <2>3 DEF Offload!Next, Offload!Submit
<1>3. CASE CallerWakes(c)
  <2>1. Status(c) = "answered" /\ Status(c)' = "idle"
    <3>1. CASE sync_woken(c)
      BY <3>1 DEF sync_woken, sync_return, Status, Lost, Owed, Answered, Typed
    <3>2. CASE async_completed(c)
      BY <3>2 DEF async_completed, Status, Lost, Owed, Answered, Typed
    <3>. QED  BY <1>3, <3>1, <3>2 DEF CallerWakes
  <2>2. status' = [status EXCEPT ![c] = "idle"] /\ status[c] = "answered"
    BY <1>1, <2>1, Changed DEF status
  <2>. QED  BY <2>2 DEF Offload!Next, Offload!Finish
<1>4. CASE ~enqueue(c) /\ ~CallerWakes(c)
  <2>1. ~Owed(c) /\ ~Owed(c)' /\ ~Answered(c) /\ ~Answered(c)'
    BY <1>4 DEF CallerStep, kocl_alloc_request, kocl_free_request, kocl_offload_refused,
       sync_prepare, async_prepare, sync_interrupted, Owed, Answered, Typed
  <2>2. \A d \in Callers : Outline(d)
    BY <1>1, <2>1 DEF Outline
  <2>. QED  BY <2>2, Stutter
<1>. QED  BY <1>2, <1>3, <1>4

(* What the helper does between two callbacks callers do not see: what it  *)
(* has in its hands is not in rtdreqs.                                     *)
LEMMA HelperImplements ==
    ASSUME Typed, Typed', Awaited, Awaited', Held, Placed, Placed',
           \/ Read \/ kocl_read_end \/ (\E r \in Requests : kocl_write(r))
           \/ sync_callback_end \/ async_callback_end \/ terminate_all_requests
    PROVE  [Offload!Next]_status
<1>1. UNCHANGED <<callerVars, done>>
  BY DEF Read, kocl_read, kocl_read_end, kocl_write, sync_callback_end, async_callback_end,
     terminate_all_requests, slabVars
<1>2. \A c \in Callers : (Owed(c)' <=> Owed(c)) /\ (Answered(c)' <=> Answered(c)) /\ req'[c] = req[c]
  BY <1>1, Zenon DEF callerVars, Owed, Answered
<1>3. \A c \in Callers : Owed(c) => req[c] \in Requests
  BY DEF Typed, Owed
<1>4. ASSUME NEW c \in Callers, Owed(c) PROVE Lost(c)' <=> Lost(c)
  <2>1. PICK r \in Requests : r = req[c] /\ Owed(c)' /\ req'[c] = r
    BY <1>2, <1>3, <1>4
  <2>2. /\ Lost(c) <=> todo[r] = 0 /\ Occurrences(r, rtdreqs) > 0
        /\ Lost(c)' <=> todo'[r] = 0 /\ Occurrences(r, rtdreqs') > 0
    BY <1>4, <2>1 DEF Lost
  <2>3. CASE kocl_read_end
    <3>1. CASE hreq = r
      <4>1. Hand(r) = 1
        BY <2>3, <3>1 DEF kocl_read_end, Hand
      <4>2. todo'[r] = todo[r] + 1 /\ todo[r] \in Nat
        BY <2>1, <2>3, <3>1 DEF kocl_read_end, Typed
      <4>. QED  BY <2>1, <2>2, <4>1, <4>2, Elsewhere
    <3>2. CASE hreq # r
      <4>1. todo'[r] = todo[r]
        BY <2>1, <2>3, <3>2 DEF kocl_read_end, Typed
      <4>2. Occurrences(r, rtdreqs') = Occurrences(r, rtdreqs) + Same(hreq, r)
        BY <2>3, CountedAppend DEF kocl_read_end, Typed, InCall
      <4>. QED  BY <2>1, <2>2, <3>2, <4>1, <4>2, PointersCount DEF Same
    <3>. QED  BY <3>1, <3>2
  <2>4. ASSUME NEW id \in Requests, kocl_write(id) PROVE Lost(c)' <=> Lost(c)
    <3>1. find_request(id) /\ hpc' = "found" /\ hreq' = id
      BY <2>4, Answerable
    <3>2. Occurrences(r, rtdreqs') = Occurrences(r, rtdreqs) - Same(id, r)
      BY <3>1, CountedFind DEF Typed
    <3>3. CASE id = r
      <4>1. todo[r] # 0
        BY <2>4, <3>3 DEF kocl_write, Typed
      <4>2. Hand(r)' = 1
        BY <3>1, <3>3 DEF Hand
      <4>3. Occurrences(r, rtdreqs') + 1 <= 1
        <5>1. /\ Pointers(r)' = Occurrences(r, reqs') + Occurrences(r, rtdreqs') + Hand(r)'
              /\ Occurrences(r, reqs') \in Nat /\ Occurrences(r, rtdreqs') \in Nat
          BY <2>1, Counted DEF Pointers, Hand, Typed
        <5>2. Pointers(r)' <= 1
          BY <2>1 DEF Placed
        <5>. QED  BY <4>2, <5>1, <5>2
      <4>. QED  BY <2>1, <2>2, <3>2, <4>1, <4>3, PointersCount DEF Same
    <3>4. CASE id # r
      <4>1. todo'[r] = todo[r]
        BY <2>1, <2>4, <3>4 DEF kocl_write, Typed
      <4>. QED  BY <2>1, <2>2, <3>2, <3>4, <4>1, PointersCount DEF Same
    <3>. QED  BY <3>3, <3>4
  <2>5. CASE Read \/ sync_callback_end \/ async_callback_end \/ terminate_all_requests
    <3>1. todo' = todo /\ rtdreqs' = rtdreqs
      BY <2>5 DEF Read, kocl_read, sync_callback_end, async_callback_end, terminate_all_requests, helperVars, devVars
    <3>. QED  BY <2>2, <3>1
  <2>. QED  BY <2>3, <2>4, <2>5
<1>. QED  BY <1>2, <1>4, Stutter DEF Outline

LEMMA SyncCallbackImplements ==
    ASSUME Typed, Flags, Held, SyncOwn, AsyncOwn, Placed, oops = "no", NEW d \in Data, sync_callback(d)
    PROVE  [Offload!Next]_status
<1>1. hpc = "found" /\ callback[hreq] = "sync_callback" /\ d = kdata[hreq] /\ hreq \in Requests
  BY DEF sync_callback, Typed, InCall
<1>2. PICK c \in Callers :
        /\ Owed(c) /\ req[c] = hreq /\ \A e \in Callers \ {c} : Has(e) => req[e] # hreq
        /\ pc[c] = "wait" /\ data[c] = d
  BY <1>1, CallbackFor
<1>3. done' = [done EXCEPT ![d] = TRUE]
  BY Zenon DEF sync_callback
<1>4. UNCHANGED <<pc, req, data, completed, todo, rtdreqs>>
  BY DEF sync_callback, callerVars, devVars
<1>5. \A e \in Callers \ {c} : pc[e] = "wait" => data[e] # d /\ data[e] \in Data
  BY <1>2 DEF SyncOwn, InSync
<1>6. \A e \in Callers \ {c} : pc[e] = "wait" => (done'[data[e]] <=> done[data[e]])
  BY <1>3, <1>5, Zenon DEF Flags
<1>7. \A e \in Callers \ {c} : (Owed(e)' <=> Owed(e)) /\ (Answered(e)' <=> Answered(e))
  BY <1>4, <1>6, Zenon DEF Owed, Answered
<1>8. \A e \in Callers \ {c} : Outline(e)
  BY <1>4, <1>7 DEF Outline, Lost
<1>9. Status(c) = "pending"
  <2>1. Hand(hreq) = 1
    BY <1>1 DEF Hand
  <2>2. Occurrences(hreq, rtdreqs) = 0
    BY <1>1, <2>1, Elsewhere
  <2>. QED  BY <1>2, <2>2 DEF Status, Lost
<1>10. Status(c)' = "answered"
  <2>1. done'[d]
    BY <1>3, Zenon DEF Flags
  <2>2. ~Owed(c)' /\ Answered(c)'
    BY <1>2, <1>4, <2>1 DEF Owed, Answered
  <2>. QED  BY <2>2 DEF Status, Lost
<1>11. status' = [status EXCEPT ![c] = "answered"] /\ status[c] = "pending"
  BY <1>8, <1>9, <1>10, Changed DEF status
<1>. QED  BY <1>11 DEF Offload!Next, Offload!Answer

LEMMA AsyncCallbackImplements ==
    ASSUME Typed, Flags, Held, SyncOwn, AsyncOwn, Placed, oops = "no", NEW c \in Callers, async_callback(c)
    PROVE  [Offload!Next]_status
<1>1. hpc = "found" /\ callback[hreq] = "async_callback" /\ c = kdata[hreq] /\ hreq \in Requests
  BY DEF async_callback, Typed, InCall
<1>2. Owed(c) /\ req[c] = hreq /\ pc[c] = "completion"
  BY <1>1, CallbackFor
<1>3. completed' = [completed EXCEPT ![c] = TRUE]
  BY Zenon DEF async_callback
<1>4. UNCHANGED <<pc, req, data, done, todo, rtdreqs>>
  BY DEF async_callback, slabVars, devVars
<1>5. completed'[c] /\ \A e \in Callers \ {c} : completed'[e] = completed[e]
  BY <1>3, Zenon DEF Flags
<1>6. \A e \in Callers \ {c} : (Owed(e)' <=> Owed(e)) /\ (Answered(e)' <=> Answered(e))
  BY <1>4, <1>5, Zenon DEF Owed, Answered
<1>7. \A e \in Callers \ {c} : Outline(e)
  BY <1>4, <1>6 DEF Outline, Lost
<1>8. Status(c) = "pending"
  <2>1. Hand(hreq) = 1
    BY <1>1 DEF Hand
  <2>2. Occurrences(hreq, rtdreqs) = 0
    BY <1>1, <2>1, Elsewhere
  <2>. QED  BY <1>2, <2>2 DEF Status, Lost
<1>9. Status(c)' = "answered"
  <2>1. ~Owed(c)' /\ Answered(c)'
    BY <1>2, <1>4, <1>5 DEF Owed, Answered
  <2>. QED  BY <2>1 DEF Status, Lost
<1>10. status' = [status EXCEPT ![c] = "answered"] /\ status[c] = "pending"
  BY <1>7, <1>8, <1>9, Changed DEF status
<1>. QED  BY <1>10 DEF Offload!Next, Offload!Answer

LEMMA RestartImplements ==
    ASSUME Typed, helper_restart
    PROVE  [Offload!Next]_status
<1>1. UNCHANGED <<pc, req, data, done, completed, rtdreqs>> /\ todo' = [r \in Requests |-> 0]
  BY DEF helper_restart, callerVars, slabVars, devVars
<1>2. \A c \in Callers : (Owed(c)' <=> Owed(c)) /\ (Answered(c)' <=> Answered(c))
  BY <1>1, Zenon DEF Owed, Answered
<1>3. \A c \in Callers : Owed(c) => req[c] \in Requests
  BY DEF Typed, Owed
<1>4. \A c \in Callers : Lost(c) => Lost(c)'
  BY <1>1, <1>2, <1>3 DEF Lost
<1>. DEFINE C == {c \in Callers : Lost(c)' /\ ~Lost(c)}
<1>5. C \in SUBSET {c \in Callers : status[c] = "pending"}
  BY <1>2 DEF Lost, status, Status
<1>6. \A c \in Callers : Status(c)' = IF c \in C THEN "lost" ELSE Status(c)
  BY <1>2, <1>4, Zenon DEF Status
<1>7. status' = [c \in Callers |-> IF c \in C THEN "lost" ELSE status[c]]
  BY <1>6 DEF status
<1>. QED  BY <1>5, <1>7 DEF Offload!Next, Offload!Lose

LEMMA StepImplements ==
    ASSUME MaxSignals = 0, IInv, IInv', [Next]_vars
    PROVE  [Offload!Next]_status
<1>1. /\ Typed /\ Flags /\ Awaited /\ Held /\ SyncOwn /\ AsyncOwn /\ Placed
      /\ Typed' /\ Awaited' /\ Placed' /\ signals' = 0 /\ oops' # "callback"
  <2>1. Typed /\ Typed'
    BY DEF IInv
  <2>2. signals = 0 /\ signals' = 0
    BY <2>1 DEF Typed
  <2>. QED  BY <2>1, <2>2 DEF IInv, Own
<1>2. CASE Next
  <2>1. CASE null_callback
    BY <1>1, <2>1 DEF null_callback
  <2>2. oops = "no"
    BY <1>2 DEF Next
  <2>. QED  BY <1>1, <1>2, <2>1, <2>2, CallerImplements, HelperImplements, SyncCallbackImplements,
             AsyncCallbackImplements, RestartImplements DEF Next, InSyscall
<1>3. CASE UNCHANGED vars
  <2>1. UNCHANGED <<pc, req, data, done, completed, todo, rtdreqs>>
    BY <1>3 DEF vars, callerVars, slabVars, helperVars, devVars
  <2>2. \A c \in Callers : Outline(c)
    BY <2>1, Zenon DEF Outline, Owed, Answered, Lost
  <2>. QED  BY <2>2, Stutter
<1>. QED  BY <1>2, <1>3

(* kocl_offload_sync and _async, the lists, the helper's system calls and  *)
(* its restarts give callers what KoclOffload promises: an accepted call   *)
(* is answered at most once, ends only after its answer, and is lost only  *)
(* with a helper that had read it.                                         *)
THEOREM ImplementsOffload ==
    ASSUME MaxSignals = 0
    PROVE  Spec => Offload!Safety
<1>1. IInv /\ IInv' /\ [Next]_vars => [Offload!Next]_status
  BY StepImplements
<1>. QED  BY <1>1, InitImplements, IInvAlways, PTL DEF Spec, Offload!Safety
=============================================================================
