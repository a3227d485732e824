--------------------------- MODULE KoclHelperProofs ---------------------------
(* For any number of requests, services and command queues: every request  *)
(* that the helper has read is in one list, every queue taken has one      *)
(* holder, and a result is in the buffer of the request it is for.         *)
EXTENDS KoclHelper, FiniteSetTheorems, SequenceTheorems, TLAPS

Distinct(s) == \A j, k \in DOMAIN s : s[j] = s[k] => j = k

-----------------------------------------------------------------------------
(* Lists as sets: what Append, Without and Tail do to the set of elements. *)
LEMMA ElementsOf ==
    ASSUME NEW s \in Seq(Ids)
    PROVE  /\ DOMAIN s = 1..Len(s) /\ Len(s) \in Nat
           /\ InSeq(s) \subseteq Ids
           /\ InSeq(s) = {} <=> s = << >>
           /\ \A j \in 1..Len(s) : s[j] \in InSeq(s)
<1>1. DOMAIN s = 1..Len(s) /\ Len(s) \in Nat /\ s \in [1..Len(s) -> Ids]
  BY LenProperties
<1>2. s # << >> => Len(s) \in Nat \ {0}
  BY EmptySeq
<1>3. s = << >> => Len(s) = 0
  BY EmptySeq
<1>4. \A j \in 1..Len(s) : s[j] \in InSeq(s)
  BY <1>1 DEF InSeq
<1>5. s # << >> => InSeq(s) # {}
  <2>1. s # << >> => 1 \in 1..Len(s)
    BY <1>2
  <2>. QED  BY <1>4, <2>1
<1>6. s = << >> => InSeq(s) = {}
  BY <1>1, <1>3 DEF InSeq
<1>. QED  BY <1>1, <1>4, <1>5, <1>6 DEF InSeq

LEMMA EmptyList == << >> \in Seq(Ids) /\ InSeq(<< >>) = {} /\ Distinct(<< >>)
<1>1. << >> \in Seq(Ids) /\ Len(<< >>) = 0
  BY EmptySeq
<1>2. DOMAIN << >> = {}
  BY <1>1, ElementsOf
<1>. QED  BY <1>1, <1>2, ElementsOf DEF Distinct

LEMMA AppendList ==
    ASSUME NEW s \in Seq(Ids), NEW r \in Ids
    PROVE  /\ Append(s, r) \in Seq(Ids)
           /\ InSeq(Append(s, r)) = InSeq(s) \cup {r}
           /\ Distinct(s) /\ r \notin InSeq(s) => Distinct(Append(s, r))
<1>. DEFINE t == Append(s, r)
<1>1. /\ t \in Seq(Ids) /\ Len(t) = Len(s) + 1
      /\ \A j \in 1..Len(s) : t[j] = s[j]
      /\ t[Len(s) + 1] = r
  BY AppendProperties
<1>. HIDE DEF t
<1>2. DOMAIN s = 1..Len(s) /\ DOMAIN t = 1..Len(s) + 1 /\ Len(s) \in Nat
  BY <1>1, ElementsOf
<1>3. InSeq(t) = InSeq(s) \cup {r}
  <2>1. \A x \in InSeq(t) : x \in InSeq(s) \cup {r}
    BY <1>1, <1>2 DEF InSeq
  <2>2. \A x \in InSeq(s) \cup {r} : x \in InSeq(t)
    BY <1>1, <1>2 DEF InSeq
  <2>. QED  BY <2>1, <2>2
<1>4. ASSUME Distinct(s), r \notin InSeq(s)
      PROVE  Distinct(t)
  BY <1>1, <1>2, <1>4 DEF Distinct, InSeq
<1>. QED  BY <1>1, <1>3, <1>4 DEF t

LEMMA TailList ==
    ASSUME NEW s \in Seq(Ids), s # << >>
    PROVE  /\ Tail(s) \in Seq(Ids) /\ Head(s) \in InSeq(s)
           /\ InSeq(Tail(s)) \subseteq InSeq(s)
           /\ InSeq(s) \subseteq InSeq(Tail(s)) \cup {Head(s)}
           /\ Distinct(s) => Head(s) \notin InSeq(Tail(s)) /\ Distinct(Tail(s))
<1>. DEFINE t == Tail(s)
<1>1. /\ t \in Seq(Ids) /\ Len(t) = Len(s) - 1
      /\ \A j \in 1..Len(t) : t[j] = s[j + 1]
  BY HeadTailProperties
<1>2. Head(s) = s[1] /\ Len(s) \in Nat \ {0}
  BY EmptySeq
<1>. HIDE DEF t
<1>3. DOMAIN s = 1..Len(s) /\ DOMAIN t = 1..Len(s) - 1
  BY <1>1, ElementsOf
<1>4. Head(s) \in InSeq(s) /\ InSeq(t) \subseteq InSeq(s)
  BY <1>1, <1>2, <1>3 DEF InSeq
<1>5. InSeq(s) \subseteq InSeq(t) \cup {Head(s)}
  <2>1. SUFFICES ASSUME NEW j \in 1..Len(s), j # 1
                 PROVE  s[j] \in InSeq(t)
    BY <1>2, <1>3 DEF InSeq
  <2>2. j - 1 \in 1..Len(s) - 1 /\ t[j - 1] = s[(j - 1) + 1] /\ (j - 1) + 1 = j
    BY <1>1, <1>2, <2>1
  <2>. QED  BY <1>3, <2>2 DEF InSeq
<1>6. ASSUME Distinct(s)
      PROVE  Head(s) \notin InSeq(t) /\ Distinct(t)
  <2>1. \A j \in 1..Len(s) - 1 : j + 1 \in 1..Len(s) /\ j + 1 # 1 /\ t[j] = s[j + 1]
    BY <1>1, <1>2
  <2>2. \A j, k \in 1..Len(s) : s[j] = s[k] => j = k
    BY <1>3, <1>6 DEF Distinct
  <2>3. Head(s) \notin InSeq(t)
    BY <1>2, <1>3, <2>1, <2>2 DEF InSeq
  <2>4. Distinct(t)
    <3>1. SUFFICES ASSUME NEW j \in 1..Len(s) - 1, NEW k \in 1..Len(s) - 1, t[j] = t[k]
                   PROVE  j = k
      BY <1>3 DEF Distinct
    <3>2. j + 1 = k + 1
      BY <2>1, <2>2, <3>1
    <3>. QED  BY <3>2
  <2>. QED  BY <2>3, <2>4
<1>. QED  BY <1>1, <1>4, <1>5, <1>6 DEF t

LEMMA WithoutList ==
    ASSUME NEW s \in Seq(Ids), NEW r \in InSeq(s), Distinct(s)
    PROVE  /\ Without(s, r) \in Seq(Ids)
           /\ InSeq(Without(s, r)) = InSeq(s) \ {r}
           /\ Distinct(Without(s, r))
<1>. DEFINE k == CHOOSE x \in DOMAIN s : s[x] = r
            u == SubSeq(s, 1, k - 1)
            m == k + 1
            v == SubSeq(s, m, Len(s))
            t == u \o v
<1>1. DOMAIN s = 1..Len(s) /\ Len(s) \in Nat /\ \A j \in 1..Len(s) : s[j] \in Ids
  BY ElementsOf
<1>2. \E x \in DOMAIN s : s[x] = r
  BY DEF InSeq
<1>3. k \in 1..Len(s) /\ s[k] = r
  BY <1>1, <1>2
<1>. HIDE DEF k
<1>4. u \in Seq(Ids) /\ Len(u) = k - 1 /\ \A j \in 1..k - 1 : u[j] = s[j]
  BY <1>1, <1>3, SubSeqProperties
<1>5. v \in Seq(Ids) /\ Len(v) = Len(s) - k /\ \A j \in 1..Len(s) - k : v[j] = s[j + k]
  <2>1. m \in Int /\ Len(s) \in Int /\ \A j \in m..Len(s) : s[j] \in Ids
    BY <1>1, <1>3
  <2>2. /\ v \in Seq(Ids)
        /\ Len(v) = IF m <= Len(s) THEN Len(s) - m + 1 ELSE 0
        /\ \A j \in 1..Len(s) - m + 1 : v[j] = s[m + j - 1]
    BY <2>1, SubSeqProperties
  <2>. HIDE DEF v
  <2>3. Len(v) = Len(s) - k
    <3>1. k \in Nat /\ k <= Len(s) /\ Len(s) \in Nat
      BY <1>1, <1>3
    <3>2. CASE k < Len(s)
      BY <2>2, <3>1, <3>2
    <3>3. CASE k = Len(s)
      BY <2>2, <3>1, <3>3
    <3>. QED  BY <3>1, <3>2, <3>3
  <2>4. ASSUME NEW j \in 1..Len(s) - k
        PROVE  v[j] = s[j + k]
    <3>1. j \in 1..Len(s) - m + 1 /\ m + j - 1 = j + k
      BY <1>1, <1>3
    <3>. QED  BY <2>2, <3>1
  <2>. QED  BY <2>2, <2>3, <2>4
<1>. HIDE DEF u, v, m
<1>6. /\ t \in Seq(Ids) /\ Len(t) = Len(u) + Len(v)
      /\ \A j \in 1..Len(u) + Len(v) : t[j] = IF j <= Len(u) THEN u[j] ELSE v[j - Len(u)]
  BY <1>4, <1>5, ConcatProperties, Zenon
<1>. HIDE DEF t
<1>7. Len(t) = Len(s) - 1 /\ DOMAIN t = 1..Len(s) - 1
  BY <1>1, <1>3, <1>4, <1>5, <1>6, ElementsOf
<1>8. ASSUME NEW j \in 1..Len(s) - 1
      PROVE  t[j] = IF j < k THEN s[j] ELSE s[j + 1]
  <2>1. j \in 1..Len(u) + Len(v) /\ k \in Nat /\ Len(u) = k - 1
    BY <1>1, <1>3, <1>4, <1>5
  <2>2. t[j] = IF j <= Len(u) THEN u[j] ELSE v[j - Len(u)]
    BY <1>6, <2>1
  <2>3. CASE j < k
    BY <1>4, <2>1, <2>2, <2>3
  <2>4. CASE j >= k
    <3>1. j - (k - 1) \in 1..Len(s) - k /\ (j - (k - 1)) + k = j + 1 /\ ~(j <= k - 1) /\ ~(j < k)
      BY <1>1, <1>3, <2>4
    <3>2. v[j - (k - 1)] = s[(j - (k - 1)) + k]
      BY <1>5, <3>1
    <3>. QED  BY <2>1, <2>2, <3>1, <3>2
  <2>. QED  BY <2>1, <2>3, <2>4
<1>9. ASSUME NEW j \in 1..Len(s), j # k
      PROVE  \E p \in 1..Len(s) - 1 : t[p] = s[j]
  <2>1. CASE j < k
    <3>1. j \in 1..Len(s) - 1
      BY <1>1, <1>3, <2>1
    <3>. QED  BY <1>8, <2>1, <3>1
  <2>2. CASE j > k
    <3>1. j - 1 \in 1..Len(s) - 1 /\ ~(j - 1 < k) /\ (j - 1) + 1 = j
      BY <1>1, <1>3, <2>2
    <3>. QED  BY <1>8, <3>1
  <2>. QED  BY <1>1, <1>3, <1>9, <2>1, <2>2
<1>10. InSeq(t) = InSeq(s) \ {r}
  <2>1. ASSUME NEW j \in 1..Len(s) - 1
        PROVE  t[j] \in InSeq(s) \ {r}
    <3>1. j \in 1..Len(s) /\ j + 1 \in 1..Len(s)
      BY <1>1
    <3>2. t[j] \in InSeq(s)
      BY <1>1, <1>8, <3>1 DEF InSeq
    <3>3. CASE j < k
      BY <1>1, <1>3, <1>8, <3>1, <3>2, <3>3 DEF Distinct
    <3>4. CASE ~(j < k)
      BY <1>1, <1>3, <1>8, <3>1, <3>2, <3>4 DEF Distinct
    <3>. QED  BY <3>3, <3>4
  <2>2. ASSUME NEW x \in InSeq(s) \ {r}
        PROVE  x \in InSeq(t)
    <3>1. PICK j \in 1..Len(s) : s[j] = x /\ j # k
      BY <1>1, <1>3 DEF InSeq
    <3>. QED  BY <1>7, <1>9, <3>1 DEF InSeq
  <2>. QED  BY <1>7, <2>1, <2>2 DEF InSeq
<1>11. Distinct(t)
  <2>1. SUFFICES ASSUME NEW p \in 1..Len(s) - 1, NEW q \in 1..Len(s) - 1, t[p] = t[q]
                 PROVE  p = q
    BY <1>7 DEF Distinct
  <2>2. \A j \in 1..Len(s) - 1 : j \in 1..Len(s) /\ j + 1 \in 1..Len(s) /\ j \in Nat
    BY <1>1
  <2>3. \A x, y \in 1..Len(s) : s[x] = s[y] => x = y
    BY <1>1 DEF Distinct
  <2>4. k \in Nat
    BY <1>3
  <2>. QED  BY <1>8, <2>1, <2>2, <2>3, <2>4
<1>12. Without(s, r) = t
  BY DEF Without, t, u, v, m, k
<1>. QED  BY <1>6, <1>10, <1>11, <1>12

-----------------------------------------------------------------------------
(* The inductive invariant.                                                *)
In(l) == InSeq(lists[l])

Item == [s : Services \cup {NoService}, channel : Channels \cup {0},
         queue_id : -1 .. (MaxQueueNr - 1), errcode : {"OK", "error", "NO_SERVICE"}]

Typed ==
  /\ waiting \in Seq(Ids) /\ lists \in [Stages -> Seq(Ids)] /\ left \in Seq(Ids)
  /\ all_reqs \subseteq Ids /\ computed \subseteq Ids \cup {None}
  /\ item \in [Ids -> Item]
  /\ Queueuses \in [1 .. 3 -> SUBSET (0 .. (MaxQueueNr - 1))]
  /\ args \in [Kernels -> Ids \cup {None}]
  /\ pass \in DOMAIN Following

(* A request is with the driver, in one list of the helper, or nowhere;    *)
(* what a pass has still to visit is in the list it visits.                *)
Listed ==
  /\ Distinct(waiting) /\ InSeq(waiting) \cap all_reqs = {}
  /\ \A l \in Stages : Distinct(lists[l]) /\ In(l) \subseteq all_reqs
  /\ \A l, m \in Stages : \A r \in In(l) : r \in In(m) => l = m
  /\ \A r \in all_reqs : \E l \in Stages : r \in In(l)
  /\ Distinct(left)
  /\ IF pass = "next" THEN left = << >> ELSE InSeq(left) \subseteq In(Visited[pass])

(* A command queue is taken by exactly one request, which has been read    *)
(* and, as long as it is not answered, is the only one with its number.    *)
Holds(r, d, q) == DeviceOf(item[r].channel) = d /\ item[r].queue_id = q

Queued ==
  /\ \A d \in 1 .. 3 : \A q \in Queueuses[d] : \E r \in all_reqs : Holds(r, d, q)
  /\ \A r \in all_reqs : item[r].queue_id # -1 =>
        item[r].queue_id \in Queueuses[DeviceOf(item[r].channel)]
  /\ \A d \in 1 .. 3, q \in 0 .. (MaxQueueNr - 1) : \A r, o \in all_reqs :
        Holds(r, d, q) /\ Holds(o, d, q) => r = o
  /\ \A r \in InSeq(waiting) \cup In("init") \cup In("memdone") : item[r].queue_id = -1

(* At most one request is between its prepare and its launch, and its      *)
(* kernel object holds its arguments: the pass "launch" comes before       *)
(* "prepare", both end after one success.                                  *)
Loaded ==
  /\ \A l \in Stages \ {"done"} : \A r \in In(l) : item[r].s \in Services
  /\ \A r, o \in In("prepared") : r = o
  /\ \A r \in In("prepared") : args[KernelOf(r)] = r
  /\ pass = "launch" => In("prepared") \subseteq InSeq(left)
  /\ pass = "prepare" /\ left # << >> => In("prepared") = {}

Computed ==
  /\ In("running") \cup In("post_exec") \subseteq computed
  /\ ResultOwn

IInv == Typed /\ Listed /\ Queued /\ Loaded /\ Computed

LEMMA InitHolds == Init => IInv
<1>. SUFFICES ASSUME Init PROVE IInv
  OBVIOUS
<1>1. \A l \in Stages : lists[l] = << >> /\ In(l) = {}
  BY EmptyList DEF Init, In
<1>2. Typed
  <2>1. item \in [Ids -> Item]
    BY MaxQueueNrAssumption DEF Init, Blank, Item
  <2>2. lists \in [Stages -> Seq(Ids)]
    BY EmptyList DEF Init
  <2>. QED  BY <2>1, <2>2, EmptyList DEF Init, gpu_init, Typed, Following
<1>3. Listed
  BY <1>1, EmptyList DEF Init, Listed, Stages, Visited
<1>4. Queued
  <2>1. InSeq(waiting) = {} /\ In("init") = {} /\ In("memdone") = {} /\ all_reqs = {}
    BY <1>1, EmptyList DEF Init, Stages
  <2>2. \A d \in 1 .. 3 : Queueuses[d] = {}
    BY DEF Init, gpu_init
  <2>. QED  BY <2>1, <2>2 DEF Queued
<1>5. Loaded
  BY <1>1 DEF Init, Loaded, Stages
<1>6. Computed
  BY <1>1 DEF Init, Computed, ResultOwn, Stages, In
<1>. QED  BY <1>2, <1>3, <1>4, <1>5, <1>6 DEF IInv

-----------------------------------------------------------------------------
(* One step of a pass: what it does to the lists.                          *)
LEMMA Visiting ==
    ASSUME Typed, Listed, NEW p \in DOMAIN Visited, NEW r \in Ids, Visit(p, r)
    PROVE  /\ pass = p /\ Visited[p] \in Stages /\ left # << >>
           /\ r \in In(Visited[p]) /\ r \in InSeq(left) /\ r \in all_reqs
           /\ Distinct(lists[Visited[p]])
           /\ Tail(left) \in Seq(Ids) /\ Distinct(Tail(left))
           /\ InSeq(Tail(left)) \subseteq In(Visited[p]) \ {r}
<1>1. pass = p /\ left # << >> /\ r = Head(left) /\ left \in Seq(Ids) /\ Distinct(left)
  BY DEF Visit, Typed, Listed
<1>2. /\ Tail(left) \in Seq(Ids) /\ r \in InSeq(left) /\ InSeq(Tail(left)) \subseteq InSeq(left)
      /\ r \notin InSeq(Tail(left)) /\ Distinct(Tail(left))
  BY <1>1, TailList
<1>3. Visited[p] \in Stages /\ pass # "next"
  BY <1>1 DEF Visited, Stages
<1>4. InSeq(left) \subseteq In(Visited[p])
  BY <1>1, <1>3 DEF Listed
<1>. QED  BY <1>1, <1>2, <1>3, <1>4 DEF Listed

Moves(r, from, to) ==
  \A l \in Stages : In(l)' = IF l = from THEN In(l) \ {r}
                             ELSE IF l = to THEN In(l) \cup {r} ELSE In(l)

LEMMA Moved ==
    ASSUME Typed, Listed, NEW from \in Stages, NEW to \in Stages, from # to,
           NEW r \in In(from), Move(r, from, to)
    PROVE  /\ lists' \in [Stages -> Seq(Ids)]
           /\ Moves(r, from, to)
           /\ \A l \in Stages : Distinct(lists'[l])
<1>1. lists \in [Stages -> Seq(Ids)] /\ r \in Ids
  BY ElementsOf DEF Typed, In
<1>2. r \notin In(to) /\ \A l \in Stages : Distinct(lists[l])
  BY DEF Listed
<1>3. /\ Without(lists[from], r) \in Seq(Ids) /\ Distinct(Without(lists[from], r))
      /\ InSeq(Without(lists[from], r)) = In(from) \ {r}
  BY <1>1, <1>2, WithoutList DEF In
<1>4. /\ Append(lists[to], r) \in Seq(Ids) /\ Distinct(Append(lists[to], r))
      /\ InSeq(Append(lists[to], r)) = In(to) \cup {r}
  BY <1>1, <1>2, AppendList DEF In
<1>5. lists' = [lists EXCEPT ![from] = Without(lists[from], r), ![to] = Append(lists[to], r)]
  BY <1>1 DEF Move
<1>6. /\ lists'[from] = Without(lists[from], r) /\ lists'[to] = Append(lists[to], r)
      /\ \A l \in Stages \ {from, to} : lists'[l] = lists[l]
  BY <1>1, <1>5
<1>7. lists' \in [Stages -> Seq(Ids)]
  BY <1>1, <1>3, <1>4, <1>5
<1>8. Moves(r, from, to)
  BY <1>3, <1>4, <1>6 DEF Moves, In
<1>9. \A l \in Stages : Distinct(lists'[l])
  BY <1>2, <1>3, <1>4, <1>6
<1>. QED  BY <1>7, <1>8, <1>9

(* A visit that moves its request on, or leaves it where it is.            *)
Goes == Continue \/ Stop

LEMMA LeftTyped ==
    ASSUME Typed, Listed, NEW p \in DOMAIN Visited, NEW r \in Ids, Visit(p, r), Goes
    PROVE  /\ left' \in Seq(Ids) /\ Distinct(left') /\ pass' = p /\ pass' \in DOMAIN Following
           /\ InSeq(left') \subseteq In(Visited[p]) \ {r}
<1>1. /\ pass = p /\ Tail(left) \in Seq(Ids) /\ Distinct(Tail(left))
      /\ InSeq(Tail(left)) \subseteq In(Visited[p]) \ {r}
  BY Visiting
<1>2. p \in DOMAIN Following
  BY <1>1 DEF Typed
<1>3. CASE Continue
  BY <1>1, <1>2, <1>3 DEF Continue
<1>4. CASE Stop
  BY <1>1, <1>2, <1>4, EmptyList DEF Stop
<1>. QED  BY <1>3, <1>4 DEF Goes

LEMMA MovedListed ==
    ASSUME Typed, Listed, NEW p \in DOMAIN Visited, NEW r \in Ids, Visit(p, r), Goes,
           NEW to \in Stages, to # Visited[p], Move(r, Visited[p], to),
           UNCHANGED <<waiting, all_reqs>>
    PROVE  Listed'
<1>. DEFINE from == Visited[p]
<1>1. from \in Stages /\ r \in In(from) /\ r \in all_reqs /\ p # "next"
  BY Visiting DEF Visited
<1>. HIDE DEF from
<1>2. Moves(r, from, to) /\ \A l \in Stages : Distinct(lists'[l])
  BY <1>1, Moved DEF from
<1>3. /\ Distinct(left') /\ pass' = p /\ InSeq(left') \subseteq In(from) \ {r}
  BY LeftTyped DEF from
<1>4. Distinct(waiting') /\ InSeq(waiting') \cap all_reqs' = {}
  BY DEF Listed
<1>5. \A l \in Stages : In(l)' \subseteq all_reqs'
  BY <1>1, <1>2 DEF Listed, Moves
<1>6. \A l, m \in Stages : \A x \in In(l)' : x \in In(m)' => l = m
  BY <1>1, <1>2 DEF Listed, Moves
<1>7. \A x \in all_reqs' : \E l \in Stages : x \in In(l)'
  <2>1. SUFFICES ASSUME NEW x \in all_reqs
                 PROVE  \E l \in Stages : x \in In(l)'
    OBVIOUS
  <2>2. PICK l \in Stages : x \in In(l)
    BY DEF Listed
  <2>3. CASE x = r
    BY <1>1, <1>2, <2>3 DEF Moves, from
  <2>4. CASE x # r
    BY <1>2, <2>2, <2>4 DEF Moves
  <2>. QED  BY <2>3, <2>4
<1>8. InSeq(left') \subseteq In(Visited[p])'
  BY <1>1, <1>2, <1>3 DEF Moves, from
<1>. QED  BY <1>1, <1>2, <1>3, <1>4, <1>5, <1>6, <1>7, <1>8 DEF Listed

-----------------------------------------------------------------------------
(* Steps that move a request and leave its queue and arguments alone keep  *)
(* the queues accounted for.                                               *)
LEMMA KeptQueued ==
    ASSUME Typed, Queued, item' \in [Ids -> Item], UNCHANGED <<all_reqs, Queueuses>>,
           \A r \in all_reqs : /\ item'[r].channel = item[r].channel
                               /\ item'[r].queue_id = item[r].queue_id,
           \A r \in InSeq(waiting') \cup In("init")' \cup In("memdone")' : item'[r].queue_id = -1
    PROVE  Queued'
<1>1. \A r \in all_reqs, d \in 1 .. 3, q \in Int : Holds(r, d, q)' <=> Holds(r, d, q)
  BY DEF Holds
<1>2. \A d \in 1 .. 3 : Queueuses[d] \subseteq Int
  BY DEF Typed
<1>3. \A d \in 1 .. 3 : \A q \in Queueuses'[d] : \E r \in all_reqs' : Holds(r, d, q)'
  BY <1>1, <1>2 DEF Queued
<1>4. \A r \in all_reqs' : item'[r].queue_id # -1 =>
        item'[r].queue_id \in Queueuses'[DeviceOf(item'[r].channel)]
  BY DEF Queued
<1>5. \A d \in 1 .. 3, q \in 0 .. (MaxQueueNr - 1) : \A r, o \in all_reqs' :
        Holds(r, d, q)' /\ Holds(o, d, q)' => r = o
  BY <1>1, MaxQueueNrAssumption DEF Queued
<1>. QED  BY <1>3, <1>4, <1>5 DEF Queued

(* kh_fail_request leaves the fields of every other request alone.         *)
LEMMA Failed ==
    ASSUME Typed, NEW r \in Ids, NEW from \in Stages, NEW it \in [Ids -> Item], Fail(r, from, it)
    PROVE  /\ item' \in [Ids -> Item] /\ Move(r, from, "done")
           /\ \A o \in Ids : /\ item'[o].s = it[o].s /\ item'[o].channel = it[o].channel
                             /\ item'[o].queue_id = it[o].queue_id
                             /\ o # r => item'[o] = it[o]
           /\ item'[r].errcode = "error"
<1>1. item' = [it EXCEPT ![r].errcode = "error"]
  BY DEF Fail
<1>. QED  BY <1>1 DEF Fail, Item

(* What is done stays computed.                                            *)
LEMMA KeptResults ==
    ASSUME Computed, computed \subseteq computed',
           \A r \in In("running")' \cup In("post_exec")' : r \in In("running") \cup In("post_exec") \cup computed',
           \A r \in In("done")' : \/ r \in In("done") /\ item'[r].errcode = item[r].errcode
                                  \/ item'[r].errcode # "OK"
                                  \/ r \in In("post_exec")
    PROVE  Computed'
<1>1. In("running")' \cup In("post_exec")' \subseteq computed'
  BY DEF Computed
<1>2. \A r \in In("done")' : item'[r].errcode = "OK" => r \in computed'
  BY DEF Computed, ResultOwn, In
<1>. QED  BY <1>1, <1>2 DEF Computed, ResultOwn, In

-----------------------------------------------------------------------------
(* The operations.                                                         *)
LEMMA FinishPostStep ==
    ASSUME IInv, NEW r \in Ids, kh_finish_post(r)
    PROVE  IInv'
<1>. USE DEF IInv
<1>1. /\ Visit("finish", r) /\ Goes /\ Move(r, "post_exec", "done")
      /\ UNCHANGED <<waiting, all_reqs, item, Queueuses, args, computed>>
  BY DEF kh_finish_post, Goes
<1>2. "finish" \in DOMAIN Visited /\ Visited["finish"] = "post_exec" /\ "post_exec" \in Stages /\ "done" \in Stages
  BY DEF Visited, Stages
<1>3. r \in In("post_exec") /\ pass = "finish"
  BY <1>1, <1>2, Visiting
<1>4. lists' \in [Stages -> Seq(Ids)] /\ Moves(r, "post_exec", "done")
  BY <1>1, <1>2, <1>3, Moved
<1>5. left' \in Seq(Ids) /\ pass' = "finish" /\ pass' \in DOMAIN Following
  BY <1>1, <1>2, LeftTyped
<1>6. Typed'
  BY <1>1, <1>4, <1>5 DEF Typed
<1>7. Listed'
  BY <1>1, <1>2, MovedListed
<1>8. Queued'
  <2>1. \A x \in InSeq(waiting') \cup In("init")' \cup In("memdone")' : item'[x].queue_id = -1
    BY <1>1, <1>4 DEF Moves, Stages, Queued
  <2>. QED  BY <1>1, <1>6, <2>1, KeptQueued DEF Typed
<1>9. Loaded'
  BY <1>1, <1>4, <1>5 DEF Loaded, Moves, Stages, KernelOf
<1>10. Computed'
  <2>1. /\ In("running")' = In("running") /\ In("post_exec")' = In("post_exec") \ {r}
        /\ In("done")' = In("done") \cup {r}
    BY <1>4 DEF Moves, Stages
  <2>. QED  BY <1>1, <1>3, <2>1, KeptResults
<1>. QED  BY <1>6, <1>7, <1>8, <1>9, <1>10

LEMMA PostExecStep ==
    ASSUME IInv, NEW r \in Ids, kh_post_exec(r)
    PROVE  IInv'
<1>. USE DEF IInv
<1>1. PICK to \in {"post_exec", "done"} :
        /\ Visit("post", r) /\ Goes /\ Move(r, "running", to)
        /\ UNCHANGED <<waiting, all_reqs, Queueuses, args, computed>>
        /\ IF to = "done" THEN Fail(r, "running", item) ELSE UNCHANGED item
  BY DEF kh_post_exec, Goes, Fail
<1>2. "post" \in DOMAIN Visited /\ Visited["post"] = "running" /\ "running" \in Stages /\ to \in Stages
  BY DEF Visited, Stages
<1>3. r \in In("running") /\ pass = "post"
  BY <1>1, <1>2, Visiting
<1>4. lists' \in [Stages -> Seq(Ids)] /\ Moves(r, "running", to)
  BY <1>1, <1>2, <1>3, Moved
<1>5. left' \in Seq(Ids) /\ pass' = "post" /\ pass' \in DOMAIN Following
  BY <1>1, <1>2, LeftTyped
<1>6. /\ item' \in [Ids -> Item]
      /\ \A o \in Ids : /\ item'[o].s = item[o].s /\ item'[o].channel = item[o].channel
                        /\ item'[o].queue_id = item[o].queue_id
                        /\ o # r => item'[o] = item[o]
      /\ IF to = "done" THEN item'[r].errcode = "error" ELSE item' = item
  <2>1. CASE to = "done"
    BY <1>1, <1>2, <2>1, Failed DEF Typed
  <2>2. CASE to # "done"
    BY <1>1, <2>2 DEF Typed
  <2>. QED  BY <2>1, <2>2
<1>7. Typed'
  BY <1>1, <1>4, <1>5, <1>6 DEF Typed
<1>8. Listed'
  <2>1. to # "running"
    OBVIOUS
  <2>. QED  BY <1>1, <1>2, <2>1, MovedListed
<1>9. \A l \in Stages : In(l) \subseteq Ids /\ In(l)' \subseteq Ids
  BY <1>7, ElementsOf DEF Typed, In
<1>10. Queued'
  <2>1. \A x \in InSeq(waiting') \cup In("init")' \cup In("memdone")' : item'[x].queue_id = -1
    <3>1. In("init")' = In("init") /\ In("memdone")' = In("memdone")
      BY <1>4 DEF Moves, Stages
    <3>2. InSeq(waiting) \subseteq Ids /\ In("init") \subseteq Ids /\ In("memdone") \subseteq Ids
      BY <1>9, ElementsOf DEF Typed, Stages
    <3>. QED  BY <1>1, <1>6, <3>1, <3>2 DEF Queued
  <2>. QED  BY <1>1, <1>6, <2>1, KeptQueued DEF Typed
<1>11. Loaded'
  <2>1. \A o \in Ids : KernelOf(o)' = KernelOf(o)
    BY <1>6 DEF KernelOf
  <2>2. In("prepared")' = In("prepared")
    BY <1>4 DEF Moves, Stages
  <2>3. ASSUME NEW l \in Stages \ {"done"}, NEW x \in In(l)'
        PROVE  item'[x].s \in Services
    <3>1. x \in In(l) \cup In("running") /\ x \in Ids
      BY <1>3, <1>4, <1>9 DEF Moves
    <3>2. item[x].s \in Services
      BY <1>2, <3>1 DEF Loaded
    <3>. QED  BY <1>6, <3>1, <3>2
  <2>4. "prepared" \in Stages
    BY DEF Stages
  <2>. QED  BY <1>1, <1>5, <1>9, <2>1, <2>2, <2>3, <2>4 DEF Loaded
<1>12. Computed'
  <2>1. /\ In("running")' = In("running") \ {r}
        /\ In("post_exec")' \subseteq In("post_exec") \cup {r}
        /\ In("done")' = IF to = "done" THEN In("done") \cup {r} ELSE In("done")
    BY <1>4 DEF Moves, Stages
  <2>2. In("done") \subseteq Ids
    BY <1>9 DEF Stages
  <2>3. \A x \in In("done")' : \/ x \in In("done") /\ item'[x].errcode = item[x].errcode
                               \/ item'[x].errcode # "OK"
    BY <1>6, <2>1, <2>2
  <2>. QED  BY <1>1, <1>3, <2>1, <2>3, KeptResults
<1>. QED  BY <1>7, <1>8, <1>10, <1>11, <1>12

LEMMA LaunchStep ==
    ASSUME IInv, NEW r \in Ids, kh_launch_exec(r)
    PROVE  IInv'
<1>. USE DEF IInv
<1>1. PICK to \in {"running", "done"} :
        /\ Visit("launch", r) /\ Goes /\ Move(r, "prepared", to)
        /\ UNCHANGED <<waiting, all_reqs, Queueuses, args>>
        /\ IF to = "done" THEN Fail(r, "prepared", item) /\ UNCHANGED computed
           ELSE UNCHANGED item /\ computed' = computed \cup {args[KernelOf(r)]}
  BY DEF kh_launch_exec, Goes, Fail
<1>2. "launch" \in DOMAIN Visited /\ Visited["launch"] = "prepared" /\ "prepared" \in Stages /\ to \in Stages
  BY DEF Visited, Stages
<1>3. r \in In("prepared") /\ pass = "launch"
  BY <1>1, <1>2, Visiting
<1>4. lists' \in [Stages -> Seq(Ids)] /\ Moves(r, "prepared", to)
  BY <1>1, <1>2, <1>3, Moved
<1>5. left' \in Seq(Ids) /\ pass' = "launch" /\ pass' \in DOMAIN Following
  BY <1>1, <1>2, LeftTyped
<1>6. /\ item' \in [Ids -> Item]
      /\ \A o \in Ids : /\ item'[o].s = item[o].s /\ item'[o].channel = item[o].channel
                        /\ item'[o].queue_id = item[o].queue_id
                        /\ o # r => item'[o] = item[o]
      /\ IF to = "done" THEN item'[r].errcode = "error" ELSE item' = item
  <2>1. CASE to = "done"
    BY <1>1, <1>2, <2>1, Failed DEF Typed
  <2>2. CASE to # "done"
    BY <1>1, <2>2 DEF Typed
  <2>. QED  BY <2>1, <2>2
<1>7. computed' = IF to = "done" THEN computed ELSE computed \cup {r}
  BY <1>1, <1>3 DEF Loaded
<1>8. Typed'
  BY <1>1, <1>4, <1>5, <1>6, <1>7 DEF Typed
<1>9. Listed'
  <2>1. to # "prepared"
    OBVIOUS
  <2>. QED  BY <1>1, <1>2, <2>1, MovedListed
<1>10. \A l \in Stages : In(l) \subseteq Ids /\ In(l)' \subseteq Ids
  BY <1>8, ElementsOf DEF Typed, In
<1>11. Queued'
  <2>1. \A x \in InSeq(waiting') \cup In("init")' \cup In("memdone")' : item'[x].queue_id = -1
    <3>1. In("init")' = In("init") /\ In("memdone")' = In("memdone")
      BY <1>4 DEF Moves, Stages
    <3>2. InSeq(waiting) \subseteq Ids /\ In("init") \subseteq Ids /\ In("memdone") \subseteq Ids
      BY <1>10, ElementsOf DEF Typed, Stages
    <3>. QED  BY <1>1, <1>6, <3>1, <3>2 DEF Queued
  <2>. QED  BY <1>1, <1>6, <2>1, KeptQueued DEF Typed
<1>12. Loaded'
  <2>1. In("prepared")' = {}
    BY <1>3, <1>4 DEF Moves, Stages, Loaded
  <2>2. ASSUME NEW l \in Stages \ {"done"}, NEW x \in In(l)'
        PROVE  item'[x].s \in Services
    <3>1. x \in In(l) \cup In("prepared") /\ x \in Ids
      BY <1>3, <1>4, <1>10 DEF Moves
    <3>2. item[x].s \in Services
      BY <1>2, <3>1 DEF Loaded
    <3>. QED  BY <1>6, <3>1, <3>2
  <2>. QED  BY <2>1, <2>2 DEF Loaded
<1>13. Computed'
  <2>1. /\ In("running")' = IF to = "done" THEN In("running") ELSE In("running") \cup {r}
        /\ In("post_exec")' = In("post_exec")
        /\ In("done")' = IF to = "done" THEN In("done") \cup {r} ELSE In("done")
    BY <1>4 DEF Moves, Stages
  <2>2. In("done") \subseteq Ids
    BY <1>10 DEF Stages
  <2>3. \A x \in In("done")' : \/ x \in In("done") /\ item'[x].errcode = item[x].errcode
                               \/ item'[x].errcode # "OK"
    BY <1>6, <2>1, <2>2
  <2>. QED  BY <1>7, <2>1, <2>3, KeptResults
<1>. QED  BY <1>8, <1>9, <1>11, <1>12, <1>13

(* Request r takes the free queue q.                                       *)
LEMMA TakenQueued ==
    ASSUME Typed, Queued, NEW r \in all_reqs, item[r].queue_id = -1,
           NEW q \in FreeQueues(item[r].channel),
           Queueuses' = [Queueuses EXCEPT ![DeviceOf(item[r].channel)] = @ \cup {q}],
           \A o \in Ids : /\ item'[o].channel = item[o].channel
                          /\ item'[o].queue_id = IF o = r THEN q ELSE item[o].queue_id,
           UNCHANGED <<waiting, all_reqs>>,
           InSeq(waiting) \cup In("init")' \cup In("memdone")'
             \subseteq (InSeq(waiting) \cup In("init") \cup In("memdone")) \ {r},
           InSeq(waiting) \cup In("init") \cup In("memdone") \subseteq Ids
    PROVE  Queued'
<1>. DEFINE d == DeviceOf(item[r].channel)
<1>1. d \in 1 .. 3 /\ q \in 0 .. (MaxQueueNr - 1) /\ q \notin Queueuses[d] /\ all_reqs \subseteq Ids
  BY DEF DeviceOf, FreeQueues, Typed
<1>2. q # -1 /\ \A o \in all_reqs : ~Holds(o, d, q)
  BY <1>1, MaxQueueNrAssumption DEF Queued, Holds
<1>3. /\ Queueuses'[d] = Queueuses[d] \cup {q}
      /\ \A e \in (1 .. 3) \ {d} : Queueuses'[e] = Queueuses[e]
  BY <1>1 DEF Typed
<1>4. \A o \in all_reqs, e \in 1 .. 3, p \in 0 .. (MaxQueueNr - 1) :
        Holds(o, e, p)' <=> Holds(o, e, p) \/ (o = r /\ e = d /\ p = q)
  BY <1>1, MaxQueueNrAssumption DEF Holds
<1>5. \A e \in 1 .. 3 : Queueuses[e] \subseteq 0 .. (MaxQueueNr - 1)
  BY DEF Typed
<1>. HIDE DEF d
<1>6. ASSUME NEW e \in 1 .. 3, NEW p \in Queueuses'[e]
      PROVE  \E o \in all_reqs' : Holds(o, e, p)'
  <2>1. CASE e = d /\ p = q
    BY <1>1, <1>4, <2>1
  <2>2. CASE p \in Queueuses[e]
    <3>1. PICK o \in all_reqs : Holds(o, e, p)
      BY <2>2 DEF Queued
    <3>. QED  BY <1>4, <1>5, <2>2, <3>1
  <2>. QED  BY <1>3, <2>1, <2>2
<1>7. \A o \in all_reqs' : item'[o].queue_id # -1 =>
        item'[o].queue_id \in Queueuses'[DeviceOf(item'[o].channel)]
  <2>1. SUFFICES ASSUME NEW o \in all_reqs, item'[o].queue_id # -1
                 PROVE  item'[o].queue_id \in Queueuses'[DeviceOf(item[o].channel)]
    BY <1>1
  <2>2. CASE o = r
    BY <1>1, <1>3, <2>2 DEF d
  <2>3. CASE o # r
    <3>1. item[o].queue_id \in Queueuses[DeviceOf(item[o].channel)] /\ DeviceOf(item[o].channel) \in 1 .. 3
      BY <1>1, <2>1, <2>3 DEF Queued, DeviceOf
    <3>. QED  BY <1>1, <1>3, <2>3, <3>1
  <2>. QED  BY <2>2, <2>3
<1>8. \A e \in 1 .. 3, p \in 0 .. (MaxQueueNr - 1) : \A o, x \in all_reqs' :
        Holds(o, e, p)' /\ Holds(x, e, p)' => o = x
  BY <1>1, <1>2, <1>4 DEF Queued
<1>9. \A o \in InSeq(waiting') \cup In("init")' \cup In("memdone")' : item'[o].queue_id = -1
  BY DEF Queued
<1>. QED  BY <1>6, <1>7, <1>8, <1>9 DEF Queued

LEMMA ElementsTyped ==
    ASSUME Typed
    PROVE  InSeq(waiting) \subseteq Ids /\ \A l \in Stages : In(l) \subseteq Ids
<1>. QED  BY ElementsOf DEF Typed, In

LEMMA PrepareStep ==
    ASSUME IInv, NEW r \in Ids, kh_prepare_exec(r)
    PROVE  IInv'
<1>. USE DEF IInv
<1>1. Visit("prepare", r) /\ Goes /\ UNCHANGED <<waiting, all_reqs, computed>>
  BY DEF kh_prepare_exec, Goes
<1>2. /\ "prepare" \in DOMAIN Visited /\ Visited["prepare"] = "memdone"
      /\ "memdone" \in Stages /\ "prepared" \in Stages /\ "done" \in Stages
  BY DEF Visited, Stages
<1>3. r \in In("memdone") /\ pass = "prepare" /\ left # << >> /\ r \in all_reqs
  BY <1>1, <1>2, Visiting
<1>4. /\ left' \in Seq(Ids) /\ Distinct(left') /\ pass' = "prepare" /\ pass' \in DOMAIN Following
      /\ InSeq(left') \subseteq In("memdone") \ {r}
  BY <1>1, <1>2, LeftTyped
<1>5. CASE UNCHANGED <<lists, item, Queueuses, args>>
  <2>1. Typed'
    BY <1>1, <1>4, <1>5 DEF Typed
  <2>2. \A l : In(l)' = In(l)
    BY <1>5 DEF In
  <2>3. Listed'
    BY <1>1, <1>2, <1>3, <1>4, <1>5, <2>2 DEF Listed
  <2>4. Queued'
    BY <1>1, <1>5, <2>1, <2>2, KeptQueued DEF Typed, Queued
  <2>5. Loaded'
    BY <1>3, <1>4, <1>5, <2>2 DEF Loaded, KernelOf
  <2>6. Computed'
    BY <1>1, <1>5, <2>2 DEF Computed, ResultOwn
  <2>. QED  BY <2>1, <2>3, <2>4, <2>5, <2>6
<1>6. ASSUME NEW q \in FreeQueues(item[r].channel), NEW to \in {"prepared", "done"},
             Queueuses' = [Queueuses EXCEPT ![DeviceOf(item[r].channel)] = @ \cup {q}],
             IF to = "done"
             THEN Fail(r, "memdone", [item EXCEPT ![r].queue_id = q]) /\ UNCHANGED args
             ELSE /\ Move(r, "memdone", "prepared") /\ Stop
                  /\ item' = [item EXCEPT ![r].queue_id = q]
                  /\ args' = [args EXCEPT ![KernelOf(r)] = r]
      PROVE  IInv'
  <2>. DEFINE it == [item EXCEPT ![r].queue_id = q]
  <2>1. q \in 0 .. (MaxQueueNr - 1) /\ DeviceOf(item[r].channel) \in 1 .. 3
    BY DEF FreeQueues, DeviceOf
  <2>2. /\ it \in [Ids -> Item]
        /\ \A o \in Ids : /\ it[o].s = item[o].s /\ it[o].channel = item[o].channel
                          /\ it[o].queue_id = IF o = r THEN q ELSE item[o].queue_id
                          /\ o # r => it[o] = item[o]
    <3>1. item \in [Ids -> Item] /\ q \in -1 .. (MaxQueueNr - 1)
      BY <2>1, MaxQueueNrAssumption DEF Typed
    <3>2. \A x \in Item : /\ [x EXCEPT !.queue_id = q] \in Item
                         /\ [x EXCEPT !.queue_id = q].s = x.s
                         /\ [x EXCEPT !.queue_id = q].channel = x.channel
                         /\ [x EXCEPT !.queue_id = q].queue_id = q
      BY <3>1 DEF Item
    <3>3. it = [item EXCEPT ![r] = [item[r] EXCEPT !.queue_id = q]]
      OBVIOUS
    <3>. HIDE DEF it
    <3>. QED  BY <3>1, <3>2, <3>3
  <2>. HIDE DEF it
  <2>3. Move(r, "memdone", to)
    BY <1>6 DEF Fail
  <2>4. lists' \in [Stages -> Seq(Ids)] /\ Moves(r, "memdone", to)
    BY <1>2, <1>3, <2>3, Moved
  <2>5. /\ item' \in [Ids -> Item]
        /\ \A o \in Ids : /\ item'[o].s = item[o].s /\ item'[o].channel = item[o].channel
                          /\ item'[o].queue_id = IF o = r THEN q ELSE item[o].queue_id
                          /\ o # r => item'[o] = item[o]
        /\ to = "done" => item'[r].errcode = "error"
    <3>1. CASE to = "done"
      <4>1. Fail(r, "memdone", it)
        BY <1>6, <3>1 DEF it
      <4>2. /\ item' \in [Ids -> Item]
            /\ \A o \in Ids : /\ item'[o].s = it[o].s /\ item'[o].channel = it[o].channel
                              /\ item'[o].queue_id = it[o].queue_id
                              /\ o # r => item'[o] = it[o]
            /\ item'[r].errcode = "error"
        BY <1>2, <2>2, <4>1, Failed
      <4>. QED  BY <2>2, <4>2
    <3>2. CASE to # "done"
      BY <1>6, <2>2, <3>2 DEF it
    <3>. QED  BY <3>1, <3>2
  <2>6. args' \in [Kernels -> Ids \cup {None}]
    BY <1>6 DEF Typed
  <2>7. Typed'
    BY <1>1, <1>4, <1>6, <2>1, <2>4, <2>5, <2>6 DEF Typed
  <2>8. Listed'
    <3>1. to # "memdone" /\ to \in Stages
      BY <1>2
    <3>. QED  BY <1>1, <1>2, <2>3, <3>1, MovedListed
  <2>9. /\ \A l \in Stages : In(l) \subseteq Ids /\ In(l)' \subseteq Ids
        /\ InSeq(waiting) \subseteq Ids
    BY <2>7, ElementsTyped, ElementsOf DEF Typed, In
  <2>10. Queued'
    <3>1. In("init")' = In("init") /\ In("memdone")' = In("memdone") \ {r}
      BY <2>4 DEF Moves, Stages
    <3>2. r \notin InSeq(waiting) /\ r \notin In("init") /\ "init" \in Stages
      BY <1>3 DEF Listed, Stages
    <3>3. InSeq(waiting) \cup In("init")' \cup In("memdone")'
             \subseteq (InSeq(waiting) \cup In("init") \cup In("memdone")) \ {r}
      BY <3>1, <3>2
    <3>4. InSeq(waiting) \cup In("init") \cup In("memdone") \subseteq Ids
      BY <1>2, <2>9, <3>2
    <3>5. item[r].queue_id = -1
      BY <1>3 DEF Queued
    <3>. QED  BY <1>1, <1>3, <1>6, <2>5, <3>3, <3>4, <3>5, TakenQueued
  <2>11. Loaded'
    <3>1. In("prepared") = {}
      BY <1>3 DEF Loaded
    <3>2. In("prepared")' = IF to = "done" THEN {} ELSE {r}
      BY <2>4, <3>1 DEF Moves, Stages
    <3>3. ASSUME NEW l \in Stages \ {"done"}, NEW x \in In(l)'
          PROVE  item'[x].s \in Services
      <4>1. x \in In(l) \cup In("memdone") /\ x \in Ids
        BY <1>3, <2>4, <2>9 DEF Moves
      <4>2. item[x].s \in Services
        BY <1>2, <4>1 DEF Loaded
      <4>. QED  BY <2>5, <4>1, <4>2
    <3>4. KernelOf(r)' = KernelOf(r) /\ KernelOf(r) \in Kernels
      <4>1. item[r].s \in Services
        BY <1>2, <1>3 DEF Loaded
      <4>. QED  BY <2>5, <4>1 DEF KernelOf, Kernels, PlatformOf
    <3>5. \A x \in In("prepared")' : args'[KernelOf(x)'] = x
      <4>1. CASE to = "done"
        BY <3>2, <4>1
      <4>2. CASE to # "done"
        <5>1. args' = [args EXCEPT ![KernelOf(r)] = r]
          BY <1>6, <4>2
        <5>2. args'[KernelOf(r)] = r
          BY <3>4, <5>1 DEF Typed
        <5>. QED  BY <3>2, <3>4, <4>2, <5>2
      <4>. QED  BY <4>1, <4>2
    <3>6. left' # << >> => In("prepared")' = {}
      BY <1>6, <3>2 DEF Stop
    <3>. QED  BY <1>4, <3>2, <3>3, <3>5, <3>6 DEF Loaded
  <2>12. Computed'
    <3>1. /\ In("running")' = In("running") /\ In("post_exec")' = In("post_exec")
          /\ In("done")' = IF to = "done" THEN In("done") \cup {r} ELSE In("done")
      BY <2>4 DEF Moves, Stages
    <3>2. In("done") \subseteq Ids /\ r \notin In("done")
      BY <1>2, <1>3, <2>9 DEF Listed
    <3>3. \A x \in In("done")' : \/ x \in In("done") /\ item'[x].errcode = item[x].errcode
                                 \/ item'[x].errcode # "OK"
      BY <2>5, <3>1, <3>2
    <3>. QED  BY <1>1, <3>1, <3>3, KeptResults
  <2>. QED  BY <2>7, <2>8, <2>10, <2>11, <2>12
<1>7. \/ UNCHANGED <<lists, item, Queueuses, args>>
      \/ \E q \in FreeQueues(item[r].channel), to \in {"prepared", "done"} :
             /\ Queueuses' = [Queueuses EXCEPT ![DeviceOf(item[r].channel)] = @ \cup {q}]
             /\ IF to = "done"
                THEN Fail(r, "memdone", [item EXCEPT ![r].queue_id = q]) /\ UNCHANGED args
                ELSE /\ Move(r, "memdone", "prepared") /\ Stop
                     /\ item' = [item EXCEPT ![r].queue_id = q]
                     /\ args' = [args EXCEPT ![KernelOf(r)] = r]
  BY DEF kh_prepare_exec
<1>. QED  BY <1>5, <1>6, <1>7

LEMMA AllocStep ==
    ASSUME IInv, NEW r \in Ids, kh_request_alloc_mem(r)
    PROVE  IInv'
<1>. USE DEF IInv
<1>1. /\ Visit("alloc", r) /\ Goes /\ Move(r, "init", "memdone")
      /\ UNCHANGED <<waiting, all_reqs, item, Queueuses, args, computed>>
  BY DEF kh_request_alloc_mem, Goes
<1>2. "alloc" \in DOMAIN Visited /\ Visited["alloc"] = "init" /\ "init" \in Stages /\ "memdone" \in Stages
  BY DEF Visited, Stages
<1>3. r \in In("init") /\ pass = "alloc"
  BY <1>1, <1>2, Visiting
<1>4. lists' \in [Stages -> Seq(Ids)] /\ Moves(r, "init", "memdone")
  BY <1>1, <1>2, <1>3, Moved
<1>5. left' \in Seq(Ids) /\ pass' = "alloc" /\ pass' \in DOMAIN Following
  BY <1>1, <1>2, LeftTyped
<1>6. Typed'
  BY <1>1, <1>4, <1>5 DEF Typed
<1>7. Listed'
  BY <1>1, <1>2, MovedListed
<1>8. Queued'
  <2>1. \A x \in InSeq(waiting') \cup In("init")' \cup In("memdone")' : item'[x].queue_id = -1
    BY <1>1, <1>3, <1>4 DEF Moves, Stages, Queued
  <2>. QED  BY <1>1, <1>6, <2>1, KeptQueued DEF Typed
<1>9. Loaded'
  <2>1. In("prepared")' = In("prepared") /\ \A l \in Stages \ {"done"} : In(l)' \subseteq In(l) \cup In("init")
    BY <1>3, <1>4 DEF Moves, Stages
  <2>. QED  BY <1>1, <1>2, <1>5, <2>1 DEF Loaded, KernelOf
<1>10. Computed'
  <2>1. In("running")' = In("running") /\ In("post_exec")' = In("post_exec") /\ In("done")' = In("done")
    BY <1>4 DEF Moves, Stages
  <2>. QED  BY <1>1, <2>1, KeptResults
<1>. QED  BY <1>6, <1>7, <1>8, <1>9, <1>10

LEMMA DoneStep ==
    ASSUME IInv, NEW r \in Ids, kh_service_done(r)
    PROVE  IInv'
<1>. USE DEF IInv
<1>1. /\ Visit("done", r) /\ Goes
      /\ lists' = [lists EXCEPT !["done"] = Without(@, r)]
      /\ all_reqs' = all_reqs \ {r}
      /\ Queueuses' = [Queueuses EXCEPT ![DeviceOf(item[r].channel)] = @ \ {item[r].queue_id}]
      /\ item' = [item EXCEPT ![r] = Blank]
      /\ UNCHANGED <<waiting, args, computed>>
  BY DEF kh_service_done, gpu_free_cmdQueue, Goes
<1>2. "done" \in DOMAIN Visited /\ Visited["done"] = "done" /\ "done" \in Stages
  BY DEF Visited, Stages
<1>3. r \in In("done") /\ pass = "done" /\ r \in all_reqs /\ Distinct(lists["done"])
  BY <1>1, <1>2, Visiting
<1>4. /\ left' \in Seq(Ids) /\ Distinct(left') /\ pass' = "done" /\ pass' \in DOMAIN Following
      /\ InSeq(left') \subseteq In("done") \ {r}
  BY <1>1, <1>2, LeftTyped
<1>5. /\ Without(lists["done"], r) \in Seq(Ids) /\ Distinct(Without(lists["done"], r))
      /\ InSeq(Without(lists["done"], r)) = In("done") \ {r}
  BY <1>2, <1>3, WithoutList DEF Typed, In
<1>6. /\ lists' \in [Stages -> Seq(Ids)]
      /\ lists'["done"] = Without(lists["done"], r)
      /\ \A l \in Stages \ {"done"} : lists'[l] = lists[l]
  BY <1>1, <1>2, <1>5 DEF Typed
<1>7. \A l \in Stages : In(l)' = In(l) \ {r}
  <2>1. In("done")' = In("done") \ {r}
    BY <1>5, <1>6 DEF In
  <2>2. ASSUME NEW l \in Stages \ {"done"}
        PROVE  In(l)' = In(l) /\ r \notin In(l)
    BY <1>2, <1>3, <1>6 DEF In, Listed
  <2>. QED  BY <2>1, <2>2
<1>8. Blank \in Item /\ Blank.queue_id = -1
  BY MaxQueueNrAssumption DEF Blank, Item
<1>9. item' \in [Ids -> Item] /\ \A o \in Ids \ {r} : item'[o] = item[o]
  BY <1>1, <1>8 DEF Typed
<1>10. DeviceOf(item[r].channel) \in 1 .. 3
  BY DEF DeviceOf
<1>11. /\ Queueuses' \in [1 .. 3 -> SUBSET (0 .. (MaxQueueNr - 1))]
       /\ \A d \in 1 .. 3 : Queueuses'[d] =
             IF d = DeviceOf(item[r].channel) THEN Queueuses[d] \ {item[r].queue_id} ELSE Queueuses[d]
  BY <1>1, <1>10 DEF Typed
<1>12. Typed'
  BY <1>1, <1>4, <1>6, <1>9, <1>11 DEF Typed
<1>13. Listed'
  <2>1. \A l \in Stages : Distinct(lists'[l]) /\ In(l)' \subseteq all_reqs'
    BY <1>1, <1>5, <1>6, <1>7 DEF Listed
  <2>2. \A l, m \in Stages : \A x \in In(l)' : x \in In(m)' => l = m
    BY <1>7 DEF Listed
  <2>3. \A x \in all_reqs' : \E l \in Stages : x \in In(l)'
    BY <1>1, <1>7 DEF Listed
  <2>4. pass' # "next" /\ Visited[pass'] = "done" /\ InSeq(left') \subseteq In("done")'
    BY <1>2, <1>4, <1>7
  <2>. QED  BY <1>1, <1>4, <2>1, <2>2, <2>3, <2>4 DEF Listed
<1>14. all_reqs \subseteq Ids /\ InSeq(waiting) \subseteq Ids /\ \A l \in Stages : In(l) \subseteq Ids
  BY ElementsTyped DEF Typed
<1>15. Queued'
  <2>1. \A o \in all_reqs', d \in 1 .. 3, q \in Int : Holds(o, d, q)' <=> Holds(o, d, q)
    BY <1>1, <1>9, <1>14 DEF Holds
  <2>2. ASSUME NEW d \in 1 .. 3, NEW q \in Queueuses'[d]
        PROVE  \E o \in all_reqs' : Holds(o, d, q)'
    <3>1. q \in Queueuses[d] /\ q \in Int /\ ~Holds(r, d, q)
      BY <1>11 DEF Typed, Holds
    <3>2. PICK o \in all_reqs : Holds(o, d, q)
      BY <3>1 DEF Queued
    <3>. QED  BY <1>1, <2>1, <3>1, <3>2
  <2>3. ASSUME NEW o \in all_reqs', item'[o].queue_id # -1
        PROVE  item'[o].queue_id \in Queueuses'[DeviceOf(item'[o].channel)]
    <3>1. item'[o] = item[o] /\ o \in all_reqs /\ o # r
      BY <1>1, <1>9, <1>14
    <3>. DEFINE d == DeviceOf(item[o].channel)
                q == item[o].queue_id
    <3>2. q \in Queueuses[d] /\ d \in 1 .. 3
      BY <2>3, <3>1 DEF Queued, DeviceOf
    <3>3. q \in 0 .. (MaxQueueNr - 1) /\ Holds(o, d, q)
      BY <3>2 DEF Typed, Holds
    <3>4. ~Holds(r, d, q)
      BY <1>3, <3>1, <3>2, <3>3 DEF Queued
    <3>5. q \in Queueuses'[d]
      BY <1>11, <3>2, <3>4 DEF Holds
    <3>. QED  BY <3>1, <3>5
  <2>4. \A d \in 1 .. 3, q \in 0 .. (MaxQueueNr - 1) : \A o, x \in all_reqs' :
          Holds(o, d, q)' /\ Holds(x, d, q)' => o = x
    BY <1>1, <2>1 DEF Queued
  <2>5. \A o \in InSeq(waiting') \cup In("init")' \cup In("memdone")' : item'[o].queue_id = -1
    <3>1. "init" \in Stages /\ "memdone" \in Stages
      BY DEF Stages
    <3>2. \A o \in InSeq(waiting) : o # r
      BY <1>3 DEF Listed
    <3>. QED  BY <1>1, <1>7, <1>9, <1>14, <3>1, <3>2 DEF Queued
  <2>. QED  BY <2>2, <2>3, <2>4, <2>5 DEF Queued
<1>16. Loaded'
  <2>1. ASSUME NEW l \in Stages \ {"done"}
        PROVE  In(l)' = In(l) /\ \A x \in In(l) : x \in Ids /\ item'[x] = item[x]
    BY <1>2, <1>3, <1>7, <1>9, <1>14 DEF Listed
  <2>2. "prepared" \in Stages \ {"done"}
    BY DEF Stages
  <2>3. \A l \in Stages \ {"done"} : \A x \in In(l)' : item'[x].s \in Services
    BY <2>1 DEF Loaded
  <2>4. \A x \in In("prepared")' : args'[KernelOf(x)'] = x
    BY <1>1, <2>1, <2>2 DEF Loaded, KernelOf
  <2>5. \A x, y \in In("prepared")' : x = y
    BY <2>1, <2>2 DEF Loaded
  <2>. QED  BY <1>4, <2>3, <2>4, <2>5 DEF Loaded
<1>17. Computed'
  <2>1. "running" \in Stages /\ "post_exec" \in Stages
    BY DEF Stages
  <2>2. \A x \in In("done")' : x \in In("done") /\ item'[x] = item[x]
    BY <1>2, <1>7, <1>9, <1>14
  <2>. QED  BY <1>1, <1>7, <2>1, <2>2, KeptResults
<1>. QED  BY <1>12, <1>13, <1>15, <1>16, <1>17

LEMMA BeginList ==
    ASSUME Typed, Listed, lists' \in [Stages -> Seq(Ids)], NEW p \in DOMAIN Following,
           \A l \in Stages : Distinct(lists'[l]), Begin(p, lists')
    PROVE  /\ left' \in Seq(Ids) /\ Distinct(left') /\ pass' = p
           /\ IF p = "next" THEN left' = << >> ELSE left' = lists'[Visited[p]] /\ InSeq(left') = In(Visited[p])'
<1>1. CASE p = "next"
  BY <1>1, EmptyList DEF Begin
<1>2. CASE p # "next"
  <2>1. Visited[p] \in Stages
    BY <1>2 DEF Following, Visited, Stages
  <2>. QED  BY <1>2, <2>1 DEF Begin, In
<1>. QED  BY <1>1, <1>2

LEMMA TurnStep ==
    ASSUME IInv, turn \/ kh_get_nothing
    PROVE  IInv'
<1>. USE DEF IInv
<1>1. PICK p \in DOMAIN Following :
        /\ Begin(p, lists') /\ (p = "prepare" => pass = "launch" /\ left = << >>)
        /\ UNCHANGED <<waiting, lists, all_reqs, item, Queueuses, args, computed>>
  <2>1. pass \in DOMAIN Following
    BY DEF Typed
  <2>2. CASE turn
    BY <2>1, <2>2 DEF turn, Following
  <2>3. CASE kh_get_nothing
    <3>1. "done" \in DOMAIN Following
      BY DEF Following
    <3>. QED  BY <2>3, <3>1 DEF kh_get_nothing
  <2>. QED  BY <2>2, <2>3
<1>2. lists' \in [Stages -> Seq(Ids)] /\ \A l \in Stages : Distinct(lists'[l])
  BY <1>1 DEF Typed, Listed
<1>3. /\ left' \in Seq(Ids) /\ Distinct(left') /\ pass' = p
      /\ IF p = "next" THEN left' = << >> ELSE left' = lists'[Visited[p]] /\ InSeq(left') = In(Visited[p])'
  BY <1>1, <1>2, BeginList
<1>4. \A l : In(l)' = In(l)
  BY <1>1 DEF In
<1>5. Typed'
  BY <1>1, <1>3 DEF Typed
<1>6. Listed'
  BY <1>1, <1>3, <1>4 DEF Listed
<1>7. Queued'
  BY <1>1, <1>4, <1>5, KeptQueued DEF Typed, Queued
<1>8. Loaded'
  <2>1. p = "launch" => In("prepared")' \subseteq InSeq(left')
    BY <1>3 DEF Visited
  <2>2. p = "prepare" => In("prepared")' = {}
    BY <1>1, <1>4, EmptyList DEF Loaded
  <2>. QED  BY <1>1, <1>3, <1>4, <2>1, <2>2 DEF Loaded, KernelOf
<1>9. Computed'
  BY <1>1, <1>4, KeptResults
<1>. QED  BY <1>5, <1>6, <1>7, <1>8, <1>9

LEMMA InitServiceStep ==
    ASSUME IInv, NEW r \in Ids, kh_init_service_request(r)
    PROVE  IInv'
<1>. USE DEF IInv
<1>. DEFINE known == item[r].s # NoService
<1>1. PICK to \in {"init", "done"} :
        /\ to = IF known THEN "init" ELSE "done"
        /\ pass = "next" /\ waiting # << >> /\ r = Head(waiting) /\ waiting' = Tail(waiting)
        /\ all_reqs' = all_reqs \cup {r}
        /\ lists' = [lists EXCEPT ![to] = Append(@, r)]
        /\ item' = [item EXCEPT ![r].errcode = IF known THEN "OK" ELSE "NO_SERVICE"]
        /\ Begin("done", lists')
        /\ UNCHANGED <<Queueuses, args, computed>>
  BY DEF kh_init_service_request
<1>2. /\ Tail(waiting) \in Seq(Ids) /\ r \in InSeq(waiting) /\ InSeq(Tail(waiting)) \subseteq InSeq(waiting)
      /\ r \notin InSeq(Tail(waiting)) /\ Distinct(Tail(waiting))
  BY <1>1, TailList DEF Typed, Listed
<1>3. r \notin all_reqs /\ to \in Stages /\ \A l \in Stages : r \notin In(l)
  BY <1>2 DEF Listed, Stages
<1>4. /\ Append(lists[to], r) \in Seq(Ids) /\ Distinct(Append(lists[to], r))
      /\ InSeq(Append(lists[to], r)) = In(to) \cup {r}
  BY <1>3, AppendList DEF Typed, Listed, In
<1>5. /\ lists' \in [Stages -> Seq(Ids)] /\ lists'[to] = Append(lists[to], r)
      /\ \A l \in Stages \ {to} : lists'[l] = lists[l]
  BY <1>1, <1>3, <1>4 DEF Typed
<1>6. \A l \in Stages : In(l)' = IF l = to THEN In(l) \cup {r} ELSE In(l)
  BY <1>4, <1>5 DEF In
<1>7. \A l \in Stages : Distinct(lists'[l])
  BY <1>4, <1>5 DEF Listed
<1>8. left' \in Seq(Ids) /\ Distinct(left') /\ pass' = "done" /\ InSeq(left') = In("done")'
  <2>1. "done" \in DOMAIN Following /\ Visited["done"] = "done"
    BY DEF Following, Visited
  <2>. QED  BY <1>1, <1>5, <1>7, <2>1, BeginList
<1>9. /\ item' \in [Ids -> Item]
      /\ \A o \in Ids : /\ item'[o].s = item[o].s /\ item'[o].channel = item[o].channel
                        /\ item'[o].queue_id = item[o].queue_id
                        /\ o # r => item'[o] = item[o]
      /\ to = "done" => item'[r].errcode = "NO_SERVICE"
  <2>. DEFINE e == IF known THEN "OK" ELSE "NO_SERVICE"
  <2>1. item' = [item EXCEPT ![r] = [item[r] EXCEPT !.errcode = e]] /\ e \in {"OK", "NO_SERVICE"}
    BY <1>1
  <2>2. \A x \in Item : /\ [x EXCEPT !.errcode = e] \in Item
                       /\ [x EXCEPT !.errcode = e].s = x.s
                       /\ [x EXCEPT !.errcode = e].channel = x.channel
                       /\ [x EXCEPT !.errcode = e].queue_id = x.queue_id
                       /\ [x EXCEPT !.errcode = e].errcode = e
    BY <2>1 DEF Item
  <2>3. to = "done" => e = "NO_SERVICE"
    BY <1>1
  <2>. HIDE DEF e
  <2>. QED  BY <2>1, <2>2, <2>3 DEF Typed
<1>10. Typed'
  <2>1. pass' \in DOMAIN Following
    BY <1>8 DEF Following
  <2>. QED  BY <1>1, <1>2, <1>5, <1>8, <1>9, <2>1 DEF Typed
<1>11. Listed'
  <2>1. Distinct(waiting') /\ InSeq(waiting') \cap all_reqs' = {}
    BY <1>1, <1>2 DEF Listed
  <2>2. \A l \in Stages : In(l)' \subseteq all_reqs'
    BY <1>1, <1>6 DEF Listed
  <2>3. \A l, m \in Stages : \A x \in In(l)' : x \in In(m)' => l = m
    BY <1>3, <1>6 DEF Listed
  <2>4. \A x \in all_reqs' : \E l \in Stages : x \in In(l)'
    BY <1>1, <1>3, <1>6 DEF Listed
  <2>5. pass' # "next" /\ Visited[pass'] = "done"
    BY <1>8 DEF Visited
  <2>. QED  BY <1>7, <1>8, <2>1, <2>2, <2>3, <2>4, <2>5 DEF Listed
<1>12. InSeq(waiting) \subseteq Ids /\ (\A l \in Stages : In(l) \subseteq Ids) /\ all_reqs \subseteq Ids
  BY ElementsTyped DEF Typed
<1>13. Queued'
  <2>1. item[r].queue_id = -1
    BY <1>2 DEF Queued
  <2>2. \A o \in all_reqs', d \in 1 .. 3, q \in Int : Holds(o, d, q)' <=> Holds(o, d, q)
    BY <1>1, <1>9, <1>12 DEF Holds
  <2>3. \A d \in 1 .. 3, q \in 0 .. (MaxQueueNr - 1) : q \in Int /\ ~Holds(r, d, q)
    BY <2>1, MaxQueueNrAssumption DEF Holds
  <2>4. \A d \in 1 .. 3 : Queueuses'[d] = Queueuses[d] /\ Queueuses[d] \subseteq Int
    BY <1>1 DEF Typed
  <2>5. \A d \in 1 .. 3 : \A q \in Queueuses'[d] : \E o \in all_reqs' : Holds(o, d, q)'
    BY <1>1, <2>2, <2>4 DEF Queued
  <2>6. \A o \in all_reqs' : item'[o].queue_id # -1 =>
          item'[o].queue_id \in Queueuses'[DeviceOf(item'[o].channel)]
    BY <1>1, <1>9, <1>12, <2>1 DEF Queued
  <2>7. \A d \in 1 .. 3, q \in 0 .. (MaxQueueNr - 1) : \A o, x \in all_reqs' :
          Holds(o, d, q)' /\ Holds(x, d, q)' => o = x
    BY <1>1, <2>2, <2>3 DEF Queued
  <2>8. \A o \in InSeq(waiting') \cup In("init")' \cup In("memdone")' : item'[o].queue_id = -1
    <3>1. "init" \in Stages /\ "memdone" \in Stages
      BY DEF Stages
    <3>. QED  BY <1>1, <1>2, <1>6, <1>9, <1>12, <2>1, <3>1 DEF Queued
  <2>. QED  BY <2>5, <2>6, <2>7, <2>8 DEF Queued
<1>14. Loaded'
  <2>1. In("prepared")' = In("prepared") /\ "prepared" \in Stages
    BY <1>6 DEF Stages
  <2>2. ASSUME NEW l \in Stages \ {"done"}, NEW x \in In(l)'
        PROVE  item'[x].s \in Services
    <3>1. CASE x \in In(l)
      BY <1>9, <1>12, <3>1 DEF Loaded
    <3>2. CASE x \notin In(l)
      <4>1. x = r /\ known
        BY <1>1, <1>6, <3>2
      <4>2. item[r].s \in Services
        BY <4>1 DEF Typed, Item
      <4>. QED  BY <1>9, <4>1, <4>2
    <3>. QED  BY <3>1, <3>2
  <2>3. \A x \in In("prepared") : KernelOf(x)' = KernelOf(x)
    BY <1>9, <1>12, <2>1 DEF KernelOf
  <2>. QED  BY <1>1, <1>8, <2>1, <2>2, <2>3 DEF Loaded
<1>15. Computed'
  <2>1. /\ In("running")' = In("running") /\ In("post_exec")' = In("post_exec")
        /\ In("done")' = IF to = "done" THEN In("done") \cup {r} ELSE In("done")
    BY <1>6 DEF Stages
  <2>2. \A x \in In("done") : x \in Ids /\ x # r
    BY <1>3, <1>12 DEF Stages
  <2>. QED  BY <1>1, <1>9, <2>1, <2>2, KeptResults
<1>. QED  BY <1>10, <1>11, <1>13, <1>14, <1>15

LEMMA OffloadStep ==
    ASSUME IInv, NEW r \in Ids, NEW s \in Services \cup {NoService}, NEW ch \in Channels, offload(r, s, ch)
    PROVE  IInv'
<1>. USE DEF IInv
<1>1. /\ r \notin InSeq(waiting) /\ r \notin all_reqs
      /\ waiting' = Append(waiting, r)
      /\ item' = [item EXCEPT ![r] = [Blank EXCEPT !.s = s, !.channel = ch]]
      /\ computed' = computed \ {r}
      /\ UNCHANGED <<lists, all_reqs, Queueuses, args, pass, left>>
  BY DEF offload, Pending
<1>2. /\ waiting' \in Seq(Ids) /\ InSeq(waiting') = InSeq(waiting) \cup {r} /\ Distinct(waiting')
  BY <1>1, AppendList DEF Typed, Listed
<1>3. /\ item' \in [Ids -> Item] /\ item'[r].queue_id = -1
      /\ \A o \in Ids \ {r} : item'[o] = item[o]
  <2>1. [Blank EXCEPT !.s = s, !.channel = ch] \in Item /\ [Blank EXCEPT !.s = s, !.channel = ch].queue_id = -1
    <3>1. \A x \in Item : /\ [x EXCEPT !.s = s, !.channel = ch] \in Item
                         /\ [x EXCEPT !.s = s, !.channel = ch].queue_id = x.queue_id
      BY DEF Item
    <3>2. Blank \in Item /\ Blank.queue_id = -1
      BY MaxQueueNrAssumption DEF Blank, Item
    <3>. QED  BY <3>1, <3>2
  <2>. QED  BY <1>1, <2>1 DEF Typed
<1>4. \A l \in Stages : In(l)' = In(l) /\ r \notin In(l) /\ In(l) \subseteq Ids
  BY <1>1, ElementsTyped DEF Listed, In
<1>5. all_reqs \subseteq Ids
  BY DEF Typed
<1>6. Typed'
  BY <1>1, <1>2, <1>3 DEF Typed
<1>7. Listed'
  <2>1. InSeq(waiting') \cap all_reqs' = {}
    BY <1>1, <1>2 DEF Listed
  <2>2. \A l \in Stages : Distinct(lists'[l]) /\ In(l)' \subseteq all_reqs'
    BY <1>1, <1>4 DEF Listed
  <2>3. \A l, m \in Stages : \A x \in In(l)' : x \in In(m)' => l = m
    BY <1>4 DEF Listed
  <2>4. \A x \in all_reqs' : \E l \in Stages : x \in In(l)'
    BY <1>1, <1>4 DEF Listed
  <2>5. IF pass' = "next" THEN left' = << >> ELSE InSeq(left') \subseteq In(Visited[pass])'
    BY <1>1 DEF Listed, In
  <2>6. Distinct(left')
    BY <1>1 DEF Listed
  <2>. QED  BY <1>1, <1>2, <2>1, <2>2, <2>3, <2>4, <2>5, <2>6 DEF Listed
<1>8. Queued'
  <2>1. \A x \in InSeq(waiting') \cup In("init")' \cup In("memdone")' : item'[x].queue_id = -1
    <3>1. "init" \in Stages /\ "memdone" \in Stages /\ InSeq(waiting) \subseteq Ids
      BY ElementsTyped DEF Stages
    <3>. QED  BY <1>1, <1>2, <1>3, <1>4, <3>1 DEF Queued
  <2>2. \A o \in all_reqs : item'[o].channel = item[o].channel /\ item'[o].queue_id = item[o].queue_id
    BY <1>1, <1>3, <1>5
  <2>. QED  BY <1>1, <1>3, <2>1, <2>2, KeptQueued
<1>9. Loaded'
  <2>1. \A l \in Stages : \A x \in In(l)' : x \in In(l) /\ item'[x] = item[x]
    BY <1>3, <1>4
  <2>2. "prepared" \in Stages
    BY DEF Stages
  <2>. QED  BY <1>1, <1>4, <2>1, <2>2 DEF Loaded, KernelOf
<1>10. Computed'
  <2>1. "running" \in Stages /\ "post_exec" \in Stages /\ "done" \in Stages
    BY DEF Stages
  <2>2. In("running")' \cup In("post_exec")' \subseteq computed'
    BY <1>1, <1>4, <2>1 DEF Computed
  <2>3. \A x \in In("done")' : item'[x].errcode = "OK" => x \in computed'
    BY <1>1, <1>3, <1>4, <2>1 DEF Computed, ResultOwn, In
  <2>. QED  BY <2>2, <2>3 DEF Computed, ResultOwn, In
<1>. QED  BY <1>6, <1>7, <1>8, <1>9, <1>10

LEMMA NextHolds == IInv /\ [Next]_vars => IInv'
<1>1. ASSUME IInv, HelperStep
      PROVE  IInv'
  <2>1. CASE turn \/ kh_get_nothing
    BY <1>1, <2>1, TurnStep
  <2>2. ASSUME NEW r \in Ids,
               \/ kh_service_done(r) \/ kh_finish_post(r) \/ kh_post_exec(r)
               \/ kh_launch_exec(r) \/ kh_prepare_exec(r) \/ kh_request_alloc_mem(r)
               \/ kh_init_service_request(r)
        PROVE  IInv'
    BY <1>1, <2>2, DoneStep, FinishPostStep, PostExecStep, LaunchStep, PrepareStep,
       AllocStep, InitServiceStep
  <2>. QED  BY <1>1, <2>1, <2>2 DEF HelperStep
<1>2. ASSUME IInv, Offload
      PROVE  IInv'
  BY <1>2, OffloadStep DEF Offload
<1>3. ASSUME IInv, UNCHANGED vars
      PROVE  IInv'
  <2>1. \A l : In(l)' = In(l)
    BY <1>3 DEF vars, In
  <2>2. Typed'
    BY <1>3 DEF vars, IInv, Typed
  <2>3. Listed'
    BY <1>3, <2>1 DEF vars, IInv, Listed
  <2>4. Queued'
    BY <1>3, <2>1, <2>2, KeptQueued DEF vars, IInv, Typed, Queued
  <2>5. Loaded'
    BY <1>3, <2>1 DEF vars, IInv, Loaded, KernelOf
  <2>6. Computed'
    BY <1>3, <2>1, KeptResults DEF vars, IInv
  <2>. QED  BY <2>2, <2>3, <2>4, <2>5, <2>6 DEF IInv
<1>. QED  BY <1>1, <1>2, <1>3 DEF Next

-----------------------------------------------------------------------------
(* The inductive invariant holds in every state of helper.c's main loop.   *)
THEOREM IInvAlways == Spec => []IInv
<1>. QED  BY InitHolds, NextHolds, PTL DEF Spec

(* Whatever the passes, the failures and the supply of queues: a request   *)
(* that kh_get_next_service_request read is in one list, once, until       *)
(* kh_service_done answers it, and each command queue of gpuops.c that is  *)
(* taken has exactly one holder among these requests.                      *)
THEOREM QueuesAlwaysAccounted == Spec => []QueuesAccounted
<1>1. ASSUME IInv
      PROVE  QueuesAccounted
  <2>. USE <1>1 DEF IInv
  <2>1. \A l \in Stages : lists[l] \in Seq(Ids) /\ DOMAIN lists[l] = 1..Len(lists[l])
    BY ElementsOf DEF Typed
  <2>2. ASSUME NEW r \in all_reqs
        PROVE  Cardinality(Places(r)) = 1
    <3>1. PICK l \in Stages : r \in In(l)
      BY DEF Listed
    <3>2. PICK j \in DOMAIN lists[l] : lists[l][j] = r
      BY <3>1 DEF In, InSeq
    <3>3. Places(r) = {<<l, j>>}
      <4>1. <<l, j>> \in Places(r)
        BY <3>2 DEF Places
      <4>2. ASSUME NEW m \in Stages, NEW k \in DOMAIN lists[m], lists[m][k] = r
            PROVE  m = l /\ k = j
        <5>1. r \in In(m)
          BY <4>2 DEF In, InSeq
        <5>2. m = l
          BY <3>1, <5>1 DEF Listed
        <5>. QED  BY <3>2, <4>2, <5>2 DEF Listed, Distinct
      <4>. QED  BY <4>1, <4>2 DEF Places
    <3>. QED  BY <3>3, FS_Singleton
  <2>3. ASSUME NEW r \in Ids, r \notin all_reqs
        PROVE  Cardinality(Places(r)) = 0
    <3>1. \A l \in Stages : \A j \in DOMAIN lists[l] : lists[l][j] # r
      BY <2>3 DEF Listed, In, InSeq
    <3>2. Places(r) = {}
      BY <3>1 DEF Places
    <3>. QED  BY <3>2, FS_EmptySet
  <2>4. ASSUME NEW d \in 1 .. 3, NEW q \in Queueuses[d]
        PROVE  Cardinality(Holders(d, q)) = 1
    <3>1. q \in 0 .. (MaxQueueNr - 1)
      BY DEF Typed
    <3>2. PICK r \in all_reqs : Holds(r, d, q)
      BY DEF Queued
    <3>3. Holders(d, q) = {r}
      BY <3>1, <3>2 DEF Queued, Holders, Holds
    <3>. QED  BY <3>3, FS_Singleton
  <2>5. ASSUME NEW d \in 1 .. 3, NEW q \in 0 .. (MaxQueueNr - 1), q \notin Queueuses[d]
        PROVE  Cardinality(Holders(d, q)) = 0
    <3>1. \A r \in all_reqs : ~(DeviceOf(item[r].channel) = d /\ item[r].queue_id = q)
      BY <2>5, MaxQueueNrAssumption DEF Queued
    <3>2. Holders(d, q) = {}
      BY <3>1 DEF Holders
    <3>. QED  BY <3>2, FS_EmptySet
  <2>. QED  BY <2>2, <2>3, <2>4, <2>5 DEF QueuesAccounted
<1>. QED  BY <1>1, IInvAlways, PTL

(* A request whose answer is success has been computed with its own        *)
(* arguments, although requests share the kernel objects of their service: *)
(* kh_prepare_exec never overwrites the arguments of a request that        *)
(* kh_launch_exec has still to run.                                        *)
THEOREM ResultsAlwaysOwn == Spec => []ResultOwn
<1>1. IInv => ResultOwn
  BY DEF IInv, Computed
<1>. QED  BY <1>1, IInvAlways, PTL
=============================================================================
