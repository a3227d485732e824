------------------------- MODULE KoclMempoolProofs -------------------------
(***************************************************************************)
(* Proofs that the properties of KoclMempool hold for every number of      *)
(* clients, units, registrations and sizes.                                *)
(***************************************************************************)
EXTENDS KoclMempool, TLAPS

-----------------------------------------------------------------------------
(* The inductive invariant.                                                *)

(* Registrations are numbered upwards; a buffer knows one that happened    *)
(* and ends inside its pool.                                               *)
Bounds ==
    /\ \A p \in Pools : kva[p] <= regs
    /\ \A c \in Clients : buf[c].n > 0 =>
          buf[c].map > 0 /\ buf[c].map <= regs /\ buf[c].idx + buf[c].n <= NUnits

(* A mapping exists only when the arrays of all three pools do.            *)
Complete ==
    (\E p \in Pools : kva[p] # 0) =>
        nunits = NUnits /\ \A q \in Pools : arrays[q] = Arrays

(* A running kocl_free is about the buffer its client holds, and unless    *)
(* it was overtaken, that buffer is of the present mapping.                *)
FreeingOwn ==
    \A c \in Clients :
        \/ freeing[c] = NotFreeing
        \/ /\ freeing[c].step # "no"
           /\ buf[c].n > 0
           /\ freeing[c].idx = buf[c].idx
           /\ ~overtaken =>
                /\ Live(c, buf[c].pool)
                /\ freeing[c].step = "clear" => freeing[c].n = buf[c].n

(* alloc_sz holds the size of each live buffer at its first unit.          *)
SizesKnown ==
    ~overtaken => \A c \in Clients, p \in Pools :
        Live(c, p) => alloc_sz[p][buf[c].idx] = buf[c].n

(* BitmapExact, unit by unit.                                              *)
BitmapUnits ==
    ~overtaken => \A p \in Pools : kva[p] # 0 =>
        \A u \in Units :
            u \in bitmap[p] <=> \E c \in Clients : Live(c, p) /\ u \in Taken(c)

IInv ==
    /\ TypeOK
    /\ Bounds
    /\ Complete
    /\ FreeingOwn
    /\ SizesKnown
    /\ NoSharedUnits
    /\ BitmapUnits
    /\ NoOopsWhenMapped

-----------------------------------------------------------------------------
LEMMA StageValues ==
    /\ DOMAIN Stage = {"pages", "pin", "bitmap", "alloc_sz", "vmap", "done"}
    /\ Stage["pages"] = 1 /\ Stage["pin"] = 2 /\ Stage["bitmap"] = 3
    /\ Stage["alloc_sz"] = 4 /\ Stage["vmap"] = 5 /\ Stage["done"] = 6
BY DEF Stage

(* Which pools have an array after the call, stage by stage.               *)
LEMMA ReachedByStage ==
    ASSUME NEW k \in Pools
    PROVE  /\ \A s \in DOMAIN Stage, a \in Arrays : Reached(s, k, a) \subseteq Pools
           /\ \A s \in {"pages", "pin"}, a \in {"bitmap", "alloc_sz"} :
                 Reached(s, k, a) = {}
           /\ \A s \in {"vmap", "done"}, a \in Arrays : Reached(s, k, a) = Pools
<1>1. \A s \in DOMAIN Stage, a \in Arrays : Reached(s, k, a) \subseteq Pools
  BY StageValues DEF Reached, Arrays, Pools
<1>2. \A s \in {"pages", "pin"}, a \in {"bitmap", "alloc_sz"} :
         Reached(s, k, a) = {}
  BY StageValues DEF Reached
<1>3. \A s \in {"vmap", "done"}, a \in Arrays : Reached(s, k, a) = Pools
  BY StageValues DEF Reached, Arrays
<1> QED BY <1>1, <1>2, <1>3

LEMMA RunInUnits ==
    ASSUME NEW i \in Nat, NEW n \in Nat, i + n <= NUnits
    PROVE  Run(i, n) \subseteq Units
BY NUnitsAssumption DEF Run, Units

LEMMA NullTypes == NoBuf \in Buf /\ NotFreeing \in Freeing
BY NUnitsAssumption DEF NoBuf, NotFreeing, Buf, Freeing, Pools, Units

LEMMA InitEstablishesIInv == Init => IInv
<1> SUFFICES ASSUME Init PROVE IInv
  OBVIOUS
<1> USE DEF Init
<1>1. TypeOK
  BY NullTypes, NUnitsAssumption DEF TypeOK
<1>2. Bounds /\ Complete
  BY DEF Bounds, Complete, NoBuf
<1>3. FreeingOwn /\ SizesKnown /\ NoSharedUnits
  BY DEF FreeingOwn, SizesKnown, NoSharedUnits, Live, NoBuf
<1>4. BitmapUnits /\ NoOopsWhenMapped
  BY DEF BitmapUnits, NoOopsWhenMapped
<1> QED BY <1>1, <1>2, <1>3, <1>4 DEF IInv

-----------------------------------------------------------------------------
(* A registration: one that stops before the mapping stage finds either    *)
(* no mapping at all or changes nothing the clients see; one that maps     *)
(* leaves no buffer live and every bitmap empty.                           *)
LEMMA RegisterKeepsIInv ==
    ASSUME IInv, Register
    PROVE  IInv'
<1>1. PICK s \in DOMAIN Stage, fresh \in [Pools -> FreshContents],
           unmapped \in SUBSET Pools, k \in Pools :
              set_gpu_mempool(s, k, fresh, unmapped)
  BY DEF Register, Pools
<1> DEFINE Marked == Reached(s, k, "bitmap")
           Sized == Reached(s, k, "alloc_sz")
<1>2. /\ regs' = regs + 1 /\ uva' = regs + 1 /\ ~oops
      /\ nunits' = IF Stage[s] < 3 THEN nunits ELSE NUnits
      /\ arrays' = [p \in Pools |->
                     arrays[p] \cup {a \in Arrays : p \in Reached(s, k, a)}]
      /\ bitmap' = [p \in Pools |-> IF p \in Marked THEN {} ELSE bitmap[p]]
      /\ alloc_sz' = [p \in Pools |->
                      IF p \notin Sized THEN alloc_sz[p]
                      ELSE ClearAllocSz(IF "alloc_sz" \in arrays[p]
                                        THEN alloc_sz[p] ELSE fresh[p])]
      /\ kva' = IF Stage[s] < 5 THEN kva
                ELSE [p \in Pools |-> IF p \in unmapped THEN 0 ELSE regs + 1]
      /\ overtaken' = (overtaken \/ \E c \in Clients : freeing[c] # NotFreeing)
      /\ buf' = buf /\ freeing' = freeing /\ oops' = oops
      /\ s \in Arrays => s \notin arrays[k]
  BY <1>1 DEF set_gpu_mempool
<1> HIDE DEF Marked, Sized
<1>3. s \in {"pages", "pin", "bitmap", "alloc_sz", "vmap", "done"}
  BY StageValues
<1>9. overtaken => overtaken'
  BY <1>2
<1>4. TypeOK'
  <2>1. alloc_sz' \in [Pools -> [Units -> Nat]]
    <3>1. \A p \in Pools : (IF "alloc_sz" \in arrays[p] THEN alloc_sz[p] ELSE fresh[p])
                              \in [Units -> Nat]
      BY FreshAssumption DEF IInv, TypeOK
    <3>2. \A old \in [Units -> Nat] : ClearAllocSz(old) \in [Units -> Nat]
      BY DEF ClearAllocSz
    <3> QED BY <1>2, <3>1, <3>2 DEF IInv, TypeOK
  <2>2. kva' \in [Pools -> Nat] /\ regs' \in Nat /\ uva' \in Nat
    BY <1>2 DEF IInv, TypeOK
  <2>3. arrays' \in [Pools -> SUBSET Arrays] /\ bitmap' \in [Pools -> SUBSET Units]
    BY <1>2 DEF IInv, TypeOK
  <2>4. nunits' \in {0, NUnits} /\ overtaken' \in BOOLEAN /\ oops' \in BOOLEAN
    <3>1. nunits' \in {0, NUnits}
      BY <1>2 DEF IInv, TypeOK
    <3>2. overtaken' \in BOOLEAN /\ oops' \in BOOLEAN
      BY <1>2, Zenon DEF IInv, TypeOK
    <3> QED BY <3>1, <3>2
  <2> QED BY <1>2, <2>1, <2>2, <2>3, <2>4 DEF IInv, TypeOK
<1>5. Bounds'
  BY <1>2 DEF IInv, Bounds, TypeOK, Buf
<1>6. CASE s \in {"pages", "pin"}
  <2>1. Marked = {} /\ Sized = {} /\ Stage[s] < 3
    BY <1>6, ReachedByStage, StageValues DEF Marked, Sized
  <2>2. bitmap' = bitmap /\ alloc_sz' = alloc_sz /\ kva' = kva /\ nunits' = nunits
    <3>1. bitmap' = bitmap /\ alloc_sz' = alloc_sz
      BY <1>2, <2>1 DEF IInv, TypeOK
    <3>2. kva' = kva /\ nunits' = nunits
      BY <1>2, <2>1, StageValues, <1>6
    <3> QED BY <3>1, <3>2
  <2>3. Complete'
    BY <1>2, <2>2 DEF IInv, Complete, TypeOK
  <2>4. FreeingOwn'
    BY <1>2, <2>2 DEF IInv, FreeingOwn, Live
  <2>5. SizesKnown' /\ NoSharedUnits' /\ BitmapUnits'
    <3>1. buf' = buf
      BY <1>2
    <3>2. SizesKnown'
      BY <1>9, <2>2, <3>1 DEF IInv, SizesKnown, Live
    <3>3. NoSharedUnits'
      BY <1>9, <2>2, <3>1 DEF IInv, NoSharedUnits, Live, Taken
    <3>4. BitmapUnits'
      BY <1>9, <2>2, <3>1 DEF IInv, BitmapUnits, Live, Taken
    <3> QED BY <3>2, <3>3, <3>4
  <2> QED BY <1>2, <1>4, <1>5, <2>3, <2>4, <2>5 DEF IInv, NoOopsWhenMapped
<1>7. CASE s \in {"bitmap", "alloc_sz"}
  <2>1. Stage[s] < 5 /\ s \in Arrays
    BY <1>7, StageValues DEF Arrays
  <2>2. kva' = kva /\ \A p \in Pools : kva[p] = 0
    BY <1>2, <2>1 DEF IInv, Complete
  <2>3. \A c \in Clients, p \in Pools : ~Live(c, p) /\ ~Live(c, p)'
    BY <1>2, <2>2 DEF Live, IInv, Bounds, TypeOK, Buf
  <2>4. Complete' /\ SizesKnown' /\ NoSharedUnits' /\ BitmapUnits'
    BY <2>2, <2>3 DEF Complete, SizesKnown, NoSharedUnits, BitmapUnits
  <2>5. FreeingOwn'
    BY <1>2, <2>2 DEF IInv, FreeingOwn, Live
  <2> QED BY <1>2, <1>4, <1>5, <2>4, <2>5 DEF IInv, NoOopsWhenMapped
<1>8. CASE s \in {"vmap", "done"}
  <2>1. Marked = Pools /\ Stage[s] >= 5 /\ \A a \in Arrays : Reached(s, k, a) = Pools
    BY <1>8, ReachedByStage, StageValues DEF Arrays, Marked
  <2>2. /\ bitmap' = [p \in Pools |-> {}]
        /\ \A p \in Pools : kva'[p] \in {0, regs + 1}
        /\ nunits' = NUnits
        /\ \A p \in Pools : arrays'[p] = Arrays
    <3>1. bitmap' = [p \in Pools |-> {}]
      BY <1>2, <2>1
    <3>2. (\A p \in Pools : kva'[p] \in {0, regs + 1}) /\ nunits' = NUnits
      BY <1>2, <1>8, StageValues
    <3>3. \A p \in Pools : arrays'[p] = Arrays
      BY <1>2, <2>1 DEF IInv, TypeOK
    <3> QED BY <3>1, <3>2, <3>3
  <2>3. \A c \in Clients, p \in Pools : ~Live(c, p)'
    BY <1>2, <2>2 DEF Live, IInv, Bounds, TypeOK, Buf
  <2>4. Complete' /\ SizesKnown' /\ NoSharedUnits' /\ BitmapUnits'
    BY <2>2, <2>3 DEF Complete, SizesKnown, NoSharedUnits, BitmapUnits
  <2>5. FreeingOwn'
    BY <1>2 DEF IInv, FreeingOwn
  <2> QED BY <1>2, <1>4, <1>5, <2>4, <2>5 DEF IInv, NoOopsWhenMapped
<1> QED BY <1>3, <1>6, <1>7, <1>8

-----------------------------------------------------------------------------
(* An allocation takes units no live buffer covers, because the bitmap of  *)
(* a mapped pool marks all of those.                                       *)
LEMMA MallocKeepsIInv ==
    ASSUME IInv, NEW c \in Clients, NEW ch \in Channels, NEW n \in Sizes,
           kocl_malloc(c, ch, n)
    PROVE  IInv'
<1> DEFINE p == PoolOf(ch)
<1>1. p \in Pools
  BY DEF PoolOf, Pools
<1>2. n \in Nat /\ n > 0
  BY SizesAssumption
<1>3. /\ ~oops /\ buf[c] = NoBuf /\ nunits > 0
      /\ uva' = uva /\ kva' = kva /\ nunits' = nunits /\ arrays' = arrays
      /\ regs' = regs /\ freeing' = freeing /\ overtaken' = overtaken
  BY DEF kocl_malloc
<1> HIDE DEF p
<1>4. freeing[c] = NotFreeing
  BY <1>3 DEF IInv, FreeingOwn, NoBuf
<1>5. CASE "bitmap" \notin arrays[p]
  <2>1. oops' = TRUE /\ bitmap' = bitmap /\ alloc_sz' = alloc_sz /\ buf' = buf
    BY <1>5 DEF kocl_malloc, p
  <2>2. kva[p] = 0
    BY <1>1, <1>5 DEF IInv, Complete, Arrays
  <2>3. TypeOK' /\ NoOopsWhenMapped'
    BY <1>1, <1>3, <2>1, <2>2 DEF IInv, TypeOK, NoOopsWhenMapped
  <2>4. Bounds' /\ Complete' /\ FreeingOwn'
    BY <1>3, <2>1 DEF IInv, Bounds, Complete, FreeingOwn, Live
  <2>5. SizesKnown' /\ NoSharedUnits' /\ BitmapUnits'
    BY <1>3, <2>1 DEF IInv, SizesKnown, NoSharedUnits, BitmapUnits, Live, Taken
  <2> QED BY <2>3, <2>4, <2>5 DEF IInv
<1>6. CASE "bitmap" \in arrays[p]
  <2>1. PICK i \in FreeAreas(p, n) :
          /\ bitmap' = [bitmap EXCEPT ![p] = @ \cup Run(i, n)]
          /\ alloc_sz' = [alloc_sz EXCEPT ![p][i] = n]
          /\ buf' = IF kva[p] = 0 THEN buf ELSE
               [buf EXCEPT ![c] = [pool |-> p, map |-> kva[p], idx |-> i, n |-> n]]
          /\ oops' = ("alloc_sz" \notin arrays[p] \/ (kva[p] = 0 /\ i > 0))
    BY <1>6 DEF kocl_malloc, p
  <2>2. i \in Units /\ i \in Nat /\ i + n <= NUnits /\ Run(i, n) \cap bitmap[p] = {}
    BY <1>2 DEF FreeAreas, Units, IInv, TypeOK
  <2>3. Run(i, n) \subseteq Units
    BY <1>2, <2>2, RunInUnits
  <2>4. TypeOK'
    <3>1. bitmap' \in [Pools -> SUBSET Units]
      BY <1>1, <2>1, <2>3 DEF IInv, TypeOK
    <3>2. alloc_sz' \in [Pools -> [Units -> Nat]]
      BY <1>1, <1>2, <2>1, <2>2 DEF IInv, TypeOK
    <3>3. buf' \in [Clients -> Buf]
      BY <1>1, <1>2, <2>1, <2>2 DEF IInv, TypeOK, Buf
    <3>4. oops' \in BOOLEAN
      BY <2>1
    <3> QED BY <1>3, <3>1, <3>2, <3>3, <3>4 DEF IInv, TypeOK
  <2>5. Bounds' /\ Complete'
    BY <1>1, <1>2, <1>3, <2>1, <2>2 DEF IInv, TypeOK, Bounds, Complete, Buf
  <2>6. NoOopsWhenMapped'
    BY <1>1, <1>3, <2>1 DEF IInv, Complete, NoOopsWhenMapped, Arrays
  <2>7. CASE kva[p] = 0
    <3>1. buf' = buf
      BY <2>1, <2>7
    <3>2. \A d \in Clients : ~Live(d, p)
      BY <1>1, <2>7 DEF Live, IInv, Bounds, TypeOK, Buf
    <3>3. \A q \in Pools : q # p => bitmap'[q] = bitmap[q] /\ alloc_sz'[q] = alloc_sz[q]
      BY <1>1, <2>1 DEF IInv, TypeOK
    <3>4. FreeingOwn' /\ NoSharedUnits'
      BY <1>3, <3>1 DEF IInv, FreeingOwn, NoSharedUnits, Live, Taken
    <3>5. SizesKnown'
      BY <1>3, <3>1, <3>2, <3>3 DEF IInv, SizesKnown, Live
    <3>6. BitmapUnits'
      BY <1>3, <2>7, <3>1, <3>3 DEF IInv, BitmapUnits, Live, Taken
    <3> QED BY <2>4, <2>5, <2>6, <3>4, <3>5, <3>6 DEF IInv
  <2>8. CASE kva[p] # 0
    <3>1. /\ buf'[c] = [pool |-> p, map |-> kva[p], idx |-> i, n |-> n]
          /\ \A d \in Clients : d # c => buf'[d] = buf[d]
      BY <2>1, <2>8 DEF IInv, TypeOK
    <3>2. \A d \in Clients, q \in Pools : d # c =>
             /\ Live(d, q)' <=> Live(d, q)
             /\ Taken(d)' = Taken(d)
      BY <1>3, <3>1 DEF Live, Taken
    <3>3. /\ \A q \in Pools : Live(c, q)' <=> q = p
          /\ Taken(c)' = Run(i, n)
          /\ \A q \in Pools : ~Live(c, q)
      BY <1>1, <1>2, <1>3, <3>1 DEF Live, Taken, NoBuf
    <3>4. /\ bitmap'[p] = bitmap[p] \cup Run(i, n)
          /\ \A q \in Pools : q # p => bitmap'[q] = bitmap[q]
      BY <1>1, <2>1 DEF IInv, TypeOK
    <3>5. ~overtaken => \A d \in Clients : Live(d, p) =>
             Taken(d) \subseteq bitmap[p] /\ Taken(d) # {} /\ buf[d].idx \in Taken(d)
      <4> SUFFICES ASSUME ~overtaken, NEW d \in Clients, Live(d, p)
                   PROVE  Taken(d) \subseteq bitmap[p] /\ buf[d].idx \in Taken(d)
        OBVIOUS
      <4>1. /\ buf[d].idx \in Nat /\ buf[d].n \in Nat /\ buf[d].n > 0
            /\ buf[d].idx + buf[d].n <= NUnits
        BY DEF Live, IInv, TypeOK, Buf, Units, Bounds
      <4>2. Taken(d) \subseteq Units
        BY <4>1, RunInUnits DEF Taken
      <4>3. Taken(d) \subseteq bitmap[p]
        BY <1>1, <2>8, <4>2 DEF IInv, BitmapUnits
      <4>4. buf[d].idx \in Taken(d)
        BY <4>1 DEF Taken, Run
      <4> QED BY <4>3, <4>4
    <3>6. FreeingOwn'
      BY <1>3, <1>4, <3>1 DEF IInv, FreeingOwn, Live, TypeOK, Buf
    <3>7. NoSharedUnits'
      <4> SUFFICES ASSUME ~overtaken, NEW d \in Clients, NEW e \in Clients,
                          NEW q \in Pools, d # e, Live(d, q)', Live(e, q)'
                   PROVE  Taken(d)' \cap Taken(e)' = {}
        BY <1>3 DEF NoSharedUnits
      <4>1. CASE d = c
        BY <4>1, <2>2, <3>2, <3>3, <3>5
      <4>2. CASE e = c
        BY <4>2, <2>2, <3>2, <3>3, <3>5
      <4>3. CASE d # c /\ e # c
        BY <4>3, <3>2 DEF IInv, NoSharedUnits
      <4> QED BY <4>1, <4>2, <4>3
    <3>8. SizesKnown'
      <4> SUFFICES ASSUME ~overtaken, NEW d \in Clients, NEW q \in Pools, Live(d, q)'
                   PROVE  alloc_sz'[q][buf'[d].idx] = buf'[d].n
        BY <1>3 DEF SizesKnown
      <4>1. CASE d = c
        BY <4>1, <1>1, <2>1, <2>2, <3>1, <3>3 DEF IInv, TypeOK
      <4>2. CASE d # c
        <5>1. Live(d, q) /\ buf'[d] = buf[d] /\ alloc_sz[q][buf[d].idx] = buf[d].n
          BY <4>2, <3>1, <3>2 DEF IInv, SizesKnown
        <5>2. q = p => buf[d].idx # i
          <6>1. i \in Run(i, n)
            BY <1>2, <2>2 DEF Run
          <6> QED BY <6>1, <5>1, <2>2, <3>5
        <5>3. buf[d].idx \in Units
          BY DEF IInv, TypeOK, Buf
        <5> QED BY <1>1, <2>1, <2>2, <5>1, <5>2, <5>3 DEF IInv, TypeOK
      <4> QED BY <4>1, <4>2
    <3>9. BitmapUnits'
      <4> SUFFICES ASSUME ~overtaken, NEW q \in Pools, kva[q] # 0, NEW u \in Units
                   PROVE  u \in bitmap'[q] <=>
                            \E d \in Clients : Live(d, q)' /\ u \in Taken(d)'
        BY <1>3 DEF BitmapUnits
      <4>1. u \in bitmap[q] <=> \E d \in Clients : Live(d, q) /\ u \in Taken(d)
        BY DEF IInv, BitmapUnits
      <4>2. CASE q = p
        BY <4>1, <4>2, <3>2, <3>3, <3>4
      <4>3. CASE q # p
        BY <4>1, <4>3, <3>2, <3>3, <3>4
      <4> QED BY <4>2, <4>3
    <3> QED BY <2>4, <2>5, <2>6, <3>6, <3>7, <3>8, <3>9 DEF IInv
  <2> QED BY <2>7, <2>8
<1> QED BY <1>5, <1>6

-----------------------------------------------------------------------------
(* kocl_free, step by step.                                                *)
LEMMA FreeIndexKeepsIInv ==
    ASSUME IInv, NEW c \in Clients, kocl_free_index(c, 0)
    PROVE  IInv'
<1>1. /\ ~oops /\ buf[c].n > 0 /\ freeing[c] = NotFreeing
      /\ uva' = uva /\ kva' = kva /\ nunits' = nunits /\ arrays' = arrays
      /\ bitmap' = bitmap /\ alloc_sz' = alloc_sz /\ regs' = regs
      /\ overtaken' = overtaken /\ oops' = oops
  BY DEF kocl_free_index
<1>2. buf[c] \in Buf /\ buf[c].pool \in Pools /\ buf[c].idx \in Units /\ buf[c].idx + 0 = buf[c].idx
  BY DEF IInv, TypeOK, Buf, Units
<1>3. CASE buf[c].map = kva[buf[c].pool]
  <2>1. /\ freeing' = [freeing EXCEPT ![c] =
                         [step |-> "lookup", idx |-> buf[c].idx, n |-> 0]]
        /\ buf' = buf
    BY <1>2, <1>3 DEF kocl_free_index
  <2>2. TypeOK'
    BY <1>1, <1>2, <2>1 DEF IInv, TypeOK, Freeing
  <2>3. Bounds' /\ Complete' /\ NoOopsWhenMapped'
    BY <1>1, <2>1 DEF IInv, Bounds, Complete, NoOopsWhenMapped
  <2>4. FreeingOwn'
    BY <1>1, <1>2, <1>3, <2>1 DEF IInv, TypeOK, FreeingOwn, Live
  <2>5. SizesKnown' /\ NoSharedUnits' /\ BitmapUnits'
    BY <1>1, <2>1 DEF IInv, SizesKnown, NoSharedUnits, BitmapUnits, Live, Taken
  <2> QED BY <2>2, <2>3, <2>4, <2>5 DEF IInv
<1>4. CASE buf[c].map # kva[buf[c].pool]
  <2>1. buf' = [buf EXCEPT ![c] = NoBuf] /\ freeing' = freeing
    BY <1>4 DEF kocl_free_index
  <2>2. /\ buf'[c] = NoBuf
        /\ \A d \in Clients : d # c => buf'[d] = buf[d]
    BY <2>1 DEF IInv, TypeOK
  <2>3. TypeOK'
    BY <1>1, <2>1, NullTypes DEF IInv, TypeOK
  <2>4. Bounds' /\ Complete' /\ NoOopsWhenMapped'
    BY <1>1, <2>2 DEF IInv, Bounds, Complete, NoOopsWhenMapped, NoBuf
  <2>5. FreeingOwn'
    BY <1>1, <2>1, <2>2 DEF IInv, FreeingOwn, Live
  <2>6. \A d \in Clients, q \in Pools :
          /\ Live(d, q)' <=> Live(d, q)
          /\ Live(d, q) => Taken(d)' = Taken(d) /\ buf'[d] = buf[d]
    BY <1>1, <1>4, <2>2 DEF Live, Taken, NoBuf
  <2>7. SizesKnown' /\ NoSharedUnits'
    BY <1>1, <2>6 DEF IInv, SizesKnown, NoSharedUnits
  <2>8. BitmapUnits'
    BY <1>1, <2>6 DEF IInv, BitmapUnits
  <2> QED BY <2>3, <2>4, <2>5, <2>7, <2>8 DEF IInv
<1> QED BY <1>3, <1>4

(* The unlocked read of alloc_sz sees the size of the client's own buffer. *)
(* It can only end the call early after a registration overtook it.        *)
LEMMA FreeLookupKeepsIInv ==
    ASSUME IInv, NEW c \in Clients, kocl_free_lookup(c)
    PROVE  IInv'
<1> DEFINE n == alloc_sz[buf[c].pool][freeing[c].idx]
<1>1. /\ ~oops /\ freeing[c].step = "lookup"
      /\ uva' = uva /\ kva' = kva /\ nunits' = nunits /\ arrays' = arrays
      /\ bitmap' = bitmap /\ alloc_sz' = alloc_sz /\ regs' = regs
      /\ overtaken' = overtaken /\ oops' = oops
  BY DEF kocl_free_lookup
<1>2. /\ buf[c].pool \in Pools /\ buf[c].idx \in Units /\ buf[c].n \in Nat
      /\ freeing[c] \in Freeing /\ freeing[c].idx \in Units /\ n \in Nat
  BY DEF IInv, TypeOK, Buf, Freeing
<1>3. /\ buf[c].n > 0 /\ freeing[c].idx = buf[c].idx
      /\ ~overtaken => Live(c, buf[c].pool)
  BY <1>1 DEF IInv, FreeingOwn, NotFreeing
<1>4. ~overtaken => n = buf[c].n /\ nunits = NUnits /\ n > 0 /\ ~(n > nunits - freeing[c].idx)
  <2> SUFFICES ASSUME ~overtaken
               PROVE  n = buf[c].n /\ nunits = NUnits /\ n > 0 /\ ~(n > nunits - freeing[c].idx)
    OBVIOUS
  <2>1. n = buf[c].n
    BY <1>2, <1>3 DEF IInv, SizesKnown
  <2>2. kva[buf[c].pool] # 0
    BY <1>3, <1>2 DEF Live, IInv, Bounds, TypeOK, Buf
  <2>3. nunits = NUnits
    BY <1>2, <2>2 DEF IInv, Complete
  <2>4. buf[c].idx + buf[c].n <= NUnits
    BY <1>3 DEF IInv, Bounds
  <2> QED BY <1>2, <1>3, <2>1, <2>3, <2>4, NUnitsAssumption DEF Units
<1>5. CASE n = 0 \/ n > nunits - freeing[c].idx
  <2>1. overtaken /\ overtaken'
    BY <1>1, <1>2, <1>4, <1>5
  <2>2. /\ freeing' = [freeing EXCEPT ![c] = NotFreeing]
        /\ buf' = [buf EXCEPT ![c] = NoBuf]
    BY <1>3, <1>5 DEF kocl_free_lookup, Return
  <2>3. TypeOK'
    BY <1>1, <2>2, NullTypes DEF IInv, TypeOK
  <2>4. Bounds' /\ Complete' /\ NoOopsWhenMapped'
    BY <1>1, <2>2 DEF IInv, TypeOK, Bounds, Complete, NoOopsWhenMapped, NoBuf
  <2>5. FreeingOwn'
    BY <2>1, <2>2 DEF IInv, TypeOK, FreeingOwn
  <2> QED BY <2>1, <2>3, <2>4, <2>5 DEF IInv, SizesKnown, NoSharedUnits, BitmapUnits
<1>6. CASE ~(n = 0 \/ n > nunits - freeing[c].idx)
  <2>1. /\ freeing' = [freeing EXCEPT ![c].step = "clear", ![c].n = n]
        /\ buf' = buf
    BY <1>6 DEF kocl_free_lookup
  <2> HIDE DEF n
  <2>2. /\ freeing'[c] = [step |-> "clear", idx |-> freeing[c].idx, n |-> n]
        /\ \A d \in Clients : d # c => freeing'[d] = freeing[d]
        /\ freeing' \in [Clients -> Freeing]
    BY <1>2, <2>1 DEF IInv, TypeOK, Freeing
  <2>3. TypeOK'
    BY <1>1, <2>1, <2>2 DEF IInv, TypeOK
  <2>4. Bounds' /\ Complete' /\ NoOopsWhenMapped'
    BY <1>1, <2>1 DEF IInv, Bounds, Complete, NoOopsWhenMapped
  <2>5. FreeingOwn'
    BY <1>1, <1>3, <1>4, <2>1, <2>2 DEF IInv, FreeingOwn, Live
  <2>6. SizesKnown' /\ NoSharedUnits' /\ BitmapUnits'
    BY <1>1, <2>1 DEF IInv, SizesKnown, NoSharedUnits, BitmapUnits, Live, Taken
  <2> QED BY <2>3, <2>4, <2>5, <2>6 DEF IInv
<1> QED BY <1>5, <1>6

(* The locked step clears exactly the client's own units.                  *)
LEMMA FreeClearKeepsIInv ==
    ASSUME IInv, NEW c \in Clients, kocl_free_clear(c)
    PROVE  IInv'
<1> DEFINE p == buf[c].pool
           f == freeing[c]
<1>1. /\ ~oops /\ f.step = "clear"
      /\ uva' = uva /\ kva' = kva /\ nunits' = nunits /\ arrays' = arrays
      /\ regs' = regs /\ overtaken' = overtaken /\ oops' = oops
      /\ bitmap' = [bitmap EXCEPT ![p] = @ \ Run(f.idx, f.n)]
      /\ alloc_sz' = [alloc_sz EXCEPT ![p][f.idx] = 0]
  BY DEF kocl_free_clear
<1>2. /\ buf[c].n > 0 /\ f.idx = buf[c].idx
      /\ ~overtaken => Live(c, p) /\ f.n = buf[c].n
  BY <1>1 DEF IInv, FreeingOwn, NotFreeing
<1>3. /\ freeing' = [freeing EXCEPT ![c] = NotFreeing]
      /\ buf' = [buf EXCEPT ![c] = NoBuf]
  BY <1>2 DEF kocl_free_clear, Return
<1>4. p \in Pools /\ f.idx \in Units
  BY DEF IInv, TypeOK, Buf, Freeing
<1> HIDE DEF p, f
<1>5. TypeOK'
  BY <1>1, <1>3, <1>4, NullTypes DEF IInv, TypeOK
<1>6. /\ buf'[c] = NoBuf
      /\ \A d \in Clients : d # c => buf'[d] = buf[d] /\ freeing'[d] = freeing[d]
      /\ freeing'[c] = NotFreeing
  BY <1>3 DEF IInv, TypeOK
<1>7. Bounds' /\ Complete' /\ NoOopsWhenMapped'
  BY <1>1, <1>6 DEF IInv, Bounds, Complete, NoOopsWhenMapped, NoBuf
<1>8. FreeingOwn'
  BY <1>1, <1>6 DEF IInv, FreeingOwn, Live
<1>9. CASE overtaken
  BY <1>1, <1>5, <1>7, <1>8, <1>9 DEF IInv, SizesKnown, NoSharedUnits, BitmapUnits
<1>10. CASE ~overtaken
  <2>1. /\ \A d \in Clients, q \in Pools : d # c =>
             (Live(d, q)' <=> Live(d, q)) /\ Taken(d)' = Taken(d)
        /\ \A q \in Pools : ~Live(c, q)'
    BY <1>1, <1>6 DEF Live, Taken, NoBuf
  <2>2. /\ bitmap'[p] = bitmap[p] \ Taken(c)
        /\ \A q \in Pools : q # p => bitmap'[q] = bitmap[q]
    BY <1>1, <1>2, <1>4, <1>10 DEF IInv, TypeOK, Taken
  <2>3. /\ Live(c, p) /\ \A q \in Pools : q # p => ~Live(c, q)
    BY <1>2, <1>10 DEF Live
  <2>4. NoSharedUnits'
    BY <1>1, <2>1 DEF IInv, NoSharedUnits
  <2>5. SizesKnown'
    <3> SUFFICES ASSUME NEW d \in Clients, NEW q \in Pools, Live(d, q)'
                 PROVE  alloc_sz'[q][buf'[d].idx] = buf'[d].n
      BY DEF SizesKnown
    <3>1. d # c /\ Live(d, q) /\ buf'[d] = buf[d] /\ alloc_sz[q][buf[d].idx] = buf[d].n
      BY <1>6, <1>10, <2>1 DEF IInv, SizesKnown
    <3>2. q = p => buf[d].idx # f.idx
      <4>1. /\ buf[d].n > 0 /\ buf[d].n \in Nat /\ buf[d].idx \in Nat
            /\ buf[c].n > 0 /\ buf[c].n \in Nat /\ buf[c].idx \in Nat
        BY <1>2, <3>1 DEF Live, IInv, TypeOK, Buf, Units
      <4>2. buf[d].idx \in Taken(d) /\ buf[c].idx \in Taken(c)
        BY <4>1 DEF Taken, Run
      <4> QED BY <1>2, <1>10, <2>3, <3>1, <4>2 DEF IInv, NoSharedUnits
    <3>3. buf[d].idx \in Units
      BY DEF IInv, TypeOK, Buf
    <3> QED BY <1>1, <1>4, <3>1, <3>2, <3>3 DEF IInv, TypeOK
  <2>6. BitmapUnits'
    <3> SUFFICES ASSUME NEW q \in Pools, kva[q] # 0, NEW u \in Units
                 PROVE  u \in bitmap'[q] <=>
                          \E d \in Clients : Live(d, q)' /\ u \in Taken(d)'
      BY <1>1 DEF BitmapUnits
    <3>1. u \in bitmap[q] <=> \E d \in Clients : Live(d, q) /\ u \in Taken(d)
      BY <1>10 DEF IInv, BitmapUnits
    <3>2. \A d \in Clients : d # c /\ Live(d, p) => Taken(d) \cap Taken(c) = {}
      BY <1>4, <1>10, <2>3 DEF IInv, NoSharedUnits
    <3>3. CASE q = p
      BY <2>1, <2>2, <3>1, <3>2, <3>3
    <3>4. CASE q # p
      BY <2>1, <2>2, <2>3, <3>1, <3>4
    <3> QED BY <3>3, <3>4
  <2> QED BY <1>5, <1>7, <1>8, <2>4, <2>5, <2>6 DEF IInv
<1> QED BY <1>9, <1>10

-----------------------------------------------------------------------------
(* Every step of the driver keeps the invariant.                           *)
LEMMA NextKeepsIInv == IInv /\ [Next]_vars => IInv'
<1> SUFFICES ASSUME IInv, [Next]_vars PROVE IInv'
  OBVIOUS
<1>1. CASE Register
  BY <1>1, RegisterKeepsIInv
<1>2. CASE Malloc
  BY <1>2, MallocKeepsIInv DEF Malloc
<1>3. CASE FreeRest
  BY <1>3, FreeLookupKeepsIInv, FreeClearKeepsIInv DEF FreeRest
<1>4. CASE \E c \in Clients : kocl_free_index(c, 0)
  BY <1>4, FreeIndexKeepsIInv
<1>5. CASE UNCHANGED vars
  <2> USE <1>5 DEF vars, IInv
  <2>1. TypeOK' /\ Bounds' /\ Complete' /\ NoOopsWhenMapped'
    BY DEF TypeOK, Bounds, Complete, NoOopsWhenMapped
  <2>2. FreeingOwn' /\ SizesKnown'
    BY DEF FreeingOwn, SizesKnown, Live
  <2>3. NoSharedUnits' /\ BitmapUnits'
    BY DEF NoSharedUnits, BitmapUnits, Live, Taken
  <2> QED BY <2>1, <2>2, <2>3
<1> QED BY <1>1, <1>2, <1>3, <1>4, <1>5 DEF Next

(* The inductive invariant holds throughout: for any number of clients,    *)
(* pool size and number of registrations.                                  *)
THEOREM IInvAlways == Spec => []IInv
BY InitEstablishesIInv, NextKeepsIInv, PTL DEF Spec

(* The driver never sets or clears a bit, or stores a size, outside a      *)
(* pool's arrays, and its fields keep their types.                         *)
THEOREM TypeCorrect == Spec => []TypeOK
<1>1. IInv => TypeOK
  BY DEF IInv
<1> QED BY <1>1, IInvAlways, PTL

(* No two clients ever hold the same unit of a mapped pool, as long as no  *)
(* registration overtakes a running kocl_free.                             *)
THEOREM BuffersDisjoint == Spec => []NoSharedUnits
<1>1. IInv => NoSharedUnits
  BY DEF IInv
<1> QED BY <1>1, IInvAlways, PTL

(* The bitmap of a mapped pool is exactly the set of units in use.         *)
THEOREM BitmapIsExact == Spec => []BitmapExact
<1>1. IInv => BitmapExact
  <2> SUFFICES ASSUME IInv, ~overtaken, NEW p \in Pools, kva[p] # 0
               PROVE  bitmap[p] = UNION {Taken(c) : c \in {d \in Clients : Live(d, p)}}
    BY DEF BitmapExact
  <2>1. \A c \in Clients : Live(c, p) => Taken(c) \subseteq Units
    <3> SUFFICES ASSUME NEW c \in Clients, Live(c, p) PROVE Taken(c) \subseteq Units
      OBVIOUS
    <3>1. /\ buf[c].idx \in Nat /\ buf[c].n \in Nat
          /\ buf[c].idx + buf[c].n <= NUnits
      BY DEF Live, IInv, TypeOK, Buf, Units, Bounds
    <3> QED BY <3>1, RunInUnits DEF Taken
  <2>2. bitmap[p] \subseteq Units
    BY DEF IInv, TypeOK
  <2> QED BY <2>1, <2>2 DEF IInv, BitmapUnits
<1> QED BY <1>1, IInvAlways, PTL

(* kocl_malloc cannot crash while all three pools are mapped.              *)
THEOREM NoOopsOnceMapped == Spec => []NoOopsWhenMapped
<1>1. IInv => NoOopsWhenMapped
  BY DEF IInv
<1> QED BY <1>1, IInvAlways, PTL

=============================================================================
