---------------------------- MODULE KoclMempool ----------------------------
(***************************************************************************)
(* The three pools of GPU-visible memory of the kernel driver kocl/main.c: *)
(* set_gpu_mempool (the helper registers its pinned buffers by ioctl),     *)
(* kocl_malloc and kocl_free (kernel clients take and give back runs of    *)
(* allocation units).                                                      *)
(*                                                                         *)
(* set_gpu_mempool and kocl_malloc hold gmpool_lock from end to end and    *)
(* are one step each.  kocl_free reads the pool's fields and alloc_sz      *)
(* before it takes the lock, so it is three steps.                         *)
(*                                                                         *)
(* A registration is named by its number.  kva[p] = r says that pool p's   *)
(* kernel mapping was made by registration r; old mappings are never       *)
(* vunmapped, so an address of one never lies in another.                  *)
(***************************************************************************)
EXTENDS Integers

CONSTANTS
    Clients,        \* holders of one kernel buffer each
    NUnits,         \* units in a pool (KOCL_BUF_SIZE / KOCL_BUF_UNIT_SIZE)
    Sizes,          \* buffer sizes in units that clients ask for
    Channels,       \* the channel argument of kocl_malloc and kocl_free
    MaxRegs,        \* bound: number of registrations
    FreshContents   \* what the memory of a new alloc_sz array may hold

Units == 0 .. (NUnits - 1)
Pools == 1 .. 3

ASSUME NUnitsAssumption == NUnits \in Nat \ {0} /\ NUnits % 4 = 0
ASSUME SizesAssumption  == Sizes \subseteq Nat \ {0}
ASSUME MaxRegsAssumption == MaxRegs \in Nat
ASSUME FreshAssumption  == FreshContents \subseteq [Units -> Nat]

VARIABLES
    uva,        \* registration whose user addresses the pools carry
    kva,        \* per pool: registration that made the kernel mapping, or 0
    nunits,     \* 0 before the first registration that got that far
    arrays,     \* per pool: which of its arrays are allocated
    bitmap,     \* per pool: the set of units marked as taken
    alloc_sz,   \* per pool: unit -> size of the buffer starting there
    regs,       \* registrations so far
    buf,        \* per client: the buffer it holds; n = 0 when it holds none
    freeing,    \* per client: where its kocl_free is
    overtaken,  \* a registration ran between two steps of some kocl_free
    oops        \* the kernel followed a bad pointer of a half-built pool

vars == <<uva, kva, nunits, arrays, bitmap, alloc_sz, regs, buf, freeing,
          overtaken, oops>>

(* The fields that set_gpu_mempool fills, in the order it fills them.      *)
Arrays == {"pages", "bitmap", "alloc_sz"}
Stage == [pages |-> 1, pin |-> 2, bitmap |-> 3, alloc_sz |-> 4, vmap |-> 5,
          done |-> 6]

NoBuf == [pool |-> 1, map |-> 0, idx |-> 0, n |-> 0]
NotFreeing == [step |-> "no", idx |-> 0, n |-> 0]

Run(i, n) == i .. (i + n - 1)

Init ==
    /\ uva = 0
    /\ kva = [p \in Pools |-> 0]
    /\ nunits = 0
    /\ arrays = [p \in Pools |-> {}]
    /\ bitmap = [p \in Pools |-> {}]
    /\ alloc_sz = [p \in Pools |-> [u \in Units |-> 0]]
    /\ regs = 0
    /\ buf = [c \in Clients |-> NoBuf]
    /\ freeing = [c \in Clients |-> NotFreeing]
    /\ overtaken = FALSE
    /\ oops = FALSE

-----------------------------------------------------------------------------
(* set_gpu_mempool                                                         *)

(* Mutant: the third pool's alloc_sz is never set up (a copied block that  *)
(* still names gmp2).                                                      *)
ReachedPoolForgotten(s, k, a) ==
    (IF s = a THEN 1 .. (k - 1)
     ELSE IF Stage[s] > Stage[a] THEN Pools ELSE {})
      \ (IF a = "alloc_sz" THEN {3} ELSE {})

(* The pools whose array a exists when the call leaves at stage s, pool k. *)
Reached(s, k, a) ==
    IF s = a THEN 1 .. (k - 1)
    ELSE IF Stage[s] > Stage[a] THEN Pools ELSE {}

(* memset(alloc_sz, 0, nunits) clears nunits bytes, a quarter of the u32   *)
(* entries; the others keep what they held.                                *)
ClearAllocSz(old) == [u \in Units |-> IF u < nunits' \div 4 THEN 0 ELSE old[u]]

(* One ioctl: it stops at stage s for pool k, or is done.  An array can    *)
(* only fail to be allocated when the pool does not have it yet.  vmap is  *)
(* called for all three pools before any result is looked at.              *)
set_gpu_mempool(s, k, fresh, unmapped) ==
    /\ ~oops
    /\ regs < MaxRegs
    /\ s \in Arrays => s \notin arrays[k]
    /\ unmapped # {} <=> s = "vmap"
    /\ regs' = regs + 1
    /\ uva' = regs + 1
    /\ nunits' = IF Stage[s] < 3 THEN nunits ELSE NUnits
    /\ arrays' = [p \in Pools |->
                    arrays[p] \cup {a \in Arrays : p \in Reached(s, k, a)}]
    /\ bitmap' = [p \in Pools |->
                    IF p \in Reached(s, k, "bitmap") THEN {} ELSE bitmap[p]]
    /\ alloc_sz' = [p \in Pools |->
                      IF p \notin Reached(s, k, "alloc_sz") THEN alloc_sz[p]
                      ELSE ClearAllocSz(IF "alloc_sz" \in arrays[p]
                                        THEN alloc_sz[p] ELSE fresh[p])]
    /\ kva' = IF Stage[s] < 5 THEN kva
              ELSE [p \in Pools |-> IF p \in unmapped THEN 0 ELSE regs + 1]
    /\ overtaken' = (overtaken \/ \E c \in Clients : freeing[c] # NotFreeing)
    /\ UNCHANGED <<buf, freeing, oops>>

-----------------------------------------------------------------------------
(* kocl_malloc                                                             *)

(* channel 2 and 3 have pools of their own, every other one shares pool 1. *)
PoolOf(channel) == IF channel \in {2, 3} THEN channel ELSE 1

(* Mutant: only the first unit of the area is looked at.                   *)
FreeAreasFirstBit(p, n) == {i \in Units : i + n <= nunits /\ i \notin bitmap[p]}

(* Starting units of free areas (bitmap_find_next_zero_area).              *)
FreeAreas(p, n) ==
    {i \in Units : i + n <= nunits /\ Run(i, n) \cap bitmap[p] = {}}

(* The first free area is taken.  With kva = 0 the address computed is     *)
(* idx * UNIT: NULL for idx 0, which the caller takes for a failure though *)
(* the units are marked, and a wild pointer otherwise.                     *)
kocl_malloc(c, channel, n) ==
    LET p == PoolOf(channel)
    IN  /\ ~oops
        /\ buf[c] = NoBuf
        /\ nunits > 0
        /\ IF "bitmap" \notin arrays[p] THEN
             /\ oops' = TRUE
             /\ UNCHANGED <<bitmap, alloc_sz, buf>>
           ELSE \E i \in FreeAreas(p, n) :
             /\ \A j \in FreeAreas(p, n) : i <= j
             /\ bitmap' = [bitmap EXCEPT ![p] = @ \cup Run(i, n)]
             /\ alloc_sz' = [alloc_sz EXCEPT ![p][i] = n]
             /\ buf' = IF kva[p] = 0 THEN buf ELSE
                  [buf EXCEPT ![c] = [pool |-> p, map |-> kva[p], idx |-> i, n |-> n]]
             /\ oops' = ("alloc_sz" \notin arrays[p] \/ (kva[p] = 0 /\ i > 0))
        /\ UNCHANGED <<uva, kva, nunits, arrays, regs, freeing, overtaken>>

-----------------------------------------------------------------------------
(* kocl_free of the pointer off units into c's buffer                      *)

(* Fields of the pool are read, the index computed and range-checked.  A   *)
(* pointer into an earlier registration is out of range: the call returns  *)
(* and the client has no buffer any more.                                  *)
kocl_free_index(c, off) ==
    LET b == buf[c]
    IN  /\ ~oops
        /\ b.n > 0 /\ off < b.n
        /\ freeing[c] = NotFreeing
        /\ IF b.map = kva[b.pool]
           THEN /\ freeing' = [freeing EXCEPT ![c] =
                                 [step |-> "lookup", idx |-> b.idx + off, n |-> 0]]
                /\ UNCHANGED buf
           ELSE /\ buf' = [buf EXCEPT ![c] = NoBuf]
                /\ UNCHANGED freeing
        /\ UNCHANGED <<uva, kva, nunits, arrays, bitmap, alloc_sz, regs,
                       overtaken, oops>>

(* A call that ends gives up the buffer if it was made with its address.   *)
Return(c) ==
    /\ freeing' = [freeing EXCEPT ![c] = NotFreeing]
    /\ buf' = IF freeing[c].idx = buf[c].idx THEN [buf EXCEPT ![c] = NoBuf] ELSE buf

(* alloc_sz[idx] is read without the lock; 0 and sizes beyond the end of   *)
(* the pool end the call.                                                  *)
kocl_free_lookup(c) ==
    LET n == alloc_sz[buf[c].pool][freeing[c].idx]
    IN  /\ ~oops
        /\ freeing[c].step = "lookup"
        /\ IF n = 0 \/ n > nunits - freeing[c].idx
           THEN Return(c)
           ELSE /\ freeing' = [freeing EXCEPT ![c].step = "clear", ![c].n = n]
                /\ UNCHANGED buf
        /\ UNCHANGED <<uva, kva, nunits, arrays, bitmap, alloc_sz, regs,
                       overtaken, oops>>

(* Mutant: the last unit of the buffer stays marked.                       *)
kocl_free_clear_oneShort(c) ==
    LET p == buf[c].pool
        f == freeing[c]
    IN  /\ ~oops
        /\ f.step = "clear"
        /\ bitmap' = [bitmap EXCEPT ![p] = @ \ Run(f.idx, f.n - 1)]
        /\ alloc_sz' = [alloc_sz EXCEPT ![p][f.idx] = 0]
        /\ Return(c)
        /\ UNCHANGED <<uva, kva, nunits, arrays, regs, overtaken, oops>>

(* Under gmpool_lock: clear the bits and forget the size.                  *)
kocl_free_clear(c) ==
    LET p == buf[c].pool
        f == freeing[c]
    IN  /\ ~oops
        /\ f.step = "clear"
        /\ bitmap' = [bitmap EXCEPT ![p] = @ \ Run(f.idx, f.n)]
        /\ alloc_sz' = [alloc_sz EXCEPT ![p][f.idx] = 0]
        /\ Return(c)
        /\ UNCHANGED <<uva, kva, nunits, arrays, regs, overtaken, oops>>

-----------------------------------------------------------------------------
(* Every way the ioctl can end; k matters for a failed allocation only.    *)
Register ==
    \E s \in DOMAIN Stage, fresh \in [Pools -> FreshContents],
      unmapped \in SUBSET Pools :
        \E k \in IF s \in Arrays THEN Pools ELSE {1} :
            set_gpu_mempool(s, k, fresh, unmapped)

Malloc == \E c \in Clients, ch \in Channels, n \in Sizes : kocl_malloc(c, ch, n)

FreeRest == \E c \in Clients : kocl_free_lookup(c) \/ kocl_free_clear(c)

(* The clients of the repository free a buffer by its own address.         *)
Next == Register \/ Malloc \/ FreeRest \/ \E c \in Clients : kocl_free_index(c, 0)

Spec == Init /\ [][Next]_vars

-----------------------------------------------------------------------------
Buf == [pool : Pools, map : Nat, idx : Units, n : Nat]
Freeing == [step : {"no", "lookup", "clear"}, idx : Units, n : Nat]

(* The fields of the pools and the clients' pointers have the types the    *)
(* driver declares; no bit outside the pool is ever set or cleared and no  *)
(* size is stored outside alloc_sz.                                        *)
TypeOK ==
    /\ uva \in Nat /\ regs \in Nat
    /\ kva \in [Pools -> Nat]
    /\ nunits \in {0, NUnits}
    /\ arrays \in [Pools -> SUBSET Arrays]
    /\ bitmap \in [Pools -> SUBSET Units]
    /\ alloc_sz \in [Pools -> [Units -> Nat]]
    /\ buf \in [Clients -> Buf]
    /\ freeing \in [Clients -> Freeing]
    /\ overtaken \in BOOLEAN /\ oops \in BOOLEAN

(* c holds a buffer of the registration pool p is mapped to now.           *)
Live(c, p) == buf[c].n > 0 /\ buf[c].pool = p /\ buf[c].map = kva[p]

Taken(c) == Run(buf[c].idx, buf[c].n)

(* Two clients never hold overlapping memory: kocl_free's unlocked reads   *)
(* and a helper that registers again do not make kocl_malloc hand out a    *)
(* unit twice, unless a registration overtook a running kocl_free.         *)
NoSharedUnits ==
    ~overtaken =>
        \A c, d \in Clients : \A p \in Pools :
            c # d /\ Live(c, p) /\ Live(d, p) => Taken(c) \cap Taken(d) = {}

(* In a mapped pool the bitmap marks exactly the units of the buffers that *)
(* are out: nothing a client uses is unmarked and nothing freed is lost.   *)
BitmapExact ==
    ~overtaken =>
        \A p \in Pools : kva[p] # 0 =>
            bitmap[p] = UNION {Taken(c) : c \in {d \in Clients : Live(d, p)}}

(* kocl_malloc follows a NULL array or hands out a wild pointer only while *)
(* some pool has no mapping, that is after a registration that failed.     *)
NoOopsWhenMapped == oops => \E p \in Pools : kva[p] = 0

=============================================================================
