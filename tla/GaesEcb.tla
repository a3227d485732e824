------------------------------ MODULE GaesEcb ------------------------------
(***************************************************************************)
(* gaes/gaes_ecb/gaes_ecb.c: one encryption or decryption of n bytes by    *)
(* the gaes(ecb) cipher.  A long one is split into parts that are          *)
(* offloaded asynchronously, each with a completion; the caller then waits *)
(* for the completions, last part first, and frees them.  Any other is one *)
(* synchronous offload.                                                    *)
(*                                                                         *)
(* The driver and the helper are the action Respond: they run a part's     *)
(* callback some time after it was offloaded (KoclDev has their detail).   *)
(***************************************************************************)
EXTENDS Integers, FiniteSets

CONSTANTS
    Lengths,        \* lengths of the data, in bytes
    PageSize,       \* PAGE_SIZE
    BlockSize,      \* bytes of a cipher block (16)
    SplitPages,     \* pages from which the data is split (512)
    PartsAt,        \* parts for exactly SplitPages pages (4)
    PartsAbove,     \* parts for more (8)
    MaxSignals      \* bound: signals that reach the waiting caller

ASSUME SizesAssumption ==
    /\ PageSize \in Nat \ {0} /\ BlockSize \in Nat \ {0}
    /\ PageSize % BlockSize = 0
    /\ SplitPages \in Nat \ {0}
    /\ PartsAt \in Nat \ {0} /\ PartsAbove \in Nat \ {0}
    /\ Lengths \subseteq {n \in Nat : n % BlockSize = 0}

VARIABLES
    n,          \* nbytes of this call
    pc,         \* "start", "submit", "sync", "wait" or "returned"
    i,          \* the loop counter of crypto_ecb_gpu_crypt
    remainings, \* bytes not yet offloaded
    part,       \* per part: "none", "sent", "lost" (never offloaded), "done"
    cs,         \* the completions: "none", "live" or "freed"
    ret,        \* what the last crypto_gaes_ecb_crypt returned
    writes,     \* per byte of dst: how often a part's result covered it
    buffers,    \* parts whose kernel buffer is allocated
    signals

vars == <<n, pc, i, remainings, part, cs, ret, writes, buffers, signals>>

Parts == 0 .. (PartsAt + PartsAbove)

Init ==
    /\ n \in Lengths
    /\ pc = "start" /\ i = 0 /\ remainings = n
    /\ part = [k \in Parts |-> "none"]
    /\ cs = "none" /\ ret = 0
    /\ writes = [x \in 0 .. (n - 1) |-> 0]
    /\ buffers = {}
    /\ signals = 0

-----------------------------------------------------------------------------
nparts == IF n \div PageSize = SplitPages THEN PartsAt ELSE PartsAbove
partsz == n \div nparts

(* Mutant: the last part is not given what division left over.             *)
PartSizeEven(k) == partsz

PartSize(k) == IF k = nparts - 1 THEN n - k * partsz ELSE partsz

RoundUp(x) == ((x + PageSize - 1) \div PageSize) * PageSize

(* The bytes that a part of sz bytes from offset moves.  The walk goes     *)
(* over the data from its beginning, page by page, and takes the pages     *)
(* that begin at offset or later.                                          *)
Walked(sz, offset) ==
    {x \in 0 .. (sz + offset - 1) : (x \div PageSize) * PageSize >= offset}

(* The GPU works on whole blocks of the buffer the walk has filled.        *)
Crypted(sz, offset) ==
    {x \in Walked(sz, offset) :
        x - RoundUp(offset) < (sz \div BlockSize) * BlockSize}

__done_cryption(sz, offset) ==
    writes' = [x \in DOMAIN writes |->
                 IF x \in Crypted(sz, offset) THEN writes[x] + 1 ELSE writes[x]]

-----------------------------------------------------------------------------
(* crypto_ecb_gpu_crypt: split, or one synchronous call; also the latter   *)
(* when the completions cannot be allocated.                               *)
crypto_ecb_gpu_crypt ==
    /\ pc = "start"
    /\ \/ n \div PageSize >= SplitPages /\ pc' = "submit" /\ cs' = "live"
       \/ pc' = "sync" /\ UNCHANGED cs
    /\ UNCHANGED <<n, i, remainings, part, ret, writes, buffers, signals>>

(* One turn of the loop: init_completion and crypto_gaes_ecb_crypt with    *)
(* that completion.  It has no request or no buffer (-EFAULT), or no async *)
(* data, in which case it offloads nothing and returns 0.                  *)
submit ==
    /\ pc = "submit"
    /\ i < nparts /\ remainings > 0
    /\ \/ /\ ret' = -1 /\ pc' = "wait" /\ i' = i - 1
          /\ UNCHANGED <<remainings, part, buffers>>
       \/ /\ part' = [part EXCEPT ![i] = "lost"]
          /\ buffers' = buffers \cup {i}
          /\ ret' = 0 /\ i' = i + 1 /\ remainings' = remainings - partsz
          /\ UNCHANGED pc
       \/ /\ part' = [part EXCEPT ![i] = "sent"]
          /\ buffers' = buffers \cup {i}
          /\ ret' = 0 /\ i' = i + 1 /\ remainings' = remainings - partsz
          /\ UNCHANGED pc
    /\ UNCHANGED <<n, cs, writes, signals>>

(* Mutant: the wait begins with the part after the last.                   *)
submittedWaitsForNext ==
    /\ pc = "submit"
    /\ ~(i < nparts /\ remainings > 0)
    /\ pc' = "wait" /\ i' = i
    /\ UNCHANGED <<n, remainings, part, cs, ret, writes, buffers, signals>>

(* The loop is over.                                                       *)
submitted ==
    /\ pc = "submit"
    /\ ~(i < nparts /\ remainings > 0)
    /\ pc' = "wait" /\ i' = i - 1
    /\ UNCHANGED <<n, remainings, part, cs, ret, writes, buffers, signals>>

(* async_gpu_callback, run for part k when its response comes: the result  *)
(* goes to dst, the completion is signalled, the buffer freed.             *)
async_gpu_callback(k) ==
    /\ part[k] = "sent"
    /\ __done_cryption(PartSize(k), k * partsz)
    /\ part' = [part EXCEPT ![k] = "done"]
    /\ buffers' = buffers \ {k}
    /\ UNCHANGED <<n, pc, i, remainings, cs, ret, signals>>

(* wait_for_completion_interruptible(cs + i), whose result is ignored.     *)
wait ==
    /\ pc = "wait" /\ i >= 0
    /\ part[i] = "done"
    /\ i' = i - 1
    /\ UNCHANGED <<n, pc, remainings, part, cs, ret, writes, buffers, signals>>

wait_interrupted ==
    /\ pc = "wait" /\ i >= 0
    /\ part[i] # "done"
    /\ signals < MaxSignals /\ signals' = signals + 1
    /\ i' = i - 1
    /\ UNCHANGED <<n, pc, remainings, part, cs, ret, writes, buffers>>

free_and_return ==
    /\ pc = "wait" /\ i < 0
    /\ cs' = "freed"
    /\ pc' = "returned"
    /\ UNCHANGED <<n, i, remainings, part, ret, writes, buffers, signals>>

(* crypto_gaes_ecb_crypt without a completion: no request or buffer, or    *)
(* kocl_offload_sync with its result.                                      *)
crypt_sync ==
    /\ pc = "sync"
    /\ \/ ret' = -1 /\ UNCHANGED writes
       \/ ret' = 0 /\ __done_cryption(n, 0)
    /\ pc' = "returned"
    /\ UNCHANGED <<n, i, remainings, part, cs, buffers, signals>>

Respond == \E k \in Parts : async_gpu_callback(k)

CallerStep == \/ crypto_ecb_gpu_crypt \/ submit \/ submitted
              \/ wait \/ free_and_return \/ crypt_sync

Next == Respond \/ CallerStep \/ wait_interrupted

Spec == Init /\ [][Next]_vars

(* The driver answers what was offloaded to it, and the caller runs; no    *)
(* signal need come.                                                       *)
FairSpec == Spec /\ WF_vars(Respond) /\ WF_vars(CallerStep)

-----------------------------------------------------------------------------
Success == pc = "returned" /\ ret = 0 /\ signals = 0
WholePages == cs = "none" \/ partsz % PageSize = 0

(* The parts' results never overlap, in whatever order they arrive and     *)
(* however the length divides; a call that reports success has covered     *)
(* every byte, when the parts are whole pages; and no callback is          *)
(* outstanding when the completions are freed and the caller's scatterlists*)
(* go out of use - unless a signal ended a wait.                           *)
WholeData ==
    /\ \A x \in DOMAIN writes : writes[x] <= 1
    /\ Success /\ WholePages => \A x \in DOMAIN writes : writes[x] = 1
    /\ cs = "freed" /\ signals = 0 => \A k \in Parts : part[k] # "sent"

(* "Each time 512KB are given to the gpu to compute, the last time the     *)
(* remainings": the parts make up the data, whatever its length.           *)
PartsMakeUpData == Success => \A x \in DOMAIN writes : writes[x] = 1

(* The caller returns, unless a part was never offloaded because its async *)
(* data could not be allocated, which leaves it waiting.                   *)
Returns == <>(pc = "returned" \/ \E k \in Parts : part[k] = "lost")
=============================================================================
