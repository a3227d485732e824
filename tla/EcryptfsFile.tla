---------------------------- MODULE EcryptfsFile ----------------------------
(***************************************************************************)
(* ecryptfs_write2 and ecryptfs_read2 of gaes/ecryptfs_4.7_kocl: a call    *)
(* collects pages of the page cache and has all of them encrypted, or      *)
(* decrypted, in one request to the GPU.  Calls on one encrypted file run  *)
(* at the same time, as neither takes the inode's lock; the page lock is   *)
(* held while a page is filled, but not while it is encrypted.             *)
(*                                                                         *)
(* A byte is the process that wrote it and the offset it was written for,  *)
(* with the number of times it was encrypted more often than decrypted.    *)
(***************************************************************************)
EXTENDS Integers, Sequences, FiniteSets

CONSTANTS
    Procs,                     \* processes that read and write
    PageBytes, NPages,         \* bytes of a page, pages of the file
    WriteOffsets, WriteSizes,  \* ranges that are written
    ReadOffsets, ReadSizes,    \* ranges that are read
    MaxCalls                   \* bound on the calls made

ASSUME FileAssumption ==
    /\ PageBytes \in Nat \ {0} /\ NPages \in Nat
    /\ {"none", "zero"} \cap Procs = {}
    /\ WriteSizes \cup ReadSizes \subseteq Nat \ {0}
    /\ WriteOffsets \cup ReadOffsets \subseteq Nat

Pages == 0 .. NPages - 1
InPage == 0 .. PageBytes - 1
Bytes == 0 .. NPages * PageBytes - 1

Byte(v, o, n) == [value |-> v, offset |-> o, layers |-> n]
Zero == Byte("zero", 0, 0)
Junk == [b \in InPage |-> Byte("junk", 0, 0)]  \* a page as it comes from the allocator
NoPage == << >>                             \* not in the cache, or not in the lower file

VARIABLES
    size,       \* i_size
    cache,      \* per page: its bytes in the page cache
    lower,      \* per page: its bytes in the lower file
    locked,     \* pages that are locked
    leaked,     \* pages with a reference that no call will drop
    call,       \* per process: its call
    calls,      \* number of calls made so far
    (* History. *)
    file,       \* per byte: who wrote it last, "none", or "zero"
    shared,     \* pages that a write and another call worked on at the same time
    spoiled,    \* pages a write left without bytes of the file, in the cache or below
    overlapped, \* two calls ran at the same time
    failed      \* an allocation or the cipher failed

history == <<file, shared, spoiled, overlapped, failed>>
fileVars == <<size, cache, lower, locked, leaked, call, calls, history>>

(* at: pages done in the current loop.  pgs: the array of pages.  enc: the *)
(* encrypted pages.  got: what was copied to the caller.                   *)
Idle == [pc |-> "idle", off |-> 0, n |-> 0, fsz |-> 0, pos |-> 0, at |-> 0,
         pgs |-> << >>, enc |-> << >>, got |-> << >>]

FileInit ==
    /\ size = 0
    /\ cache = [g \in Pages |-> NoPage]
    /\ lower = [g \in Pages |-> NoPage]
    /\ locked = {}
    /\ leaked = {}
    /\ call = [p \in Procs |-> Idle]
    /\ calls = 0
    /\ file = [b \in Bytes |-> "none"]
    /\ shared = {}
    /\ spoiled = {}
    /\ overlapped = FALSE
    /\ failed = FALSE

-----------------------------------------------------------------------------
Least(a, b) == IF a < b THEN a ELSE b
Running == {p \in Procs : call[p].pc # "idle"}
PageOf(pos) == pos \div PageBytes
At(g, b) == g * PageBytes + b
First(c) == c.pos % PageBytes
End(c) == c.off + c.n

(* num_bytes: to the end of the page, of the call, or of the zeros.        *)
NumBytes(c) ==
    LET toEnd == Least(PageBytes - First(c), End(c) - c.pos)
    IN  IF c.pos < c.off THEN Least(toEnd, c.off - c.pos) ELSE toEnd

Cached(g) == IF cache[g] = NoPage THEN Junk ELSE cache[g]
Layer(page, n) == [b \in InPage |-> [page[b] EXCEPT !.layers = @ + n]]

(* Mutant: the count is rounded down.                                      *)
nrpgs_down(n) == (n - 1) \div PageBytes

nrpgs(n) == n \div PageBytes + (IF n % PageBytes # 0 THEN 1 ELSE 0)

nr_pages(n) == (n + PageBytes - 1) \div PageBytes

Pgs(c, i, j) == {c.pgs[k] : k \in i .. j}

Writes(c) == c.pc \in {"fill", "store"}

(* The pages a call works on: a write2 begins at the end of the file if    *)
(* that comes first, and a read2 always at page 0.                         *)
Touched(c) ==
    CASE c.pc = "idle" -> {}
      [] Writes(c) -> PageOf(Least(c.fsz, c.off)) .. PageOf(End(c) - 1)
      [] OTHER -> 0 .. nr_pages(c.n) - 1

begin(p, c) ==
    /\ calls < MaxCalls
    /\ p \notin Running
    /\ calls' = calls + 1
    /\ call' = [call EXCEPT ![p] = c]
    /\ overlapped' = (overlapped \/ Running # {})
    /\ shared' = shared \cup UNION {Touched(c) \cap Touched(call[q]) :
                                    q \in {r \in Running : Writes(c) \/ Writes(call[r])}}

-----------------------------------------------------------------------------
(* ecryptfs_write2. *)

write2(p, off, n) ==
    /\ off + n <= NPages * PageBytes
    /\ begin(p, [Idle EXCEPT !.pc = "fill", !.off = off, !.n = n, !.fsz = size,
                             !.pos = Least(off, size)])
    /\ UNCHANGED <<size, cache, lower, locked, leaked, file, spoiled, failed>>

(* Zeros are written to the end of the page.                               *)
Zeroes(c) == c.pos < c.off \/ First(c) = 0

(* A page with the zeros and the data of one turn of the loop.             *)
Filled(p, c, page) ==
    [b \in InPage |->
        IF c.pos >= c.off /\ b \in First(c) .. First(c) + NumBytes(c) - 1
            THEN Byte(p, c.pos + b - First(c), 0)
        ELSE IF Zeroes(c) /\ b >= First(c)
            THEN Zero
        ELSE page[b]]

(* The turn begins within a page that was not read from the lower file, or *)
(* sets bytes of the file to zero that are beyond the write.               *)
Spoils(c) ==
    LET g == PageOf(c.pos)
    IN  \/ First(c) # 0 /\ cache[g] = NoPage
        \/ Zeroes(c) /\ \E b \in InPage : At(g, b) >= End(c) /\ file[At(g, b)] # "none"

(* One turn of the loop; the page is locked from its beginning to its end. *)
write2_page(p) ==
    LET c == call[p]
        g == PageOf(c.pos)
    IN  /\ c.pc = "fill" /\ c.pos < End(c)
        /\ g \notin locked
        /\ cache' = [cache EXCEPT ![g] = Filled(p, c, Cached(g))]
        /\ call' = [call EXCEPT ![p].pos = c.pos + NumBytes(c), ![p].pgs = Append(@, g)]
        /\ spoiled' = IF Spoils(c) THEN spoiled \cup {g} ELSE spoiled
        /\ UNCHANGED <<size, lower, locked, leaked, calls, file, shared, overlapped, failed>>

encrypted(p, pages) ==
    /\ call[p].pc = "fill" /\ call[p].pos = End(call[p])
    /\ call' = [call EXCEPT ![p].pc = "store", ![p].enc = pages]
    /\ UNCHANGED <<size, cache, lower, locked, leaked, calls>>

(* ecryptfs_encrypt_pages2, with the pages unlocked.                       *)
encrypt_pages2(p) ==
    LET c == call[p]
    IN  /\ encrypted(p, [i \in 1 .. nrpgs(c.n) |-> Layer(cache[c.pgs[i]], 1)])
        /\ UNCHANGED history

(* Nothing is stored, or pages that the cipher did not write to.           *)
encrypt_pages2_fails(p) ==
    /\ \E pages \in {<< >>, [i \in 1 .. nrpgs(call[p].n) |-> Junk]} : encrypted(p, pages)
    /\ failed' = TRUE
    /\ UNCHANGED <<file, shared, spoiled, overlapped>>

(* ecryptfs_write_lower of the next page.                                  *)
encrypt_pages2_store(p) ==
    LET c == call[p]
    IN  /\ c.pc = "store" /\ c.at < Len(c.enc)
        /\ lower' = [lower EXCEPT ![c.pgs[c.at + 1]] = c.enc[c.at + 1]]
        /\ call' = [call EXCEPT ![p].at = @ + 1]
        /\ UNCHANGED <<size, cache, locked, leaked, calls, history>>

(* The size is set if the write ends beyond the size seen at its beginning.*)
NewSize(c) == IF End(c) > c.fsz THEN End(c) ELSE size

(* The encrypted pages that the write filled from end to end.              *)
Whole(c) == {g \in Pgs(c, 1, nrpgs(c.n)) :
               Least(c.fsz, c.off) <= At(g, 0) /\ At(g, PageBytes) <= End(c)}

(* The pages beyond as many as its size is long.                           *)
Beyond(c) == Pgs(c, nr_pages(c.n) + 1, Len(c.pgs)) \ Pgs(c, 1, nr_pages(c.n))

(* The references to the first nrpgs pages are dropped.                    *)
write2_end(p) ==
    LET c == call[p]
    IN  /\ c.pc = "store" /\ c.at = Len(c.enc)
        /\ leaked' = leaked \cup Pgs(c, nrpgs(c.n) + 1, Len(c.pgs))
        /\ spoiled' = (spoiled \ Whole(c)) \cup Beyond(c)
        /\ size' = NewSize(c)
        /\ call' = [call EXCEPT ![p] = Idle]
        /\ file' = [b \in Bytes |-> IF b \in c.off .. End(c) - 1 THEN p
                                    ELSE IF b \in c.fsz .. c.off - 1 THEN "zero"
                                    ELSE file[b]]
        /\ UNCHANGED <<cache, lower, locked, calls, shared, overlapped, failed>>

-----------------------------------------------------------------------------
(* ecryptfs_read2. *)

read2(p, off, n) ==
    /\ begin(p, [Idle EXCEPT !.pc = "grab", !.off = off, !.n = Least(n, size),
                             !.fsz = size, !.pos = off])
    /\ UNCHANGED <<size, cache, lower, locked, leaked, file, spoiled, failed>>

(* grab_cache_page of pages 0, 1, ... wherever the read begins.            *)
read2_grab(p) ==
    LET c == call[p]
        g == c.at
    IN  /\ c.pc = "grab" /\ g < nr_pages(c.n)
        /\ g \notin locked
        /\ locked' = locked \cup {g}
        /\ cache' = [cache EXCEPT ![g] = Cached(g)]
        /\ call' = [call EXCEPT ![p].at = @ + 1, ![p].pgs = Append(@, g)]
        /\ UNCHANGED <<size, lower, leaked, calls, history>>

read2_grabbed(p) ==
    /\ call[p].pc = "grab" /\ call[p].at = nr_pages(call[p].n)
    /\ call' = [call EXCEPT ![p].pc = "load", ![p].at = 0]
    /\ UNCHANGED <<size, cache, lower, locked, leaked, calls, history>>

(* What ecryptfs_read_lower leaves in the page: a hole reads as zeros, and *)
(* nothing is read beyond the end of the lower file.                       *)
Loaded(g) ==
    IF lower[g] # NoPage THEN lower[g]
    ELSE IF \E h \in Pages : h > g /\ lower[h] # NoPage
        THEN [b \in InPage |-> Zero]
    ELSE cache[g]

decrypt_pages_load(p) ==
    LET c == call[p]
    IN  /\ c.pc = "load" /\ c.at < Len(c.pgs)
        /\ cache' = [cache EXCEPT ![c.pgs[c.at + 1]] = Loaded(c.pgs[c.at + 1])]
        /\ call' = [call EXCEPT ![p].at = @ + 1]
        /\ UNCHANGED <<size, lower, locked, leaked, calls, history>>

(* Mutant: the last page is left out of the request.                       *)
Decrypted_butLast(c) == Pgs(c, 1, Len(c.pgs) - 1)

Decrypted(c) == Pgs(c, 1, Len(c.pgs))

decrypt_pages(p) ==
    LET c == call[p]
    IN  /\ c.pc = "load" /\ c.at = Len(c.pgs)
        /\ cache' = [g \in Pages |-> IF g \in Decrypted(c) THEN Layer(cache[g], -1)
                                     ELSE cache[g]]
        /\ call' = [call EXCEPT ![p].pc = "copy", ![p].at = 0]
        /\ UNCHANGED <<size, lower, locked, leaked, calls, history>>

(* The list cannot be allocated, or the cipher fails: the pages are copied *)
(* as they are.                                                            *)
decrypt_pages_fails(p) ==
    LET c == call[p]
    IN  /\ c.pc = "load" /\ c.at \in {0, Len(c.pgs)}
        /\ call' = [call EXCEPT ![p].pc = "copy", ![p].at = 0]
        /\ failed' = TRUE
        /\ UNCHANGED <<size, cache, lower, locked, leaked, calls, file, shared,
                       spoiled, overlapped>>

(* A page cannot be grabbed, or the read begins at the end of the file or  *)
(* later: the function is left with its pages locked.                      *)
read2_out(p) ==
    LET c == call[p]
    IN  /\ \/ c.pc = "grab" /\ c.at < nr_pages(c.n) /\ failed' = TRUE
           \/ c.pc = "copy" /\ c.off >= c.fsz /\ failed' = failed
        /\ leaked' = leaked \cup Pgs(c, 1, Len(c.pgs))
        /\ call' = [call EXCEPT ![p] = Idle]
        /\ UNCHANGED <<size, cache, lower, locked, calls, file, shared, spoiled, overlapped>>

Copying(c) == c.pc = "copy" /\ c.off < c.fsz

Unlocked(c) == {c.pgs[c.at + 1]}

(* The pages are copied in the order of the array.                         *)
read2_copy(p) ==
    LET c == call[p]
    IN  /\ Copying(c) /\ c.pos < End(c) /\ c.at < Len(c.pgs)
        /\ call' = [call EXCEPT ![p].pos = @ + NumBytes(c), ![p].at = @ + 1,
               ![p].got = @ \o [i \in 1 .. NumBytes(c) |->
                                  cache[c.pgs[c.at + 1]][First(c) + i - 1]]]
        /\ locked' = locked \ Unlocked(c)
        /\ UNCHANGED <<size, cache, lower, leaked, calls, history>>

(* The range has a page more than the array: the kernel stops the process. *)
read2_past_array(p) ==
    /\ Copying(call[p]) /\ call[p].pos < End(call[p]) /\ call[p].at = Len(call[p].pgs)
    /\ call' = [call EXCEPT ![p] = [Idle EXCEPT !.pc = "killed"]]
    /\ UNCHANGED <<size, cache, lower, locked, leaked, calls, history>>

read2_end(p) ==
    /\ Copying(call[p]) /\ call[p].pos = End(call[p])
    /\ call' = [call EXCEPT ![p].pc = "read"]
    /\ UNCHANGED <<size, cache, lower, locked, leaked, calls, history>>

read2_return(p) ==
    /\ call[p].pc = "read"
    /\ call' = [call EXCEPT ![p] = Idle]
    /\ UNCHANGED <<size, cache, lower, locked, leaked, calls, history>>

(* The kernel takes back a page that is not locked and not referenced.     *)
reclaim(g) ==
    /\ cache[g] # NoPage
    /\ g \notin locked \cup leaked
    /\ \A p \in Procs : g \notin Pgs(call[p], 1, Len(call[p].pgs))
    /\ cache' = [cache EXCEPT ![g] = NoPage]
    /\ UNCHANGED <<size, lower, locked, leaked, call, calls, history>>

-----------------------------------------------------------------------------
FileNext ==
    \/ \E p \in Procs :
        \/ \E off \in WriteOffsets, n \in WriteSizes : write2(p, off, n)
        \/ write2_page(p) \/ encrypt_pages2(p) \/ encrypt_pages2_fails(p)
        \/ encrypt_pages2_store(p) \/ write2_end(p)
        \/ \E off \in ReadOffsets, n \in ReadSizes : read2(p, off, n)
        \/ read2_grab(p) \/ read2_grabbed(p)
        \/ decrypt_pages_load(p) \/ decrypt_pages(p) \/ decrypt_pages_fails(p)
        \/ read2_out(p) \/ read2_copy(p) \/ read2_past_array(p)
        \/ read2_end(p) \/ read2_return(p)
    \/ \E g \in Pages : reclaim(g)

FileSpec == FileInit /\ [][FileNext]_fileVars

-----------------------------------------------------------------------------
(* A byte of the file as the finished calls wrote it.                      *)
Wrote(o) == IF file[o] = "zero" THEN Zero ELSE Byte(file[o], o, 0)

(* What finished writes wrote is in the lower file, encrypted once, in     *)
(* every page that no other call worked on during a write, whatever offset *)
(* and size a write has, whatever order calls on other pages ran in, and   *)
(* however the page left the cache, came back and was decrypted in place   *)
(* in between - but for spoiled pages, which a write did not read before   *)
(* it filled a part, set to zero behind its end, or had beyond its count.  *)
PagesStored ==
    ~failed =>
        \A g \in Pages \ UNION ({shared, spoiled} \cup {Touched(call[p]) : p \in Procs}) :
            \A b \in InPage :
                LET o == At(g, b)
                IN  file[o] # "none" =>
                        lower[g] # NoPage /\ lower[g][b] = [Wrote(o) EXCEPT !.layers = 1]

(* A read that begins in the first page, and spans no more pages than its  *)
(* size rounds up to, returns what was written last.                       *)
ReadMatches ==
    \A p \in Procs :
        LET c == call[p]
        IN  /\ c.pc = "read" /\ ~failed /\ Touched(c) \cap (shared \cup spoiled) = {}
            /\ c.off < PageBytes /\ PageOf(End(c) - 1) < nr_pages(c.n) /\ End(c) <= c.fsz
            => /\ Len(c.got) = c.n
               /\ \A i \in 1 .. c.n : c.got[i] = Wrote(c.off + i - 1)

(* A read returns what the file has at its range, wherever that begins.    *)
ReadsItsRange ==
    \A p \in Procs :
        LET c == call[p]
        IN  c.pc = "read" /\ ~failed /\ ~overlapped =>
                \A i \in 1 .. c.n : c.off + i <= c.fsz
                    => c.got[i] = Wrote(c.off + i - 1)

=============================================================================
