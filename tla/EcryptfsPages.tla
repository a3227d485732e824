--------------------------- MODULE EcryptfsPages ---------------------------
(***************************************************************************)
(* The page cache of eCryptfs of Linux 4.7, gaes/ecryptfs_4.7_orig: write, *)
(* truncate, stores through a mapping, write-back and reclaim of pages.    *)
(* mmap.c, read_write.c and the truncation of inode.c; the kocl tree uses  *)
(* the same code for mappings and truncation.                              *)
(*                                                                         *)
(* Writes and truncations hold the inode's lock, so one runs at a time;    *)
(* stores, faults, write-back and reclaim come in between.  A byte is the  *)
(* number of the call that wrote it; a byte of the lower file is what it   *)
(* decrypts to.  A file is encrypted, or plain (passed through).           *)
(***************************************************************************)
EXTENDS Integers, Sequences

CONSTANTS PSize, PCount,  \* bytes of a page, pages of the file
          Kinds,          \* "encrypted", "plain"
          WriteRanges,    \* <<offset, size>> of writes, each within a page
          Truncations,    \* sizes to truncate to
          MaxOps,         \* bound: writes and truncations
          MaxStores       \* bound: stores through the mapping

(* Writes are within a page of the file, truncations within the file.      *)
ASSUME EcryptfsPagesAssumption ==
  /\ PSize \in Nat \ {0} /\ PCount \in Nat /\ MaxOps \in Nat /\ MaxStores \in Nat
  /\ Kinds \subseteq {"encrypted", "plain"}
  /\ \A w \in WriteRanges : /\ w[1] \in 0..PCount * PSize - 1 /\ w[2] \in Nat \ {0}
                            /\ (w[1] % PSize) + w[2] <= PSize
  /\ Truncations \subseteq 0..PCount * PSize

Indices == 0..PCount - 1
Offsets == 0..PCount * PSize - 1
NoOne == -1                                \* what nobody wrote: memory, a hole that was decrypted
Anything == -2                             \* a byte of a call that failed
Uninitialised == [b \in 0..PSize - 1 |-> NoOne]

VARIABLES kind,      \* of the file
          isize,     \* i_size
          header,    \* the size in the metadata
          pages,     \* contents of the page cache
          uptodate, dirty, held,  \* pages with the flag, and locked pages
          below,     \* bytes of the lower file
          op,        \* the call that holds the inode's lock
          back,      \* the page that is written back, with what was encrypted
          ops, stores,
          (* History. *)
          want,      \* the bytes as the calls and stores wrote them
          holes,     \* bytes that became part of the file without being written
          raced,     \* pages whose write-back ended while ecryptfs_write had encrypted, not stored them
          sizeLost,  \* the size could not be stored
          oops       \* BUG_ON

pagesVars == <<kind, isize, header, pages, uptodate, dirty, held, below, op, back, ops, stores,
               want, holes, raced, sizeLost, oops>>

(* off, n: the range.  pos, end: where ecryptfs_write is and ends.  old:   *)
(* the size it began with.  then: who called it.  data: a page encrypted.  *)
NoOp == [pc |-> "idle", off |-> 0, n |-> 0, pos |-> 0, first |-> 0, end |-> 0, old |-> 0,
         then |-> "none", data |-> Uninitialised, to |-> 0]
NoBack == [page |-> -1, data |-> Uninitialised]

PagesInit ==
  /\ kind \in Kinds /\ isize = 0 /\ header = 0 /\ below = << >>
  /\ pages = [g \in Indices |-> Uninitialised] /\ uptodate = {} /\ dirty = {} /\ held = {}
  /\ op = NoOp /\ back = NoBack /\ ops = 0 /\ stores = 0
  /\ want = [o \in Offsets |-> 0] /\ holes = {} /\ raced = {} /\ sizeLost = FALSE /\ oops = FALSE

-----------------------------------------------------------------------------
Smaller(a, b) == IF a < b THEN a ELSE b
Greater(a, b) == IF a > b THEN a ELSE b
Index(o) == o \div PSize
Start(g) == g * PSize
InFile(g) == Start(g)..Start(g) + PSize - 1

Zeroed(page, from, to) == [b \in DOMAIN page |-> IF b \in from..to - 1 THEN 0 ELSE page[b]]
Set(offsets, v) == [o \in Offsets |-> IF o \in offsets THEN v ELSE want[o]]

(* ecryptfs_read_lower_page_segment and ecryptfs_decrypt_page: behind the  *)
(* end of the lower file the page keeps, or decrypts to, anything.         *)
ReadLower(g) == [b \in 0..PSize - 1 |->
                   IF Start(g) + b < Len(below) THEN below[Start(g) + b + 1] ELSE NoOne]

(* The lower file as one of n bytes.  Its holes are zeros, which decrypt   *)
(* to anything.                                                            *)
Resized(n) == [i \in 1..n |-> IF i <= Len(below) THEN below[i]
                              ELSE IF kind = "plain" THEN 0 ELSE NoOne]

(* ecryptfs_write_lower of n bytes of a page, from its first on.           *)
WriteLower(off, page, n) ==
  below' = [i \in 1..Greater(Len(below), IF n = 0 THEN 0 ELSE off + n) |->
              IF i \in off + 1..off + n THEN page[i - off - 1] ELSE Resized(i)[i]]

(* ecryptfs_write_inode_size_to_metadata                                   *)
StoreSize(size) ==
  IF kind = "plain" THEN UNCHANGED <<header, sizeLost>>
  ELSE \/ header' = size /\ sizeLost' = FALSE
       \/ header' = header /\ sizeLost' = TRUE

Return == op' = NoOp
Begin(o) == op.pc = "idle" /\ ops < MaxOps /\ ops' = ops + 1 /\ op' = o

rest == <<kind, back, stores, oops>>

-----------------------------------------------------------------------------
(* ecryptfs_write_begin: the page is read, zeroed if it is behind the end, *)
(* or left as it is when all of it will be written.  When it is more than  *)
(* a page behind the end the file is extended to it first.                 *)
write_begin(off, n) ==
  LET g == Index(off)
      fresh == kind = "encrypted" /\ Start(g) >= isize
      read == g \notin uptodate /\ ~fresh /\ (kind = "plain" \/ n < PSize)
      o == [NoOp EXCEPT !.off = off, !.n = n]
  IN /\ g \notin held
     /\ Begin(IF g # 0 /\ Start(g) > isize
              THEN [o EXCEPT !.pc = "grow", !.pos = isize, !.first = Start(g) - 1, !.end = Start(g),
                             !.old = isize, !.then = "write"]
              ELSE [o EXCEPT !.pc = "begun"])
     /\ held' = held \cup {g}
     /\ pages' = IF g \in uptodate THEN pages
                 ELSE [pages EXCEPT ![g] = IF fresh THEN [b \in 0..PSize - 1 |-> 0]
                                           ELSE IF read THEN ReadLower(g) ELSE @]
     /\ uptodate' = IF fresh \/ read THEN uptodate \cup {g} ELSE uptodate
     /\ UNCHANGED <<rest, isize, header, dirty, below, want, holes, raced, sizeLost>>

(* Mutant: zeros from the end of the data only.                            *)
Copied_end(g, copied) ==
  LET from == op.off % PSize
      new == [b \in DOMAIN pages[g] |-> IF b \in from..from + copied - 1 THEN ops ELSE pages[g][b]]
  IN IF kind = "encrypted" THEN Zeroed(new, from + copied, PSize) ELSE new

(* Zeros in front of the first bytes of a new page; the data, all or some  *)
(* of it, and ecryptfs_write_end up to the encryption: zeros behind it if  *)
(* the file ends in the page.  A page that is not up to date is given up   *)
(* unless all of it was copied.                                            *)
Copied(g, copied) ==
  LET from == op.off % PSize
      base == IF isize = Start(g) /\ op.off # 0 THEN Zeroed(pages[g], 0, PSize) ELSE pages[g]
      new == [b \in DOMAIN base |-> IF b \in from..from + copied - 1 THEN ops ELSE base[b]]
  IN IF kind = "encrypted" /\ Index(isize) = g
     THEN Zeroed(new, Greater(isize % PSize, from + copied), PSize) ELSE new

write_copy(copied) ==
  LET g == Index(op.off)
      written == op.off..op.off + copied - 1
  IN /\ op.pc = "begun"
     /\ g \in uptodate \/ copied = PSize
     /\ pages' = [pages EXCEPT ![g] = Copied(g, copied)]
     /\ uptodate' = uptodate \cup {g}
     /\ want' = Set(written, ops) /\ holes' = holes \ written
     /\ op' = [op EXCEPT !.pc = "end", !.data = pages'[g], !.to = op.off + copied]
     /\ UNCHANGED <<rest, isize, header, dirty, held, below, ops, raced, sizeLost>>

write_copy_short ==
  LET g == Index(op.off)
  IN /\ op.pc = "begun" /\ g \notin uptodate
     /\ held' = held \ {g} /\ Return
     /\ UNCHANGED <<rest, isize, header, pages, uptodate, dirty, below, ops, want, holes, raced, sizeLost>>

(* ecryptfs_write_end: the encrypted page, the size and the stored size.   *)
write_end ==
  LET g == Index(op.off)
      gap == isize..op.off - 1
  IN /\ op.pc = "end"
     /\ IF kind = "plain" THEN WriteLower(Start(g), op.data, op.to - Start(g))
        ELSE WriteLower(Start(g), op.data, PSize)
     /\ isize' = IF kind = "plain" THEN Len(below') ELSE Greater(isize, op.to)
     /\ want' = [o \in Offsets |-> IF o \in gap /\ o < op.to /\ want[o] # Anything THEN 0 ELSE want[o]]
     /\ holes' = holes \cup {o \in gap : o < op.to}
     /\ StoreSize(isize')
     /\ held' = held \ {g} /\ Return
     /\ UNCHANGED <<rest, pages, uptodate, dirty, ops, raced>>

(* The encryption or the lower write fails: the page stays up to date.     *)
write_end_fails ==
  LET g == Index(op.off)
  IN /\ op.pc = "end"
     /\ want' = Set(op.off..op.to - 1, Anything)
     /\ held' = held \ {g} /\ Return
     /\ UNCHANGED <<rest, isize, header, pages, uptodate, dirty, below, ops, holes, raced, sizeLost>>

-----------------------------------------------------------------------------
(* ecryptfs_truncate and ecryptfs_setattr: a longer file gets a zero at    *)
(* its last byte, a shorter one zeros from its end to the end of the page. *)
truncate(n) ==
  /\ n # isize /\ (n < isize => kind = "encrypted")
  /\ Begin(IF n > isize
           THEN [NoOp EXCEPT !.pc = "grow", !.pos = isize, !.first = n - 1, !.end = n, !.old = isize,
                             !.then = "truncate"]
           ELSE [NoOp EXCEPT !.pc = "grow", !.pos = n, !.first = n, !.end = n + PSize - (n % PSize),
                             !.old = isize, !.then = "shrink", !.off = n])
  /\ UNCHANGED <<rest, isize, header, pages, uptodate, dirty, held, below, want, holes, raced, sizeLost>>

(* What is left of the page cache behind a new end.                        *)
CutPages(n) ==
  LET gone == {g \in Indices : Start(g) >= n}
  IN /\ held \cap {g \in Indices : Start(g) + PSize > n} = {}
     /\ pages' = [g \in Indices |-> IF g \in gone THEN Uninitialised
                                    ELSE IF g \in uptodate /\ g = Index(n)
                                    THEN Zeroed(pages[g], n % PSize, PSize) ELSE pages[g]]
     /\ uptodate' = uptodate \ gone /\ dirty' = dirty \ gone
     /\ holes' = holes \cap 0..n - 1

truncate_plain(n) ==
  /\ kind = "plain" /\ n < isize
  /\ op.pc = "idle" /\ ops < MaxOps /\ ops' = ops + 1
  /\ isize' = n /\ CutPages(n) /\ below' = Resized(n)
  /\ UNCHANGED <<rest, header, held, op, want, raced, sizeLost>>

(* One turn of ecryptfs_write: the page is read, filled with zeros, and    *)
(* encrypted once its lock is released.                                    *)
Turn == Smaller(Start(Index(op.pos)) + PSize,
                IF op.pos < op.first THEN op.first ELSE op.end) - op.pos

PageAt(g) == IF g \in uptodate THEN pages[g] ELSE ReadLower(g)

grow_fill ==
  LET g == Index(op.pos)
      from == op.pos % PSize
      to == IF op.pos < op.first \/ from = 0 THEN PSize ELSE from + Turn
  IN /\ op.pc = "grow" /\ op.pos < op.end /\ g \notin held
     /\ pages' = [pages EXCEPT ![g] = Zeroed(PageAt(g), from, to)]
     /\ uptodate' = uptodate \cup {g}
     /\ want' = IF op.then = "shrink" THEN Set(Start(g) + from..Start(g) + to - 1, 0) ELSE want
     /\ op' = [op EXCEPT !.pc = "store", !.data = pages'[g]]
     /\ UNCHANGED <<rest, isize, header, dirty, held, below, ops, holes, raced, sizeLost>>

(* A plain page: as many bytes as the call has data for so far, taken from *)
(* the beginning of the page, whatever the place in it is.                 *)
grow_store ==
  LET g == Index(op.pos)
  IN /\ op.pc = "store"
     /\ IF kind = "plain" THEN WriteLower(op.pos, op.data, IF op.pos < op.first THEN 0 ELSE 1)
        ELSE WriteLower(Start(g), op.data, PSize)
     /\ op' = [op EXCEPT !.pc = "grow", !.pos = @ + Turn]
     /\ UNCHANGED <<rest, isize, header, pages, uptodate, dirty, held, ops, want, holes, raced, sizeLost>>

(* The page cannot be had, encrypted or stored.                            *)
Fails == held' = (IF op.then = "write" THEN held \ {Index(op.off)} ELSE held) /\ Return
grow_fails ==
  /\ op.pc = "store" \/ (op.pc = "grow" /\ op.pos < op.end)
  /\ Fails
  /\ want' = IF op.then = "shrink" THEN Set({o \in Offsets : o >= op.off}, Anything) ELSE want
  /\ UNCHANGED <<rest, isize, header, pages, uptodate, dirty, below, ops, holes, raced, sizeLost>>

(* Mutant: a signal leaves without storing the size.                       *)
grow_end_unsized ==
  LET interrupted == op.pos < op.end
      grown == op.pos > op.old
      filled == op.old..op.pos - 1
  IN /\ op.pc = "grow"
     /\ IF grown THEN /\ isize' = op.pos
                     /\ IF interrupted THEN UNCHANGED <<header, sizeLost>> ELSE StoreSize(op.pos)
        ELSE UNCHANGED <<isize, header, sizeLost>>
     /\ want' = IF grown THEN Set(filled, 0) ELSE want
     /\ holes' = IF grown THEN holes \cup filled ELSE holes
     /\ IF interrupted \/ (grown /\ sizeLost') \/ op.then = "truncate" THEN Fails
        ELSE /\ op' = [op EXCEPT !.pc = IF op.then = "write" THEN "begun" ELSE "setsize"]
             /\ UNCHANGED held
     /\ UNCHANGED <<rest, pages, uptodate, dirty, below, ops, raced>>

(* The end of the loop, or a fatal signal: the size is that of what was    *)
(* filled.  Then the caller goes on, unless something failed.              *)
grow_end ==
  LET interrupted == op.pos < op.end
      grown == op.pos > op.old
      filled == op.old..op.pos - 1
  IN /\ op.pc = "grow"
     /\ IF grown THEN isize' = op.pos /\ StoreSize(op.pos) ELSE UNCHANGED <<isize, header, sizeLost>>
     /\ want' = IF grown THEN Set(filled, 0) ELSE want
     /\ holes' = IF grown THEN holes \cup filled ELSE holes
     /\ IF interrupted \/ (grown /\ sizeLost') \/ op.then = "truncate" THEN Fails
        ELSE /\ op' = [op EXCEPT !.pc = IF op.then = "write" THEN "begun" ELSE "setsize"]
             /\ UNCHANGED held
     /\ UNCHANGED <<rest, pages, uptodate, dirty, below, ops, raced>>

Extents(n) == Start(Index(n + PSize - 1))  \* upper_size_to_lower_size

(* truncate_setsize, the stored size and, if that works, the lower file.   *)
(* What was stored through a mapping since the zeros were written is cut   *)
(* off, and may be there again when the file grows.                        *)
truncate_setsize ==
  /\ op.pc = "setsize" /\ isize' = op.off /\ CutPages(op.off)
  /\ StoreSize(op.off) /\ Return
  /\ want' = Set({o \in op.off..op.end - 1 : want[o] # 0}, Anything)
  /\ \/ UNCHANGED below
     \/ /\ ~sizeLost' /\ Extents(op.off) < Extents(op.old)
        /\ below' = Resized(Extents(op.off))
  /\ UNCHANGED <<rest, held, ops, raced>>

-----------------------------------------------------------------------------
(* A store through a mapping, within the file.                             *)
mapped_store(o) ==
  /\ stores < MaxStores /\ stores' = stores + 1
  /\ o < isize /\ Index(o) \in uptodate
  /\ pages' = [pages EXCEPT ![Index(o)][o % PSize] = MaxOps + stores']
  /\ dirty' = dirty \cup {Index(o)}
  /\ want' = Set({o}, MaxOps + stores') /\ holes' = holes \ {o}
  /\ UNCHANGED <<kind, back, oops, isize, header, uptodate, held, below, op, ops, raced, sizeLost>>

(* ecryptfs_writepage; it has no case for a plain file.                    *)
writepage(g) ==
  /\ back = NoBack /\ g \in dirty \ held
  /\ dirty' = dirty \ {g} /\ held' = held \cup {g}
  /\ IF kind = "plain" THEN oops' = TRUE /\ UNCHANGED back
     ELSE back' = [page |-> g, data |-> pages[g]] /\ UNCHANGED oops
  /\ UNCHANGED <<kind, stores, isize, header, pages, uptodate, below, op, ops, want, holes, raced, sizeLost>>

(* The page is between the encryption and the store of ecryptfs_write.     *)
Races(g) == IF op.pc = "store" /\ Index(op.pos) = g THEN raced \cup {g} ELSE raced

writepage_end ==
  LET g == back.page
  IN /\ back # NoBack
     /\ WriteLower(Start(g), back.data, PSize)
     /\ raced' = Races(g)
     /\ held' = held \ {g} /\ back' = NoBack
     /\ UNCHANGED <<kind, stores, oops, isize, header, pages, uptodate, dirty, op, ops, want, holes, sizeLost>>

writepage_fails ==
  LET g == back.page
  IN /\ back # NoBack
     /\ pages' = [pages EXCEPT ![g] = Uninitialised]
     /\ uptodate' = uptodate \ {g} /\ dirty' = dirty \ {g}
     /\ want' = Set(InFile(g), Anything)
     /\ raced' = Races(g)
     /\ held' = held \ {g} /\ back' = NoBack
     /\ UNCHANGED <<kind, stores, oops, isize, header, below, op, ops, holes, sizeLost>>

readpage(g) ==
  /\ g \notin held \cup uptodate /\ Start(g) < isize
  /\ pages' = [pages EXCEPT ![g] = ReadLower(g)] /\ uptodate' = uptodate \cup {g}
  /\ UNCHANGED <<rest, isize, header, dirty, held, below, op, ops, want, holes, raced, sizeLost>>

(* The kernel takes a page; the inode goes when nobody has the file open,  *)
(* and takes its size from the metadata when it comes back; behind the     *)
(* smaller of the two sizes is what happens to be there.                   *)
Referenced(g) == op.pc = "store" /\ Index(op.pos) = g
reclaim_page(g) ==
  /\ g \in uptodate \ (dirty \cup held) /\ ~Referenced(g)
  /\ pages' = [pages EXCEPT ![g] = Uninitialised] /\ uptodate' = uptodate \ {g}
  /\ UNCHANGED <<rest, isize, header, dirty, held, below, op, ops, want, holes, raced, sizeLost>>

reopen ==
  /\ op.pc = "idle" /\ dirty = {} /\ held = {}
  /\ isize' = (IF kind = "plain" THEN Len(below) ELSE header) /\ sizeLost' = FALSE
  /\ pages' = [g \in Indices |-> Uninitialised] /\ uptodate' = {}
  /\ want' = Set({o \in Offsets : o >= Smaller(isize, isize')}, Anything)
  /\ UNCHANGED <<rest, header, dirty, held, below, op, ops, holes, raced>>

PagesNext ==
  \/ \E w \in WriteRanges : write_begin(w[1], w[2])
  \/ \E copied \in 0..op.n : write_copy(copied)
  \/ write_copy_short \/ write_end \/ write_end_fails
  \/ \E n \in Truncations : truncate(n) \/ truncate_plain(n)
  \/ grow_fill \/ grow_store \/ grow_fails \/ grow_end \/ truncate_setsize
  \/ \E o \in Offsets : mapped_store(o)
  \/ \E g \in Indices : writepage(g) \/ readpage(g) \/ reclaim_page(g)
  \/ writepage_end \/ writepage_fails \/ reopen

PagesSpec == PagesInit /\ [][PagesNext]_pagesVars

-----------------------------------------------------------------------------
Settled(g) == g \notin held \cup raced /\ ~Referenced(g)
ByteAt(o) == IF Index(o) \in uptodate THEN pages[Index(o)][o % PSize] ELSE ReadLower(Index(o))[o % PSize]

(* The file holds what was written, stored and zeroed, whether a page is   *)
(* cached or was reclaimed and decrypted again, however calls were         *)
(* interrupted or failed, but for the bytes that a failing call was to     *)
(* write, those behind a smaller size that came back with the inode, the   *)
(* holes of plain files, pages whose write-back ended or failed between    *)
(* the encryption and the store of ecryptfs_write, and bytes stored        *)
(* through a mapping behind the new end of a file while it is truncated.   *)
HoldsFile ==
  \A o \in 0..isize - 1 :
    Settled(Index(o)) /\ want[o] # Anything /\ ~(kind = "plain" /\ o \in holes) => ByteAt(o) = want[o]

(* Between calls the metadata has the file's size, unless storing it       *)
(* failed, so the file comes back with the size it had.                    *)
SizeStored == op.pc = "idle" /\ kind = "encrypted" /\ ~sizeLost => header = isize
=============================================================================
