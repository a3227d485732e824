------------------------- MODULE EcryptfsReadahead -------------------------
(***************************************************************************)
(* ecryptfs_readpages of gaes/ecryptfs_4.7_kocl: pages that the kernel     *)
(* chose for reading ahead are put into the page cache one by one, and all *)
(* of them are read and decrypted in one request to the GPU.  A page that  *)
(* cannot be put there, as another task was faster, stays in the array.    *)
(*                                                                         *)
(* The contents of a page are the number of the store that made them.      *)
(***************************************************************************)
EXTENDS Naturals, Sequences

CONSTANTS Readers,      \* tasks that fault pages in
          Frames,       \* pages of memory
          Places,       \* indices in the file
          Nothing,      \* no page
          MaxReads,     \* bound: readpages calls
          MaxChanges    \* bound: stores

ASSUME ReadaheadAssumption ==
  Places \subseteq Nat /\ Nothing \notin Places \cup Frames

VARIABLES frame,     \* of each page of memory: index, flags, contents
          slot,      \* the page cache: a page for an index
          ra,        \* calls of ecryptfs_readpages
          stored,    \* contents of the lower file, decrypted
          reads, changes,
          (* History. *)
          newest,    \* contents as last stored
          unread,    \* pages whose lower read failed, or was not looked at
          faulted    \* tasks that followed a null pointer

readaheadVars == <<frame, slot, ra, stored, reads, changes, newest, unread, faulted>>

Unused == [index |-> Nothing, added |-> FALSE, locked |-> FALSE, uptodate |-> FALSE,
           dirty |-> FALSE, data |-> Nothing]
NoCall == [pc |-> "idle", pages |-> << >>, pgs |-> << >>, ok |-> TRUE]

ReadaheadInit ==
  /\ frame = [f \in Frames |-> Unused] /\ slot = [g \in Places |-> Nothing]
  /\ ra = [t \in Readers |-> NoCall]
  /\ stored = [g \in Places |-> 0] /\ newest = stored
  /\ reads = 0 /\ changes = 0 /\ unread = {} /\ faulted = {}

In(seq) == {seq[i] : i \in DOMAIN seq}
Free == {f \in Frames : frame[f] = Unused}

(* The kernel's choice: neighbouring indices without a page, and memory.   *)
readpages(t, list) ==
  /\ ra[t] = NoCall /\ reads < MaxReads /\ reads' = reads + 1
  /\ \E f \in [In(list) -> Free] :
       /\ \A g, h \in In(list) : f[g] = f[h] => g = h
       /\ frame' = [x \in Frames |-> IF \E g \in In(list) : f[g] = x
                                     THEN [Unused EXCEPT !.index = CHOOSE g \in In(list) : f[g] = x]
                                     ELSE frame[x]]
       /\ ra' = [ra EXCEPT ![t] = [NoCall EXCEPT !.pc = "add", !.pages = [i \in DOMAIN list |-> f[list[i]]]]]
  /\ \A g \in In(list) : slot[g] = Nothing
  /\ UNCHANGED <<slot, stored, changes, newest, unread, faulted>>

(* Mutant: a page of the cache takes the place of one that was not added.  *)
Added_cached(t) ==
  LET f == Head(ra[t].pages)
      g == frame[f].index
  IN ra' = [ra EXCEPT ![t].pages = Tail(@), ![t].pgs = Append(@, IF slot[g] = Nothing THEN f ELSE slot[g])]

(* add_to_page_cache_lru: the page is locked and in the cache, or neither; *)
(* it goes into the array all the same.                                    *)
Added(t) ==
  ra' = [ra EXCEPT ![t].pages = Tail(@), ![t].pgs = Append(@, Head(ra[t].pages))]

add(t) ==
  LET f == Head(ra[t].pages)
      g == frame[f].index
  IN /\ ra[t].pc = "add" /\ ra[t].pages # << >>
     /\ Added(t)
     /\ \/ /\ slot[g] = Nothing
           /\ slot' = [slot EXCEPT ![g] = f]
           /\ frame' = [frame EXCEPT ![f].added = TRUE, ![f].locked = TRUE]
        \/ UNCHANGED <<slot, frame>>
     /\ UNCHANGED <<stored, reads, changes, newest, unread, faulted>>

(* ecryptfs_decrypt_pages takes the inode from the first page.  Without    *)
(* memory for the list nothing is read; a read that fails is passed over.  *)
decrypt_pages_read(t) ==
  LET first == Head(ra[t].pgs)
  IN /\ ra[t].pc = "add" /\ ra[t].pages = << >>
     /\ IF ~frame[first].added
        THEN faulted' = faulted \cup {t} /\ ra' = [ra EXCEPT ![t].pc = "dead"] /\ UNCHANGED <<frame, unread>>
        ELSE \E failed \in SUBSET In(ra[t].pgs) :
               /\ frame' = [f \in Frames |-> IF f \in In(ra[t].pgs) \ failed
                                             THEN [frame[f] EXCEPT !.data = stored[frame[f].index]]
                                             ELSE frame[f]]
               /\ unread' = unread \cup failed
               /\ ra' = [ra EXCEPT ![t].pc = "crypt"]
               /\ UNCHANGED faulted
     /\ UNCHANGED <<slot, stored, reads, changes, newest>>

decrypt_pages_nomem(t) ==
  /\ ra[t].pc = "add" /\ ra[t].pages = << >>
  /\ ra' = [ra EXCEPT ![t].pc = "finish", ![t].ok = FALSE]
  /\ UNCHANGED <<frame, slot, stored, reads, changes, newest, unread, faulted>>

decrypt_pages_crypt(t) ==
  /\ ra[t].pc = "crypt"
  /\ \E ok \in BOOLEAN : ra' = [ra EXCEPT ![t].pc = "finish", ![t].ok = ok]
  /\ UNCHANGED <<frame, slot, stored, reads, changes, newest, unread, faulted>>

(* The rest of the call: flags, unlock_page and put_page, page by page.  A *)
(* page that is in no cache goes back to the kernel.                       *)
finish(t) ==
  LET f == Head(ra[t].pgs)
  IN /\ ra[t].pc = "finish"
     /\ ra' = IF Len(ra[t].pgs) = 1 THEN [ra EXCEPT ![t] = NoCall] ELSE [ra EXCEPT ![t].pgs = Tail(@)]
     /\ frame' = [frame EXCEPT ![f] = IF @.added THEN [@ EXCEPT !.uptodate = ra[t].ok, !.locked = FALSE]
                                      ELSE Unused]
     /\ unread' = IF frame[f].added THEN unread ELSE unread \ {f}
     /\ UNCHANGED <<slot, stored, reads, changes, newest, faulted>>

-----------------------------------------------------------------------------
(* The rest of the kernel: a fault reads a page that is not up to date; a  *)
(* store makes it dirty; write-back and reclaim.                           *)
InCache(g) == slot[g] # Nothing
Resting(g) == InCache(g) /\ ~frame[slot[g]].locked

fault(g) ==
  /\ Resting(g) /\ ~frame[slot[g]].uptodate
  /\ frame' = [frame EXCEPT ![slot[g]].uptodate = TRUE, ![slot[g]].data = stored[g]]
  /\ unread' = unread \ {slot[g]}
  /\ UNCHANGED <<slot, ra, stored, reads, changes, newest, faulted>>

change(g) ==
  /\ changes < MaxChanges /\ changes' = changes + 1
  /\ InCache(g) /\ frame[slot[g]].uptodate
  /\ frame' = [frame EXCEPT ![slot[g]].dirty = TRUE, ![slot[g]].data = changes']
  /\ newest' = [newest EXCEPT ![g] = changes'] /\ unread' = unread \ {slot[g]}
  /\ UNCHANGED <<slot, ra, stored, reads, faulted>>

writeback(g) ==
  /\ Resting(g) /\ frame[slot[g]].dirty
  /\ stored' = [stored EXCEPT ![g] = frame[slot[g]].data]
  /\ frame' = [frame EXCEPT ![slot[g]].dirty = FALSE]
  /\ UNCHANGED <<slot, ra, reads, changes, newest, unread, faulted>>

reclaimed(g) ==
  /\ Resting(g) /\ ~frame[slot[g]].dirty /\ \A t \in Readers : slot[g] \notin In(ra[t].pgs)
  /\ frame' = [frame EXCEPT ![slot[g]] = Unused]
  /\ slot' = [slot EXCEPT ![g] = Nothing] /\ unread' = unread \ {slot[g]}
  /\ UNCHANGED <<ra, stored, reads, changes, newest, faulted>>

ReadaheadNext ==
  \/ \E t \in Readers :
       \/ \E g \in Places : readpages(t, <<g>>) \/ (g + 1 \in Places /\ readpages(t, <<g, g + 1>>))
       \/ add(t) \/ decrypt_pages_read(t) \/ decrypt_pages_nomem(t) \/ decrypt_pages_crypt(t) \/ finish(t)
  \/ \E g \in Places : fault(g) \/ change(g) \/ writeback(g) \/ reclaimed(g)

ReadaheadSpec == ReadaheadInit /\ [][ReadaheadNext]_readaheadVars

-----------------------------------------------------------------------------
(* Tasks that read ahead at the same time, and stores, leave the file as   *)
(* it was stored: a page that is up to date has the newest contents unless *)
(* its lower read failed, one page serves an index, and a page is locked   *)
(* only while the call that added it goes on or after a call died of a     *)
(* null pointer, when the first page of its list could not be added.       *)
ReadAheadCorrect ==
  \A g \in Places : InCache(g) =>
    LET f == frame[slot[g]]
    IN /\ f.index = g /\ f.added
       /\ f.uptodate /\ slot[g] \notin unread => f.data = newest[g]
       /\ f.locked => \E t \in Readers : slot[g] \in In(ra[t].pgs)
=============================================================================
