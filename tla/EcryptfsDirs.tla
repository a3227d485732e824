----------------------------- MODULE EcryptfsDirs -----------------------------
(***************************************************************************)
(* Names of eCryptfs (inode.c, dentry.c, file.c): a directory entry of     *)
(* eCryptfs stands on one of the lower file system, an inode on a lower    *)
(* inode.  Each operation changes the lower file system first and then     *)
(* what eCryptfs and the kernel's cache of names know of it.               *)
(*                                                                         *)
(* The kernel holds the directories' locks for the length of an operation, *)
(* so each is one step; only copying attributes, which revalidation does   *)
(* without a lock, takes two.                                              *)
(***************************************************************************)
EXTENDS Integers, FiniteSetsExt

CONSTANTS Dirs, NSlots,    \* directories, and how many names each may have
          Inodes,          \* lower inodes
          Absent,          \* no inode, no cached entry
          MaxSteps,        \* bound: operations
          MaxCopies,       \* bound: copies of attributes at a time
          MaxBelow         \* bound: changes made to the lower file system by others

Slots == 1..NSlots         \* names are numbers, in the order of listing

ASSUME DirsAssumption ==
  /\ NSlots \in Nat
  /\ Absent \notin Int /\ Absent \notin Inodes
  /\ \A i \in Inodes \cup {Absent}, b, c \in BOOLEAN : Absent # [ino |-> i, live |-> b, bad |-> c]

VARIABLES entry,        \* the lower directories: an inode for a name
          lower_inode,  \* lower inodes: kind, number of links, references that eCryptfs holds
          dcache,       \* cached entries of eCryptfs: inode, whether the lower entry is live,
                        \* and whether the inode is bad
          upper,        \* inodes of eCryptfs: for a lower inode, the number of links it shows
          bad,          \* for a lower inode, the number of its inodes that were made bad
          copies,       \* attributes that are being copied
          listing,      \* a task that reads a directory
          steps, below,
          (* History. *)
          unclean,      \* entries whose cleaning up failed, or that others changed
          overtaken     \* inodes whose attributes were copied late, or changed elsewhere

dirVars == <<entry, lower_inode, dcache, upper, bad, copies, listing, steps, below, unclean, overtaken>>

Entries == Dirs \X Slots
At(e) == entry[e]
Nothing == [kind |-> "none", links |-> 0, held |-> 0]
NotListing == [dir |-> Absent, pos |-> 0, seen |-> {}, twice |-> FALSE, must |-> {}, failed |-> FALSE, over |-> FALSE]

DirsInit ==
  /\ entry = [e \in Entries |-> Absent]
  /\ lower_inode = [i \in Inodes |-> Nothing]
  /\ dcache = [e \in Entries |-> Absent]
  /\ upper = [i \in Inodes |-> Absent]
  /\ bad = [i \in Inodes |-> 0]
  /\ copies = {} /\ listing = NotListing /\ steps = 0 /\ below = 0
  /\ unclean = {} /\ overtaken = {}

Operates == steps < MaxSteps /\ steps' = steps + 1
Cached(e) == dcache[e] # Absent
Positive(e) == Cached(e) /\ dcache[e].ino # Absent
Negative(e) == Cached(e) /\ dcache[e].ino = Absent
(* What the lower file system says of the lower entry: an operation on an  *)
(* entry that is no longer in its directory fails there.                   *)
LowerPositive(e) == dcache[e].live /\ At(e) # Absent
LowerNegative(e) == dcache[e].live /\ At(e) = Absent

(* __ecryptfs_get_inode: a reference to the lower inode, kept by a new     *)
(* inode of eCryptfs, which takes its attributes, and given back when      *)
(* there is one already.                                                   *)
Held(l, i) == IF upper[i] = Absent THEN [l EXCEPT ![i].held = @ + 1] ELSE l
get_inode(l, i) == /\ lower_inode' = Held(l, i)
                   /\ upper' = IF upper[i] = Absent THEN [upper EXCEPT ![i] = l[i].links] ELSE upper
Seen(e, i) == [dcache EXCEPT ![e] = [ino |-> i, live |-> TRUE, bad |-> FALSE]]
On(f, i) == Positive(f) /\ dcache[f].ino = i

(* Whoever lists a directory need not see what was not there all the time. *)
Listed(S) == listing' = [listing EXCEPT !.must = {n \in @ : <<listing.dir, n>> \notin S}]

-----------------------------------------------------------------------------
(* A file whose lower file cannot be opened to read its size: the inode,   *)
(* new or in use, is made bad and leaves the inode cache, but is not put.  *)
(* It keeps its reference to the lower inode, and the entries and copies   *)
(* that stood on it stand on a bad inode; the next lookup makes another.   *)
make_bad_inode(i) ==
  /\ lower_inode' = Held(lower_inode, i)
  /\ upper' = [upper EXCEPT ![i] = Absent] /\ bad' = [bad EXCEPT ![i] = @ + 1]
  /\ dcache' = [f \in Entries |-> IF On(f, i) THEN [dcache[f] EXCEPT !.bad = TRUE] ELSE dcache[f]]
  /\ copies' = {IF c.ino = i THEN [c EXCEPT !.bad = TRUE] ELSE c : c \in copies}
  /\ overtaken' = overtaken \ {i}

(* Looking a name up.  Without an inode the entry is not cached.           *)
lookup(e) ==
  /\ ~Cached(e) /\ Operates
  /\ \/ /\ \/ At(e) = Absent /\ dcache' = Seen(e, Absent) /\ UNCHANGED <<lower_inode, upper>>
           \/ At(e) # Absent /\ dcache' = Seen(e, At(e)) /\ get_inode(lower_inode, At(e))
           \/ At(e) # Absent /\ UNCHANGED <<dcache, lower_inode, upper>>
        /\ UNCHANGED <<bad, copies, overtaken>>
     \/ At(e) # Absent /\ lower_inode[At(e)].kind = "file" /\ make_bad_inode(At(e))
  /\ unclean' = unclean \ {e}
  /\ UNCHANGED <<entry, listing, below>>

Free == {i \in Inodes : lower_inode[i].links = 0 /\ lower_inode[i].held = 0}
Made(i, kind) == [lower_inode EXCEPT ![i] = [kind |-> kind, links |-> IF kind = "dir" THEN 2 ELSE 1, held |-> 0]]

(* mkdir, mknod, symlink.  Without an inode the lower file stays, and the  *)
(* entry is dropped to be looked up again.                                 *)
(* Mutant: it is not dropped.                                              *)
Dropped_not(e) == UNCHANGED dcache
Dropped(e) == dcache' = [dcache EXCEPT ![e] = Absent]

make(e, kind) ==
  /\ Negative(e) /\ Operates
  /\ \/ /\ LowerNegative(e)
        /\ \E i \in Free :
             /\ entry' = [entry EXCEPT ![e] = i]
             /\ \/ dcache' = Seen(e, i) /\ get_inode(Made(i, kind), i)
                \/ Dropped(e) /\ lower_inode' = Made(i, kind) /\ UNCHANGED upper
        /\ Listed({e})
     \/ Dropped(e) /\ UNCHANGED <<entry, lower_inode, upper, listing>>
  /\ UNCHANGED <<bad, copies, below, unclean, overtaken>>

symlink(e) == make(e, "symlink")
mkdir(e) == make(e, "dir")
mknod(e) == make(e, "file")

(* create: a file whose header cannot be written is unlinked again, and    *)
(* its inode goes; when unlinking fails, an empty file stays below.        *)
create(e) ==
  /\ Negative(e) /\ Operates
  /\ \/ /\ LowerNegative(e)
        /\ \E i \in Free :
             \/ /\ entry' = [entry EXCEPT ![e] = i] /\ dcache' = Seen(e, i)
                /\ get_inode(Made(i, "file"), i)
                /\ UNCHANGED unclean
             \/ /\ entry' = [entry EXCEPT ![e] = i] /\ lower_inode' = Made(i, "file")
                /\ unclean' = unclean \cup {e} /\ UNCHANGED <<dcache, upper>>
        /\ Listed({e})
     \/ Dropped(e) /\ UNCHANGED <<entry, lower_inode, upper, listing, unclean>>
     \/ UNCHANGED <<entry, lower_inode, dcache, upper, listing, unclean>>
  /\ UNCHANGED <<bad, copies, below, overtaken>>

(* The number of links in l is copied to the inode of e, which may be bad: *)
(* another inode of the same file does not see it then.                    *)
Unseen(i) == overtaken' = overtaken \cup {j \in {i} : upper[j] # Absent} /\ UNCHANGED upper
Relinked(e, l) ==
  LET i == dcache[e].ino
  IN /\ lower_inode' = l
     /\ IF dcache[e].bad THEN Unseen(i)
        ELSE upper' = [upper EXCEPT ![i] = l[i].links] /\ overtaken' = overtaken \ {i}

(* link: the new entry gets the inode of the lower file, which is not that *)
(* of the old entry if that is bad; without one it stays below.            *)
link(old, e) ==
  /\ Positive(old) /\ lower_inode[dcache[old].ino].kind # "dir" /\ Negative(e) /\ Operates
  /\ LET i == dcache[old].ino
         more == [lower_inode EXCEPT ![i].links = @ + 1]
     IN \/ /\ LowerPositive(old) /\ LowerNegative(e)
           /\ entry' = [entry EXCEPT ![e] = i] /\ Listed({e})
           /\ \/ /\ dcache' = Seen(e, i) /\ UNCHANGED unclean
                 /\ IF upper[i] = Absent THEN get_inode(more, i) /\ UNCHANGED overtaken ELSE Relinked(old, more)
              \/ /\ upper[i] = Absent /\ lower_inode' = more
                 /\ unclean' = unclean \cup {e} /\ UNCHANGED <<dcache, upper, overtaken>>
        \/ UNCHANGED <<entry, lower_inode, upper, dcache, listing, unclean, overtaken>>
  /\ UNCHANGED <<bad, copies, below>>

Unlinked(i) == [lower_inode EXCEPT ![i].links = IF lower_inode[i].kind = "dir" THEN 0 ELSE @ - 1]

(* unlink and rmdir hold the lower entry, so that the lower file system    *)
(* takes it out of its cache: it is not live any more.                     *)
remove(e) ==
  /\ Positive(e) /\ Operates
  /\ \/ /\ LowerPositive(e)
        /\ entry' = [entry EXCEPT ![e] = Absent]
        /\ Relinked(e, Unlinked(dcache[e].ino))
        /\ Dropped(e) /\ Listed({e})
     \/ UNCHANGED <<entry, lower_inode, upper, dcache, listing, overtaken>>
  /\ UNCHANGED <<bad, copies, below, unclean>>

unlink(e) == Positive(e) /\ lower_inode[dcache[e].ino].kind # "dir" /\ remove(e)
rmdir(e) == Positive(e) /\ lower_inode[dcache[e].ino].kind = "dir" /\ remove(e)

(* rename: both caches move the entry; what had the new name is gone, also *)
(* when eCryptfs did not know that there was something.                    *)
Compatible(i, j) == (lower_inode[i].kind = "dir") = (lower_inode[j].kind = "dir")
rename(e, new) ==
  /\ e # new /\ Positive(e) /\ Cached(new) /\ Operates
  /\ LET i == dcache[e].ino
         j == dcache[new].ino
         t == At(new)
     IN \/ /\ LowerPositive(e) /\ dcache[new].live /\ (j # Absent => t = j)
           /\ t # Absent => i # t /\ Compatible(i, t)
           /\ entry' = [entry EXCEPT ![new] = i, ![e] = Absent]
           /\ dcache' = [dcache EXCEPT ![new] = dcache[e], ![e] = Absent]
           /\ \/ t = Absent /\ UNCHANGED <<lower_inode, upper, overtaken>>
              \/ t # Absent /\ j = t /\ Relinked(new, Unlinked(t))
              \/ t # Absent /\ j = Absent /\ lower_inode' = Unlinked(t) /\ Unseen(t)
           /\ unclean' = unclean \ {e, new} /\ Listed({e, new})
        \/ UNCHANGED <<entry, dcache, lower_inode, upper, listing, unclean, overtaken>>
  /\ UNCHANGED <<bad, copies, below>>

-----------------------------------------------------------------------------
(* ecryptfs_d_revalidate and ecryptfs_getattr: the lower attributes are    *)
(* read, then written to the inode; an entry without links is dropped.     *)
copy_attr(e) ==
  /\ Positive(e) /\ Operates /\ Cardinality(copies) < MaxCopies
  /\ copies' = copies \cup {[at |-> e, ino |-> dcache[e].ino, bad |-> dcache[e].bad,
                               links |-> lower_inode[dcache[e].ino].links]}
  /\ UNCHANGED <<entry, lower_inode, dcache, upper, bad, listing, below, unclean, overtaken>>

(* ecryptfs_setxattr copies them as well, once the lower one is set.       *)
setxattr(e) == Positive(e) /\ ~dcache[e].bad /\ copy_attr(e)

d_revalidate(c) ==
  /\ c \in copies /\ copies' = copies \ {c}
  /\ IF c.bad THEN UNCHANGED <<upper, overtaken>>
     ELSE /\ upper' = [upper EXCEPT ![c.ino] = c.links]
          /\ overtaken' = IF c.links = lower_inode[c.ino].links THEN overtaken \ {c.ino} ELSE overtaken \cup {c.ino}
  /\ dcache' = IF c.links = 0 /\ On(c.at, c.ino) /\ dcache[c.at].bad = c.bad
               THEN [dcache EXCEPT ![c.at] = Absent] ELSE dcache
  /\ UNCHANGED <<entry, lower_inode, bad, listing, steps, below, unclean>>

(* The kernel forgets an entry, then an inode (ecryptfs_evict_inode), but  *)
(* never a bad one, which was not put.                                     *)
d_release(e) ==
  /\ Cached(e) /\ \A c \in copies : c.at # e
  /\ Dropped(e)
  /\ unclean' = unclean \ {e}
  /\ UNCHANGED <<entry, lower_inode, upper, bad, copies, listing, steps, below, overtaken>>

evict_inode(i) ==
  /\ upper[i] # Absent
  /\ \A e \in Entries : On(e, i) => dcache[e].bad
  /\ \A c \in copies : c.ino = i => c.bad
  /\ upper' = [upper EXCEPT ![i] = Absent]
  /\ lower_inode' = [lower_inode EXCEPT ![i].held = @ - 1]
  /\ overtaken' = overtaken \ {i}
  /\ UNCHANGED <<entry, dcache, bad, copies, listing, steps, below, unclean>>

(* Others change the lower file system under a mounted eCryptfs.  A cached *)
(* entry keeps its lower entry, which is out of the lower cache then.      *)
removed_below(e) ==
  /\ below < MaxBelow /\ below' = below + 1
  /\ At(e) # Absent
  /\ entry' = [entry EXCEPT ![e] = Absent]
  /\ lower_inode' = Unlinked(At(e))
  /\ dcache' = IF Cached(e) THEN [dcache EXCEPT ![e].live = FALSE] ELSE dcache
  /\ unclean' = unclean \cup {e} /\ overtaken' = overtaken \cup {At(e)} /\ Listed({e})
  /\ UNCHANGED <<upper, bad, copies, steps>>

created_below(e) ==
  /\ below < MaxBelow /\ below' = below + 1
  /\ At(e) = Absent
  /\ \E i \in Free : entry' = [entry EXCEPT ![e] = i] /\ lower_inode' = Made(i, "file")
  /\ unclean' = unclean \cup {e}
  /\ UNCHANGED <<dcache, upper, bad, copies, listing, steps, overtaken>>

-----------------------------------------------------------------------------
(* Reading a directory: each call gives the caller the next entries, until *)
(* its buffer is full or a name cannot be decoded for want of memory.      *)
opendir(d) ==
  /\ listing.dir = Absent /\ Operates
  /\ listing' = [NotListing EXCEPT !.dir = d, !.must = {n \in Slots : At(<<d, n>>) # Absent}]
  /\ UNCHANGED <<entry, lower_inode, dcache, upper, bad, copies, below, unclean, overtaken>>

Ahead == {n \in Slots : At(<<listing.dir, n>>) # Absent /\ n > listing.pos}

(* Where the next call goes on: behind the last name that was taken.       *)
(* Mutant: behind the name that was refused.                               *)
Position_past(taken, all) == IF taken = all THEN Max(taken \cup {listing.pos}) ELSE Min(all \ taken)
Position(taken, all) == Max(taken \cup {listing.pos})

readdir ==
  /\ listing.dir # Absent /\ ~listing.over
  /\ \E taken \in SUBSET Ahead, failed \in BOOLEAN :
       /\ \A n \in taken, m \in Ahead \ taken : n < m
       /\ failed => taken # Ahead
       /\ (taken = {} /\ Ahead # {}) => failed
       /\ listing' = [listing EXCEPT !.pos = Position(taken, Ahead), !.seen = @ \cup taken,
                        !.twice = @ \/ (taken \cap listing.seen # {}),
                        !.failed = @ \/ failed,
                        !.over = (taken = {})]
  /\ UNCHANGED <<entry, lower_inode, dcache, upper, bad, copies, steps, below, unclean, overtaken>>

closedir ==
  /\ listing.over /\ listing' = NotListing
  /\ UNCHANGED <<entry, lower_inode, dcache, upper, bad, copies, steps, below, unclean, overtaken>>

DirsNext ==
  \/ \E e \in Entries :
       \/ lookup(e) \/ create(e) \/ symlink(e) \/ mkdir(e) \/ mknod(e) \/ unlink(e) \/ rmdir(e)
       \/ copy_attr(e) \/ setxattr(e) \/ d_release(e) \/ removed_below(e) \/ created_below(e)
       \/ \E f \in Entries : link(e, f) \/ rename(e, f)
  \/ \E c \in copies : d_revalidate(c)
  \/ \E i \in Inodes : evict_inode(i)
  \/ \E d \in Dirs : opendir(d)
  \/ readdir \/ closedir

-----------------------------------------------------------------------------
(* What eCryptfs has cached of a name is what the lower directory has, and *)
(* the lower entry it would work on is the one in that directory, after    *)
(* any sequence of operations that succeed or fail; except for a name that *)
(* others changed below, a new file that could not be initialised and not  *)
(* be unlinked either, or a link that got no inode, until the kernel       *)
(* forgets the entry.  A lower inode is held once by each inode that       *)
(* stands on it, the one in use and the bad ones that lookups left behind  *)
(* (inode.c:364-369), no more and no less, and so is not used for another  *)
(* file while a cached entry stands on it.  The inode in use shows its     *)
(* number of links, unless a copy of attributes was overtaken, others      *)
(* changed it, or it was changed through a bad inode.                      *)
NamesAgree ==
  /\ \A e \in Entries : Cached(e) /\ e \notin unclean => dcache[e].live /\ dcache[e].ino = At(e)
  /\ \A e \in Entries : Positive(e) => dcache[e].ino \notin Free
  /\ \A i \in Inodes :
       /\ lower_inode[i].held = bad[i] + IF upper[i] = Absent THEN 0 ELSE 1
       /\ upper[i] # Absent /\ i \notin overtaken => upper[i] = lower_inode[i].links

(* A task that has read a directory to its end has been given every name   *)
(* that was there all the time, and no name twice, unless one could not be *)
(* decoded.                                                                *)
ListingComplete == listing.over => listing.failed \/ (listing.must \subseteq listing.seen /\ ~listing.twice)
=============================================================================
