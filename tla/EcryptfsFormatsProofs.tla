------------------------ MODULE EcryptfsFormatsProofs ------------------------
(***************************************************************************)
(* Proofs about the parts of eCryptfs that MCEcryptfsFormats checks: names *)
(* and the reading of directories (EcryptfsDirs), the ciphers              *)
(* (EcryptfsCiphers), and loading and mounting (EcryptfsMount).            *)
(***************************************************************************)
EXTENDS EcryptfsDirs, EcryptfsCiphers, EcryptfsMount, FiniteSetTheorems, WellFoundedInduction, TLAPS

DirsSpec == DirsInit /\ [][DirsNext]_dirVars

CachedEntry == [ino : Inodes \cup {Absent}, live : BOOLEAN, bad : BOOLEAN]
LowerInode == [kind : {"none", "file", "dir", "symlink"}, links : Int, held : Int]

DirsTyped ==
  /\ entry \in [Entries -> Inodes \cup {Absent}]
  /\ lower_inode \in [Inodes -> LowerInode]
  /\ dcache \in [Entries -> CachedEntry \cup {Absent}]
  /\ upper \in [Inodes -> Int \cup {Absent}] /\ bad \in [Inodes -> Nat]
  /\ \A c \in copies : c.ino \in Inodes /\ c.links \in Int /\ c.bad \in BOOLEAN

(* What a cached entry or a copy of attributes stands on is an inode that  *)
(* eCryptfs has, or one that was made bad.                                 *)
Known_(i, b) == IF b THEN bad[i] # 0 ELSE upper[i] # Absent
Kept ==
  /\ \A e \in Entries : Positive(e) => Known_(dcache[e].ino, dcache[e].bad)
  /\ \A c \in copies : Known_(c.ino, c.bad)

ListingTyped ==
  listing \in [dir : Dirs \cup {Absent}, pos : Nat, seen : SUBSET Slots, twice : BOOLEAN,
               must : SUBSET Slots, failed : BOOLEAN, over : BOOLEAN]

(* A name that was there all the time is still there, and is given when    *)
(* the reader is past it; what was given is behind the reader.             *)
Listing ==
  /\ \A n \in listing.must : /\ listing.dir \in Dirs /\ At(<<listing.dir, n>>) # Absent
                             /\ n <= listing.pos => n \in listing.seen
  /\ \A n \in listing.seen : n <= listing.pos
  /\ ~listing.twice
  /\ ListingComplete

DirsIInv == DirsTyped /\ Kept /\ NamesAgree /\ ListingTyped /\ Listing

-----------------------------------------------------------------------------
(* The steps, by what they do to the state.                                *)
LEMMA Absences ==
    /\ Absent \notin Int /\ Absent \notin Inodes /\ Absent \notin CachedEntry
    /\ \A i \in Inodes \cup {Absent}, b, c \in BOOLEAN : [ino |-> i, live |-> b, bad |-> c] # Absent
<1>1. \A x \in CachedEntry : /\ x = [ino |-> x.ino, live |-> x.live, bad |-> x.bad]
                             /\ x.ino \in Inodes \cup {Absent} /\ x.live \in BOOLEAN /\ x.bad \in BOOLEAN
  BY DEF CachedEntry
<1>2. \A x \in CachedEntry : x # Absent
  BY <1>1, DirsAssumption
<1>. QED  BY <1>2, DirsAssumption

LEMMA CachedFields ==
    ASSUME DirsTyped, NEW e \in Entries, Cached(e)
    PROVE  /\ dcache[e] \in CachedEntry /\ dcache[e].ino \in Inodes \cup {Absent}
           /\ dcache[e].live \in BOOLEAN /\ dcache[e].bad \in BOOLEAN
<1>. QED  BY DEF DirsTyped, Cached, CachedEntry

LEMMA SeenTyped ==
    ASSUME DirsTyped, NEW e \in Entries, NEW i \in Inodes \cup {Absent}
    PROVE  /\ Seen(e, i) \in [Entries -> CachedEntry \cup {Absent}]
           /\ Seen(e, i)[e] = [ino |-> i, live |-> TRUE, bad |-> FALSE]
           /\ \A f \in Entries \ {e} : Seen(e, i)[f] = dcache[f]
<1>1. [ino |-> i, live |-> TRUE, bad |-> FALSE] \in CachedEntry
  BY DEF CachedEntry
<1>. QED  BY <1>1 DEF DirsTyped, Seen

LEMMA HeldSet ==
    ASSUME NEW l \in [Inodes -> LowerInode], NEW i \in Inodes, NEW n \in Int,
           NEW k, k = [l EXCEPT ![i].held = n]
    PROVE  /\ k \in [Inodes -> LowerInode] /\ k[i].held = n /\ k[i].links = l[i].links
           /\ \A j \in Inodes \ {i} : k[j] = l[j]
<1>. QED  BY DEF LowerInode

LEMMA InodeLinks ==
    ASSUME NEW l \in [Inodes -> LowerInode], NEW i \in Inodes
    PROVE  l[i].links \in Int
<1>. QED  BY DEF LowerInode

LEMMA MadeFields ==
    ASSUME DirsTyped, NEW i \in Inodes, NEW kind \in {"file", "dir", "symlink"}
    PROVE  /\ Made(i, kind) \in [Inodes -> LowerInode]
           /\ Made(i, kind)[i].held = 0
           /\ \A j \in Inodes \ {i} : Made(i, kind)[j] = lower_inode[j]
<1>. QED  BY DEF DirsTyped, Made, LowerInode

(* __ecryptfs_get_inode on lower inodes l.                                 *)
LEMMA GetInode ==
    ASSUME DirsTyped, NEW i \in Inodes, NEW l \in [Inodes -> LowerInode], get_inode(l, i),
           l[i].held = bad[i] + (IF upper[i] = Absent THEN 0 ELSE 1)
    PROVE  /\ lower_inode' \in [Inodes -> LowerInode] /\ upper' \in [Inodes -> Int \cup {Absent}]
           /\ upper'[i] # Absent /\ lower_inode'[i].held = bad[i] + 1 /\ lower_inode'[i].links = l[i].links
           /\ upper[i] = Absent => upper'[i] = l[i].links
           /\ upper[i] # Absent => upper'[i] = upper[i] /\ lower_inode' = l
           /\ \A j \in Inodes \ {i} : upper'[j] = upper[j] /\ lower_inode'[j] = l[j]
<1>1. l[i].links \in Int /\ bad[i] \in Nat
  BY InodeLinks DEF DirsTyped
<1>2. CASE upper[i] = Absent
  <2>1. l[i].held = bad[i]
    BY <1>1, <1>2
  <2>2. lower_inode' = [l EXCEPT ![i].held = bad[i] + 1] /\ upper' = [upper EXCEPT ![i] = l[i].links]
    BY <1>2, <2>1 DEF get_inode, Held
  <2>3. upper' \in [Inodes -> Int \cup {Absent}] /\ upper'[i] = l[i].links /\ \A j \in Inodes \ {i} : upper'[j] = upper[j]
    BY <1>1, <2>2 DEF DirsTyped
  <2>4. /\ lower_inode' \in [Inodes -> LowerInode] /\ lower_inode'[i].held = bad[i] + 1
        /\ lower_inode'[i].links = l[i].links /\ \A j \in Inodes \ {i} : lower_inode'[j] = l[j]
    <3>1. PICK n \in Int : n = bad[i] + 1
      BY <1>1
    <3>2. lower_inode' = [l EXCEPT ![i].held = n]
      BY <2>2, <3>1
    <3>. QED  BY <3>1, <3>2, HeldSet
  <2>5. upper'[i] # Absent
    BY <1>1, <2>3, Absences
  <2>. QED  BY <1>2, <2>3, <2>4, <2>5
<1>3. CASE upper[i] # Absent
  BY <1>1, <1>3 DEF get_inode, Held, DirsTyped
<1>. QED  BY <1>2, <1>3

-----------------------------------------------------------------------------
(* What may become of an entry and of an inode in one step.                *)
EntryStays(e) == dcache'[e] = dcache[e] /\ entry'[e] = entry[e] /\ (e \in unclean => e \in unclean')
InodeStays(i) == upper'[i] = upper[i] /\ lower_inode'[i] = lower_inode[i] /\ (i \in overtaken => i \in overtaken')

Stands(e) == \E b \in BOOLEAN : /\ dcache[e] = [ino |-> entry[e], live |-> TRUE, bad |-> b]
                                /\ entry[e] # Absent => Known_(entry[e], b)
Doubted(e) == /\ e \in unclean'
              /\ \/ dcache'[e] = dcache[e]
                 \/ Cached(e) /\ dcache'[e] # Absent /\ dcache'[e].ino = dcache[e].ino /\ dcache'[e].bad = dcache[e].bad

Counted(i) == /\ lower_inode[i].held = bad[i] + IF upper[i] = Absent THEN 0 ELSE 1
              /\ upper[i] # Absent /\ i \notin overtaken => upper[i] = lower_inode[i].links

(* What is known is held, and is not used for another file.                *)
LEMMA NamesFollow ==
    ASSUME DirsTyped', Kept', \A i \in Inodes : Counted(i)',
           \A e \in Entries : Cached(e)' /\ e \notin unclean' => dcache'[e].live /\ dcache'[e].ino = entry'[e]
    PROVE  NamesAgree'
<1>1. ASSUME NEW e \in Entries, Positive(e)'
      PROVE  dcache'[e].ino \notin Free'
  <2>1. dcache'[e] \in CachedEntry /\ dcache'[e].ino # Absent
    BY <1>1 DEF DirsTyped, Positive, Cached
  <2>2. dcache'[e].ino \in Inodes /\ dcache'[e].bad \in BOOLEAN
    BY <2>1 DEF CachedEntry
  <2>3. PICK i \in Inodes : i = dcache'[e].ino
    BY <2>2
  <2>4. Known_(i, dcache[e].bad)'
    BY <1>1, <2>3 DEF Kept, Known_
  <2>5. bad'[i] \in Nat /\ lower_inode'[i].held = bad'[i] + IF upper'[i] = Absent THEN 0 ELSE 1
    BY DEF DirsTyped, Counted
  <2>6. bad'[i] # 0 \/ upper'[i] # Absent
    BY <2>4 DEF Known_
  <2>7. lower_inode'[i].held # 0
    BY <2>5, <2>6
  <2>. QED  BY <2>3, <2>7 DEF Free
<1>2. \A i \in Inodes :
        /\ lower_inode'[i].held = bad'[i] + IF upper'[i] = Absent THEN 0 ELSE 1
        /\ upper'[i] # Absent /\ i \notin overtaken' => upper'[i] = lower_inode'[i].links
  BY DEF Counted
<1>. QED  BY <1>1, <1>2 DEF NamesAgree, At

LEMMA NamesChange ==
    ASSUME DirsTyped, Kept, NamesAgree, DirsTyped', bad' = bad,
           \A e \in Entries : dcache'[e] = Absent \/ EntryStays(e) \/ Stands(e)' \/ Doubted(e),
           \A i \in Inodes : InodeStays(i) \/ Counted(i)',
           \A i \in Inodes : upper[i] # Absent => upper'[i] # Absent,
           \A c \in copies' : c \in copies
    PROVE  Kept' /\ NamesAgree'
<1>1. \A i \in Inodes : Counted(i)'
  BY DEF InodeStays, Counted, NamesAgree
<1>2. \A i \in Inodes, b \in BOOLEAN : Known_(i, b) => Known_(i, b)'
  BY DEF Known_
<1>3. ASSUME NEW e \in Entries
      PROVE  /\ Positive(e)' => Known_(dcache[e].ino, dcache[e].bad)'
             /\ Cached(e)' /\ e \notin unclean' => dcache'[e].live /\ dcache'[e].ino = entry'[e]
  <2>0. /\ Positive(e)' <=> dcache'[e] # Absent /\ dcache'[e].ino # Absent
        /\ Positive(e) <=> dcache[e] # Absent /\ dcache[e].ino # Absent
        /\ Cached(e)' <=> dcache'[e] # Absent
        /\ Cached(e) <=> dcache[e] # Absent
    BY DEF Positive, Cached
  <2>1. CASE dcache'[e] = Absent
    BY <2>0, <2>1
  <2>2. CASE Stands(e)'
    <3>1. PICK b \in BOOLEAN : /\ dcache'[e] = [ino |-> entry'[e], live |-> TRUE, bad |-> b]
                               /\ entry'[e] # Absent => Known_(entry[e], b)'
      BY <2>2 DEF Stands, Known_
    <3>2. dcache'[e].ino = entry'[e] /\ dcache'[e].bad = b /\ dcache'[e].live = TRUE
      BY <3>1
    <3>. QED  BY <2>0, <3>1, <3>2 DEF Known_
  <2>3. Positive(e) => /\ Known_(dcache[e].ino, dcache[e].bad)
                       /\ dcache[e].ino \in Inodes /\ dcache[e].bad \in BOOLEAN
    BY CachedFields, <2>0 DEF Kept
  <2>4. CASE EntryStays(e)
    <3>1. Positive(e)' => Known_(dcache[e].ino, dcache[e].bad)'
      BY <1>2, <2>0, <2>3, <2>4 DEF EntryStays, Known_
    <3>2. Cached(e) /\ e \notin unclean => dcache[e].live /\ dcache[e].ino = entry[e]
      BY DEF NamesAgree, At
    <3>. QED  BY <2>0, <2>4, <3>1, <3>2 DEF EntryStays
  <2>5. CASE Doubted(e)
    BY <1>2, <2>0, <2>3, <2>5 DEF Doubted, Known_
  <2>. QED  BY <2>1, <2>2, <2>4, <2>5
<1>4. \A c \in copies' : Known_(c.ino, c.bad)'
  BY <1>2 DEF Kept, DirsTyped, Known_
<1>5. Kept'
  BY <1>3, <1>4 DEF Kept, Entries, Known_
<1>6. NamesAgree'
  BY <1>1, <1>3, <1>5, NamesFollow DEF Entries
<1>. QED  BY <1>5, <1>6

NamesHold == DirsTyped /\ Kept /\ NamesAgree

(* An inode that may be used for a new file is not one of eCryptfs's.      *)
LEMMA FreeIsUnknown ==
    ASSUME NamesHold, NEW i \in Free
    PROVE  i \in Inodes /\ upper[i] = Absent /\ bad[i] = 0
<1>1. i \in Inodes /\ lower_inode[i].held = 0 /\ bad[i] \in Nat
  BY DEF Free, NamesHold, DirsTyped
<1>2. lower_inode[i].held = bad[i] + IF upper[i] = Absent THEN 0 ELSE 1
  BY <1>1 DEF NamesHold, NamesAgree
<1>. QED  BY <1>1, <1>2

(* Nothing changes but what the kernel counts, or an entry is dropped.     *)
LEMMA RestKeeps ==
    ASSUME NamesHold, entry' = entry, lower_inode' = lower_inode, upper' = upper, bad' = bad, overtaken \subseteq overtaken',
           dcache' \in [Entries -> CachedEntry \cup {Absent}],
           \A e \in Entries : dcache'[e] = Absent \/ (dcache'[e] = dcache[e] /\ (e \in unclean => e \in unclean')),
           \A c \in copies' : c \in copies
    PROVE  NamesHold'
<1>1. DirsTyped'
  BY DEF NamesHold, DirsTyped
<1>2. \A f \in Entries : dcache'[f] = Absent \/ EntryStays(f)
  BY DEF EntryStays
<1>3. \A i \in Inodes : InodeStays(i) /\ upper'[i] = upper[i]
  BY DEF InodeStays
<1>. QED  BY <1>1, <1>2, <1>3, NamesChange DEF NamesHold

LEMMA MakeBadKeeps ==
    ASSUME NamesHold, NEW e \in Entries, dcache[e] = Absent, NEW i \in Inodes, make_bad_inode(i),
           entry' = entry, unclean' = unclean \ {e}
    PROVE  NamesHold'
<1>1. /\ lower_inode \in [Inodes -> LowerInode] /\ upper \in [Inodes -> Int \cup {Absent}]
      /\ bad \in [Inodes -> Nat] /\ bad[i] \in Nat
      /\ lower_inode[i].held = bad[i] + IF upper[i] = Absent THEN 0 ELSE 1
  BY DEF NamesHold, DirsTyped, NamesAgree
<1>2. /\ upper' \in [Inodes -> Int \cup {Absent}] /\ upper'[i] = Absent
      /\ bad' \in [Inodes -> Nat] /\ bad'[i] = bad[i] + 1 /\ bad'[i] # 0
      /\ \A j \in Inodes \ {i} : upper'[j] = upper[j] /\ bad'[j] = bad[j]
  BY <1>1 DEF make_bad_inode
<1>3. /\ lower_inode' \in [Inodes -> LowerInode] /\ lower_inode'[i].held = bad[i] + 1
      /\ \A j \in Inodes \ {i} : lower_inode'[j] = lower_inode[j]
  <2>1. CASE upper[i] = Absent
    <3>1. PICK n \in Int : n = bad[i] + 1
      BY <1>1
    <3>2. lower_inode[i].held + 1 = n
      BY <1>1, <2>1, <3>1
    <3>3. lower_inode' = [lower_inode EXCEPT ![i].held = n]
      BY <2>1, <3>2 DEF make_bad_inode, Held
    <3>. QED  BY <1>1, <3>1, <3>3, HeldSet
  <2>2. CASE upper[i] # Absent
    BY <1>1, <2>2 DEF make_bad_inode, Held
  <2>. QED  BY <2>1, <2>2
<1>4. \A f \in Entries : dcache'[f] = IF On(f, i) THEN [dcache[f] EXCEPT !.bad = TRUE] ELSE dcache[f]
  BY DEF make_bad_inode
<1>5. ASSUME NEW f \in Entries
      PROVE  /\ dcache'[f] \in CachedEntry \cup {Absent}
             /\ dcache'[f] # Absent => /\ dcache[f] # Absent /\ dcache'[f].ino = dcache[f].ino
                                       /\ dcache'[f].live = dcache[f].live
             /\ Positive(f)' => Known_(dcache[f].ino, dcache[f].bad)'
  <2>1. CASE On(f, i)
    <3>1. dcache[f] \in CachedEntry /\ dcache[f] # Absent /\ dcache[f].ino = i
      BY <2>1, CachedFields DEF On, Positive, Cached, NamesHold
    <3>2. PICK x : x = [dcache[f] EXCEPT !.bad = TRUE]
      OBVIOUS
    <3>3. x \in CachedEntry /\ x.ino = i /\ x.live = dcache[f].live /\ x.bad = TRUE
      BY <3>1, <3>2 DEF CachedEntry
    <3>4. dcache'[f] = x
      BY <1>4, <2>1, <3>2
    <3>5. Known_(dcache[f].ino, dcache[f].bad)'
      BY <1>2, <3>3, <3>4 DEF Known_
    <3>. QED  BY <3>1, <3>3, <3>4, <3>5
  <2>2. CASE ~On(f, i)
    <3>1. dcache'[f] = dcache[f] /\ dcache[f] \in CachedEntry \cup {Absent}
      BY <1>4, <2>2 DEF NamesHold, DirsTyped
    <3>2. ASSUME dcache[f] # Absent, dcache[f].ino # Absent
          PROVE  Known_(dcache[f].ino, dcache[f].bad)'
      <4>1. dcache[f].ino \in Inodes \ {i} /\ Known_(dcache[f].ino, dcache[f].bad)
        BY <2>2, <3>2, CachedFields DEF NamesHold, Kept, On, Positive, Cached
      <4>. QED  BY <1>2, <3>1, <4>1 DEF Known_
    <3>. QED  BY <3>1, <3>2 DEF Positive, Cached
  <2>. QED  BY <2>1, <2>2
<1>6. ASSUME NEW c \in copies'
      PROVE  c.ino \in Inodes /\ c.links \in Int /\ c.bad \in BOOLEAN /\ Known_(c.ino, c.bad)'
  <2>1. PICK d \in copies : c = IF d.ino = i THEN [d EXCEPT !.bad = TRUE] ELSE d
    BY DEF make_bad_inode
  <2>2. d.ino \in Inodes /\ d.links \in Int /\ d.bad \in BOOLEAN /\ Known_(d.ino, d.bad)
    BY DEF NamesHold, DirsTyped, Kept
  <2>3. CASE d.ino = i
    <3>1. c.ino = i /\ c.links = d.links /\ c.bad = TRUE
      BY <2>1, <2>2, <2>3 DEF make_bad_inode
    <3>. QED  BY <1>2, <2>2, <3>1 DEF Known_
  <2>4. CASE d.ino # i
    BY <1>2, <2>1, <2>2, <2>4 DEF Known_
  <2>. QED  BY <2>3, <2>4
<1>7. DirsTyped'
  <2>1. dcache' \in [Entries -> CachedEntry \cup {Absent}]
    BY <1>5 DEF make_bad_inode
  <2>. QED  BY <1>2, <1>3, <1>6, <2>1 DEF NamesHold, DirsTyped
<1>8. Kept'
  BY <1>5, <1>6 DEF Kept, Entries, Known_
<1>9. \A j \in Inodes : Counted(j)'
  BY <1>2, <1>3 DEF make_bad_inode, NamesHold, NamesAgree, Counted
<1>10. \A f \in Entries : Cached(f)' /\ f \notin unclean' => dcache'[f].live /\ dcache'[f].ino = entry'[f]
  BY <1>5 DEF NamesHold, NamesAgree, Cached, At
<1>11. NamesAgree'
  BY <1>7, <1>8, <1>9, <1>10, NamesFollow DEF Entries
<1>. QED  BY <1>7, <1>8, <1>11 DEF NamesHold

LEMMA LookupKeeps ==
    ASSUME NamesHold, NEW e \in Entries, lookup(e)
    PROVE  NamesHold'
<1>1. entry' = entry /\ unclean' = unclean \ {e} /\ dcache[e] = Absent
  BY DEF lookup, Cached
<1>2. CASE dcache' = Seen(e, Absent) /\ At(e) = Absent /\ UNCHANGED <<lower_inode, upper, bad, copies, overtaken>>
  <2>1. DirsTyped'
    BY <1>1, <1>2, SeenTyped DEF NamesHold, DirsTyped
  <2>2. \A f \in Entries : EntryStays(f) \/ Stands(f)'
    <3>1. dcache'[e] = [ino |-> Absent, live |-> TRUE, bad |-> FALSE] /\ \A f \in Entries \ {e} : dcache'[f] = dcache[f]
      BY <1>2, SeenTyped DEF NamesHold
    <3>2. Stands(e)'
      BY <1>1, <1>2, <3>1 DEF Stands, At
    <3>. QED  BY <1>1, <3>1, <3>2 DEF EntryStays
  <2>3. \A i \in Inodes : InodeStays(i) /\ upper'[i] = upper[i]
    BY <1>1, <1>2 DEF InodeStays
  <2>. QED  BY <1>1, <1>2, <2>1, <2>2, <2>3, NamesChange DEF NamesHold
<1>3. CASE /\ At(e) # Absent /\ dcache' = Seen(e, At(e)) /\ get_inode(lower_inode, At(e))
           /\ UNCHANGED <<bad, copies, overtaken>>
  <2>. DEFINE i == At(e)
  <2>1. i \in Inodes /\ lower_inode \in [Inodes -> LowerInode]
        /\ lower_inode[i].held = bad[i] + (IF upper[i] = Absent THEN 0 ELSE 1)
    BY <1>3 DEF NamesHold, DirsTyped, At, NamesAgree
  <2>2. /\ lower_inode' \in [Inodes -> LowerInode] /\ upper' \in [Inodes -> Int \cup {Absent}]
        /\ upper'[i] # Absent /\ lower_inode'[i].held = bad[i] + 1 /\ lower_inode'[i].links = lower_inode[i].links
        /\ upper[i] = Absent => upper'[i] = lower_inode[i].links
        /\ upper[i] # Absent => upper'[i] = upper[i] /\ lower_inode' = lower_inode
        /\ \A j \in Inodes \ {i} : upper'[j] = upper[j] /\ lower_inode'[j] = lower_inode[j]
    BY <1>3, <2>1, GetInode DEF NamesHold
  <2>3. DirsTyped'
    BY <1>1, <1>3, <2>1, <2>2, SeenTyped DEF NamesHold, DirsTyped
  <2>4. \A f \in Entries : EntryStays(f) \/ Stands(f)'
    <3>1. dcache'[e] = [ino |-> i, live |-> TRUE, bad |-> FALSE] /\ \A f \in Entries \ {e} : dcache'[f] = dcache[f]
      BY <1>3, <2>1, SeenTyped DEF NamesHold
    <3>2. Stands(e)'
      BY <1>1, <2>2, <3>1 DEF Stands, At, Known_
    <3>. QED  BY <1>1, <3>1, <3>2 DEF EntryStays
  <2>5. \A j \in Inodes : (InodeStays(j) \/ Counted(j)') /\ (upper[j] # Absent => upper'[j] # Absent)
    BY <1>3, <2>2 DEF InodeStays, Counted
  <2>. QED  BY <1>1, <1>3, <2>3, <2>4, <2>5, NamesChange DEF NamesHold
<1>4. CASE UNCHANGED <<dcache, lower_inode, upper, bad, copies, overtaken>>
  BY <1>1, <1>4, RestKeeps DEF NamesHold, DirsTyped
<1>5. CASE At(e) # Absent /\ make_bad_inode(At(e))
  BY <1>1, <1>5, MakeBadKeeps DEF NamesHold, DirsTyped, At
<1>. QED  BY <1>2, <1>3, <1>4, <1>5 DEF lookup

(* A new lower inode gets a name; eCryptfs takes it, or not.               *)
LEMMA MadeInode ==
    ASSUME NamesHold, NEW i \in Free, NEW kind \in {"file", "dir", "symlink"}, bad' = bad,
           \/ get_inode(Made(i, kind), i)
           \/ lower_inode' = Made(i, kind) /\ UNCHANGED upper
    PROVE  /\ i \in Inodes
           /\ lower_inode' \in [Inodes -> LowerInode] /\ upper' \in [Inodes -> Int \cup {Absent}]
           /\ \A j \in Inodes \ {i} : upper'[j] = upper[j] /\ lower_inode'[j] = lower_inode[j]
           /\ get_inode(Made(i, kind), i) => upper'[i] # Absent
           /\ Counted(i)'
           /\ \A j \in Inodes : upper[j] # Absent => upper'[j] # Absent
<1>1. i \in Inodes /\ upper[i] = Absent /\ bad[i] = 0
  BY FreeIsUnknown
<1>2. /\ Made(i, kind) \in [Inodes -> LowerInode] /\ Made(i, kind)[i].held = 0
      /\ \A j \in Inodes \ {i} : Made(i, kind)[j] = lower_inode[j]
  BY <1>1, MadeFields DEF NamesHold
<1>3. CASE get_inode(Made(i, kind), i)
  <2>. DEFINE l == Made(i, kind)
  <2>1. l \in [Inodes -> LowerInode] /\ l[i].held = bad[i] + (IF upper[i] = Absent THEN 0 ELSE 1) /\ get_inode(l, i)
        /\ \A j \in Inodes \ {i} : l[j] = lower_inode[j]
    BY <1>1, <1>2, <1>3
  <2>. HIDE DEF l
  <2>2. /\ lower_inode' \in [Inodes -> LowerInode] /\ upper' \in [Inodes -> Int \cup {Absent}]
        /\ upper'[i] # Absent /\ upper'[i] = lower_inode'[i].links /\ lower_inode'[i].held = bad[i] + 1
        /\ \A j \in Inodes \ {i} : upper'[j] = upper[j] /\ lower_inode'[j] = l[j]
    BY <1>1, <2>1, GetInode DEF NamesHold
  <2>3. Counted(i)'
    BY <2>2 DEF Counted
  <2>. QED  BY <1>1, <2>1, <2>2, <2>3
<1>4. CASE lower_inode' = Made(i, kind) /\ UNCHANGED upper /\ ~get_inode(Made(i, kind), i)
  <2>1. Counted(i)'
    BY <1>1, <1>2, <1>4 DEF Counted
  <2>. QED  BY <1>1, <1>2, <1>4, <2>1 DEF NamesHold, DirsTyped
<1>. QED  BY <1>3, <1>4

LEMMA MakeKeeps ==
    ASSUME NamesHold, NEW e \in Entries, NEW kind \in {"file", "dir", "symlink"}, make(e, kind)
    PROVE  NamesHold'
<1>1. copies' = copies /\ overtaken' = overtaken /\ unclean' = unclean /\ bad' = bad
  BY DEF make
<1>2. ASSUME NEW i \in Free, entry' = [entry EXCEPT ![e] = i],
             \/ dcache' = Seen(e, i) /\ get_inode(Made(i, kind), i)
             \/ Dropped(e) /\ lower_inode' = Made(i, kind) /\ UNCHANGED upper
      PROVE  NamesHold'
  <2>1. /\ i \in Inodes
        /\ lower_inode' \in [Inodes -> LowerInode] /\ upper' \in [Inodes -> Int \cup {Absent}]
        /\ \A j \in Inodes \ {i} : upper'[j] = upper[j] /\ lower_inode'[j] = lower_inode[j]
        /\ get_inode(Made(i, kind), i) => upper'[i] # Absent
        /\ Counted(i)'
        /\ \A j \in Inodes : upper[j] # Absent => upper'[j] # Absent
    BY <1>1, <1>2, MadeInode
  <2>2. /\ entry' \in [Entries -> Inodes \cup {Absent}] /\ entry'[e] = i
        /\ \A f \in Entries \ {e} : entry'[f] = entry[f]
    BY <1>2, <2>1 DEF NamesHold, DirsTyped
  <2>3. /\ dcache' \in [Entries -> CachedEntry \cup {Absent}]
        /\ dcache'[e] = Absent \/ Stands(e)'
        /\ \A f \in Entries \ {e} : dcache'[f] = dcache[f]
    <3>1. CASE dcache' = Seen(e, i) /\ get_inode(Made(i, kind), i)
      <4>1. /\ dcache' \in [Entries -> CachedEntry \cup {Absent}] /\ dcache'[e] = [ino |-> i, live |-> TRUE, bad |-> FALSE]
            /\ \A f \in Entries \ {e} : dcache'[f] = dcache[f]
        BY <2>1, <3>1, SeenTyped DEF NamesHold
      <4>. QED  BY <2>1, <2>2, <3>1, <4>1 DEF Stands, Known_
    <3>2. CASE Dropped(e)
      BY <3>2 DEF Dropped, NamesHold, DirsTyped
    <3>. QED  BY <1>2, <3>1, <3>2
  <2>4. DirsTyped'
    BY <1>1, <2>1, <2>2, <2>3 DEF NamesHold, DirsTyped
  <2>5. \A f \in Entries : dcache'[f] = Absent \/ EntryStays(f) \/ Stands(f)'
    BY <1>1, <2>2, <2>3 DEF EntryStays
  <2>6. \A j \in Inodes : InodeStays(j) \/ Counted(j)'
    BY <1>1, <2>1 DEF InodeStays
  <2>. QED  BY <1>1, <2>1, <2>4, <2>5, <2>6, NamesChange DEF NamesHold
<1>3. CASE Dropped(e) /\ UNCHANGED <<entry, lower_inode, upper, listing>>
  BY <1>1, <1>3, RestKeeps DEF NamesHold, DirsTyped, Dropped
<1>. QED  BY <1>2, <1>3 DEF make

LEMMA CreateKeeps ==
    ASSUME NamesHold, NEW e \in Entries, create(e)
    PROVE  NamesHold'
<1>1. copies' = copies /\ overtaken' = overtaken /\ bad' = bad
  BY DEF create
<1>2. ASSUME NEW i \in Free, entry' = [entry EXCEPT ![e] = i],
             \/ dcache' = Seen(e, i) /\ get_inode(Made(i, "file"), i) /\ UNCHANGED unclean
             \/ lower_inode' = Made(i, "file") /\ unclean' = unclean \cup {e} /\ UNCHANGED <<dcache, upper>>
      PROVE  NamesHold'
  <2>1. /\ i \in Inodes
        /\ lower_inode' \in [Inodes -> LowerInode] /\ upper' \in [Inodes -> Int \cup {Absent}]
        /\ \A j \in Inodes \ {i} : upper'[j] = upper[j] /\ lower_inode'[j] = lower_inode[j]
        /\ get_inode(Made(i, "file"), i) => upper'[i] # Absent
        /\ Counted(i)'
        /\ \A j \in Inodes : upper[j] # Absent => upper'[j] # Absent
    BY <1>1, <1>2, MadeInode
  <2>2. /\ entry' \in [Entries -> Inodes \cup {Absent}] /\ entry'[e] = i
        /\ \A f \in Entries \ {e} : entry'[f] = entry[f]
    BY <1>2, <2>1 DEF NamesHold, DirsTyped
  <2>3. /\ dcache' \in [Entries -> CachedEntry \cup {Absent}]
        /\ Stands(e)' \/ Doubted(e)
        /\ \A f \in Entries \ {e} : dcache'[f] = dcache[f] /\ (f \in unclean => f \in unclean')
    <3>1. CASE dcache' = Seen(e, i) /\ get_inode(Made(i, "file"), i) /\ UNCHANGED unclean
      <4>1. /\ dcache' \in [Entries -> CachedEntry \cup {Absent}] /\ dcache'[e] = [ino |-> i, live |-> TRUE, bad |-> FALSE]
            /\ \A f \in Entries \ {e} : dcache'[f] = dcache[f]
        BY <2>1, <3>1, SeenTyped DEF NamesHold
      <4>. QED  BY <2>1, <2>2, <3>1, <4>1 DEF Stands, Known_
    <3>2. CASE unclean' = unclean \cup {e} /\ UNCHANGED dcache
      BY <3>2 DEF Doubted, NamesHold, DirsTyped
    <3>. QED  BY <1>2, <3>1, <3>2
  <2>4. DirsTyped'
    BY <1>1, <2>1, <2>2, <2>3 DEF NamesHold, DirsTyped
  <2>5. \A f \in Entries : dcache'[f] = Absent \/ EntryStays(f) \/ Stands(f)' \/ Doubted(f)
    BY <1>1, <2>2, <2>3 DEF EntryStays
  <2>6. \A j \in Inodes : InodeStays(j) \/ Counted(j)'
    BY <1>1, <2>1 DEF InodeStays
  <2>. QED  BY <1>1, <2>1, <2>4, <2>5, <2>6, NamesChange DEF NamesHold
<1>3. CASE (Dropped(e) \/ UNCHANGED dcache) /\ UNCHANGED <<entry, lower_inode, upper, unclean>>
  BY <1>1, <1>3, RestKeeps DEF NamesHold, DirsTyped, Dropped
<1>. QED  BY <1>2, <1>3 DEF create

(* The number of links of a lower inode changes: the inode in use shows    *)
(* the new one, or does not see it.                                        *)
LEMMA LinksChange ==
    ASSUME NamesHold, NEW i \in Inodes, NEW n \in Int, bad' = bad,
           lower_inode' = [lower_inode EXCEPT ![i].links = n],
           \/ Unseen(i)
           \/ upper[i] # Absent /\ upper' = [upper EXCEPT ![i] = n] /\ overtaken' = overtaken \ {i}
    PROVE  /\ lower_inode' \in [Inodes -> LowerInode] /\ upper' \in [Inodes -> Int \cup {Absent}]
           /\ \A j \in Inodes : InodeStays(j) \/ Counted(j)'
           /\ \A j \in Inodes : upper[j] # Absent => upper'[j] # Absent
<1>0. lower_inode \in [Inodes -> LowerInode]
  BY DEF NamesHold, DirsTyped
<1>1. upper \in [Inodes -> Int \cup {Absent}] /\ lower_inode[i].held = bad[i] + IF upper[i] = Absent THEN 0 ELSE 1
  BY DEF NamesHold, DirsTyped, NamesAgree
<1>2. /\ lower_inode' \in [Inodes -> LowerInode]
      /\ lower_inode'[i].held = lower_inode[i].held /\ lower_inode'[i].links = n
      /\ \A j \in Inodes \ {i} : lower_inode'[j] = lower_inode[j]
  BY <1>0 DEF LowerInode
<1>3. CASE Unseen(i)
  <2>1. upper' = upper /\ overtaken \subseteq overtaken' /\ (upper[i] # Absent => i \in overtaken')
    BY <1>3 DEF Unseen
  <2>. QED  BY <1>1, <1>2, <2>1 DEF InodeStays, Counted
<1>4. CASE upper[i] # Absent /\ upper' = [upper EXCEPT ![i] = n] /\ overtaken' = overtaken \ {i}
  <2>1. /\ upper' \in [Inodes -> Int \cup {Absent}] /\ upper'[i] = n /\ upper'[i] # Absent
        /\ \A j \in Inodes \ {i} : upper'[j] = upper[j]
    BY <1>1, <1>4, Absences
  <2>. QED  BY <1>1, <1>2, <1>4, <2>1 DEF InodeStays, Counted
<1>. QED  BY <1>3, <1>4

LEMMA PositiveInode ==
    ASSUME NamesHold, NEW e \in Entries, Positive(e)
    PROVE  /\ dcache[e] \in CachedEntry /\ dcache[e].ino \in Inodes /\ dcache[e].bad \in BOOLEAN
           /\ Known_(dcache[e].ino, dcache[e].bad) /\ lower_inode[dcache[e].ino].links \in Int
<1>1. dcache[e] \in CachedEntry /\ dcache[e].ino \in Inodes /\ dcache[e].bad \in BOOLEAN
  BY CachedFields DEF NamesHold, Positive
<1>. QED  BY <1>1, InodeLinks DEF NamesHold, Kept, DirsTyped

(* The file of a cached entry is relinked.                                 *)
LEMMA RelinkedKnown ==
    ASSUME NamesHold, NEW e \in Entries, Positive(e), NEW n \in Int, bad' = bad,
           Relinked(e, [lower_inode EXCEPT ![dcache[e].ino].links = n])
    PROVE  /\ lower_inode' \in [Inodes -> LowerInode] /\ upper' \in [Inodes -> Int \cup {Absent}]
           /\ \A j \in Inodes : InodeStays(j) \/ Counted(j)'
           /\ \A j \in Inodes : upper[j] # Absent => upper'[j] # Absent
<1>1. PICK i : i = dcache[e].ino
  OBVIOUS
<1>2. i \in Inodes /\ (~dcache[e].bad => upper[i] # Absent)
  BY <1>1, PositiveInode DEF Known_
<1>3. lower_inode' = [lower_inode EXCEPT ![i].links = n]
  BY <1>1 DEF Relinked
<1>4. lower_inode'[i].links = n
  BY <1>2, <1>3 DEF NamesHold, DirsTyped, LowerInode
<1>5. \/ Unseen(i)
      \/ upper[i] # Absent /\ upper' = [upper EXCEPT ![i] = n] /\ overtaken' = overtaken \ {i}
  BY <1>1, <1>2, <1>3, <1>4 DEF Relinked
<1>. QED  BY <1>2, <1>3, <1>5, LinksChange

LEMMA LinkKeeps ==
    ASSUME NamesHold, NEW old \in Entries, NEW e \in Entries, link(old, e)
    PROVE  NamesHold'
<1>1. PICK i : i = dcache[old].ino
  OBVIOUS
<1>2. PICK n : n = lower_inode[i].links + 1
  OBVIOUS
<1>3. copies' = copies /\ bad' = bad /\ Positive(old)
  BY DEF link
<1>4. i \in Inodes /\ n \in Int /\ Known_(i, dcache[old].bad)
  BY <1>1, <1>2, <1>3, PositiveInode
<1>5. PICK more : more = [lower_inode EXCEPT ![i].links = n]
  OBVIOUS
<1>6. /\ more \in [Inodes -> LowerInode] /\ more[i].held = lower_inode[i].held
      /\ \A j \in Inodes \ {i} : more[j] = lower_inode[j]
  <2>1. lower_inode \in [Inodes -> LowerInode]
    BY DEF NamesHold, DirsTyped
  <2>. QED  BY <1>4, <1>5, <2>1 DEF LowerInode
<1>7. \/ /\ entry' = [entry EXCEPT ![e] = i]
         /\ \/ /\ dcache' = Seen(e, i) /\ UNCHANGED unclean
               /\ \/ upper[i] = Absent /\ get_inode(more, i) /\ UNCHANGED overtaken
                  \/ upper[i] # Absent /\ Relinked(old, more)
            \/ /\ upper[i] = Absent /\ lower_inode' = more
               /\ unclean' = unclean \cup {e} /\ UNCHANGED <<dcache, upper, overtaken>>
      \/ UNCHANGED <<entry, lower_inode, upper, dcache, listing, unclean, overtaken>>
  BY <1>1, <1>2, <1>5 DEF link
<1>8. lower_inode[i].held = bad[i] + IF upper[i] = Absent THEN 0 ELSE 1
  BY <1>4 DEF NamesHold, NamesAgree
<1>9. ASSUME entry' = [entry EXCEPT ![e] = i],
             lower_inode' \in [Inodes -> LowerInode], upper' \in [Inodes -> Int \cup {Absent}],
             \A j \in Inodes : InodeStays(j) \/ Counted(j)',
             \A j \in Inodes : upper[j] # Absent => upper'[j] # Absent,
             \/ dcache' = Seen(e, i) /\ unclean' = unclean /\ upper'[i] # Absent
             \/ dcache' = dcache /\ unclean' = unclean \cup {e}
      PROVE  NamesHold'
  <2>1. /\ entry' \in [Entries -> Inodes \cup {Absent}] /\ entry'[e] = i
        /\ \A f \in Entries \ {e} : entry'[f] = entry[f]
    BY <1>4, <1>9 DEF NamesHold, DirsTyped
  <2>2. /\ dcache' \in [Entries -> CachedEntry \cup {Absent}]
        /\ Stands(e)' \/ Doubted(e)
        /\ \A f \in Entries \ {e} : dcache'[f] = dcache[f] /\ (f \in unclean => f \in unclean')
    <3>1. CASE dcache' = Seen(e, i) /\ unclean' = unclean /\ upper'[i] # Absent
      <4>1. /\ dcache' \in [Entries -> CachedEntry \cup {Absent}] /\ dcache'[e] = [ino |-> i, live |-> TRUE, bad |-> FALSE]
            /\ \A f \in Entries \ {e} : dcache'[f] = dcache[f]
        BY <1>4, <3>1, SeenTyped DEF NamesHold
      <4>. QED  BY <2>1, <3>1, <4>1 DEF Stands, Known_
    <3>2. CASE dcache' = dcache /\ unclean' = unclean \cup {e}
      BY <3>2 DEF Doubted, NamesHold, DirsTyped
    <3>. QED  BY <1>9, <3>1, <3>2
  <2>3. DirsTyped'
    BY <1>3, <1>9, <2>1, <2>2 DEF NamesHold, DirsTyped
  <2>4. \A f \in Entries : EntryStays(f) \/ Stands(f)' \/ Doubted(f)
    BY <2>1, <2>2 DEF EntryStays
  <2>. QED  BY <1>3, <1>9, <2>3, <2>4, NamesChange DEF NamesHold
<1>10. CASE /\ entry' = [entry EXCEPT ![e] = i] /\ dcache' = Seen(e, i) /\ UNCHANGED unclean
            /\ upper[i] = Absent /\ get_inode(more, i) /\ UNCHANGED overtaken
  <2>1. /\ lower_inode' \in [Inodes -> LowerInode] /\ upper' \in [Inodes -> Int \cup {Absent}]
        /\ upper'[i] # Absent /\ lower_inode'[i].held = bad[i] + 1 /\ upper'[i] = lower_inode'[i].links
        /\ \A j \in Inodes \ {i} : upper'[j] = upper[j] /\ lower_inode'[j] = lower_inode[j]
    BY <1>4, <1>6, <1>8, <1>10, GetInode DEF NamesHold
  <2>2. \A j \in Inodes : InodeStays(j) \/ Counted(j)'
    BY <1>3, <1>10, <2>1 DEF InodeStays, Counted
  <2>3. \A j \in Inodes : upper[j] # Absent => upper'[j] # Absent
    BY <2>1
  <2>. QED  BY <1>9, <1>10, <2>1, <2>2, <2>3
<1>11. CASE /\ entry' = [entry EXCEPT ![e] = i] /\ dcache' = Seen(e, i) /\ UNCHANGED unclean
            /\ upper[i] # Absent /\ Relinked(old, more)
  <2>1. /\ lower_inode' \in [Inodes -> LowerInode] /\ upper' \in [Inodes -> Int \cup {Absent}]
        /\ \A j \in Inodes : InodeStays(j) \/ Counted(j)'
        /\ \A j \in Inodes : upper[j] # Absent => upper'[j] # Absent
    BY <1>1, <1>3, <1>4, <1>5, <1>11, RelinkedKnown
  <2>. QED  BY <1>4, <1>9, <1>11, <2>1
<1>12. CASE /\ entry' = [entry EXCEPT ![e] = i] /\ upper[i] = Absent /\ lower_inode' = more
            /\ unclean' = unclean \cup {e} /\ UNCHANGED <<dcache, upper, overtaken>>
  <2>1. \A j \in Inodes : InodeStays(j) \/ Counted(j)'
    BY <1>3, <1>4, <1>6, <1>8, <1>12 DEF InodeStays, Counted
  <2>2. upper' \in [Inodes -> Int \cup {Absent}]
    BY <1>12 DEF NamesHold, DirsTyped
  <2>. QED  BY <1>6, <1>9, <1>12, <2>1, <2>2
<1>13. CASE UNCHANGED <<entry, lower_inode, upper, dcache, listing, unclean, overtaken>>
  BY <1>3, <1>13, RestKeeps DEF NamesHold, DirsTyped
<1>. QED  BY <1>7, <1>10, <1>11, <1>12, <1>13

LEMMA UnlinkedLinks ==
    ASSUME NamesHold, NEW i \in Inodes
    PROVE  \E n \in Int : Unlinked(i) = [lower_inode EXCEPT ![i].links = n]
<1>1. lower_inode[i].links \in Int
  BY InodeLinks DEF NamesHold, DirsTyped
<1>2. CASE lower_inode[i].kind = "dir"
  BY <1>2 DEF Unlinked
<1>3. CASE lower_inode[i].kind # "dir"
  BY <1>1, <1>3 DEF Unlinked
<1>. QED  BY <1>2, <1>3

LEMMA RemoveKeeps ==
    ASSUME NamesHold, NEW e \in Entries, remove(e)
    PROVE  NamesHold'
<1>1. copies' = copies /\ unclean' = unclean /\ bad' = bad /\ Positive(e)
  BY DEF remove
<1>2. CASE /\ entry' = [entry EXCEPT ![e] = Absent]
           /\ Relinked(e, Unlinked(dcache[e].ino)) /\ Dropped(e)
  <2>1. PICK n \in Int : Unlinked(dcache[e].ino) = [lower_inode EXCEPT ![dcache[e].ino].links = n]
    BY <1>1, PositiveInode, UnlinkedLinks
  <2>2. /\ lower_inode' \in [Inodes -> LowerInode] /\ upper' \in [Inodes -> Int \cup {Absent}]
        /\ \A j \in Inodes : InodeStays(j) \/ Counted(j)'
        /\ \A j \in Inodes : upper[j] # Absent => upper'[j] # Absent
    BY <1>1, <1>2, <2>1, RelinkedKnown
  <2>3. /\ entry' \in [Entries -> Inodes \cup {Absent}]
        /\ \A f \in Entries \ {e} : entry'[f] = entry[f] /\ dcache'[f] = dcache[f]
        /\ dcache' \in [Entries -> CachedEntry \cup {Absent}] /\ dcache'[e] = Absent
    BY <1>2 DEF NamesHold, DirsTyped, Dropped
  <2>4. DirsTyped'
    BY <1>1, <2>2, <2>3 DEF NamesHold, DirsTyped
  <2>5. \A f \in Entries : dcache'[f] = Absent \/ EntryStays(f)
    BY <1>1, <2>3 DEF EntryStays
  <2>. QED  BY <1>1, <2>2, <2>4, <2>5, NamesChange DEF NamesHold
<1>3. CASE UNCHANGED <<entry, lower_inode, upper, dcache, listing, overtaken>>
  BY <1>1, <1>3, RestKeeps DEF NamesHold, DirsTyped
<1>. QED  BY <1>2, <1>3 DEF remove

LEMMA RenameKeeps ==
    ASSUME NamesHold, NEW e \in Entries, NEW new \in Entries, rename(e, new)
    PROVE  NamesHold'
<1>1. PICK i, j, t : i = dcache[e].ino /\ j = dcache[new].ino /\ t = entry[new]
  OBVIOUS
<1>2. copies' = copies /\ bad' = bad /\ e # new /\ Positive(e) /\ Cached(new)
  BY DEF rename
<1>3. i \in Inodes /\ Known_(i, dcache[e].bad) /\ dcache[e] \in CachedEntry /\ dcache[e].bad \in BOOLEAN
  BY <1>1, <1>2, PositiveInode
<1>4. CASE /\ dcache[e].live
           /\ entry' = [entry EXCEPT ![new] = i, ![e] = Absent]
           /\ dcache' = [dcache EXCEPT ![new] = dcache[e], ![e] = Absent]
           /\ \/ UNCHANGED <<lower_inode, upper, overtaken>>
              \/ t # Absent /\ j = t /\ Relinked(new, Unlinked(t))
              \/ t # Absent /\ lower_inode' = Unlinked(t) /\ Unseen(t)
           /\ unclean' = unclean \ {e, new}
  <2>1. /\ lower_inode' \in [Inodes -> LowerInode] /\ upper' \in [Inodes -> Int \cup {Absent}]
        /\ \A k \in Inodes : InodeStays(k) \/ Counted(k)'
        /\ \A k \in Inodes : upper[k] # Absent => upper'[k] # Absent
    <3>1. CASE UNCHANGED <<lower_inode, upper, overtaken>>
      BY <3>1 DEF NamesHold, DirsTyped, InodeStays
    <3>2. CASE t # Absent /\ j = t /\ Relinked(new, Unlinked(t))
      <4>1. Positive(new) /\ t = dcache[new].ino
        BY <1>1, <1>2, <3>2 DEF Positive
      <4>2. PICK n \in Int : Unlinked(t) = [lower_inode EXCEPT ![dcache[new].ino].links = n]
        BY <4>1, PositiveInode, UnlinkedLinks
      <4>. QED  BY <1>2, <3>2, <4>1, <4>2, RelinkedKnown
    <3>3. CASE t # Absent /\ lower_inode' = Unlinked(t) /\ Unseen(t)
      <4>1. t \in Inodes
        BY <1>1, <3>3 DEF NamesHold, DirsTyped
      <4>2. PICK n \in Int : Unlinked(t) = [lower_inode EXCEPT ![t].links = n]
        BY <4>1, UnlinkedLinks
      <4>. QED  BY <1>2, <3>3, <4>1, <4>2, LinksChange
    <3>. QED  BY <1>4, <3>1, <3>2, <3>3
  <2>2. /\ entry' \in [Entries -> Inodes \cup {Absent}] /\ entry'[new] = i
        /\ \A f \in Entries \ {e, new} : entry'[f] = entry[f] /\ dcache'[f] = dcache[f]
        /\ dcache' \in [Entries -> CachedEntry \cup {Absent}] /\ dcache'[e] = Absent /\ dcache'[new] = dcache[e]
    BY <1>2, <1>3, <1>4 DEF NamesHold, DirsTyped
  <2>3. PICK b \in BOOLEAN : b = dcache[e].bad
    BY <1>3
  <2>4. dcache[e] = [ino |-> i, live |-> TRUE, bad |-> b]
    BY <1>1, <1>3, <1>4, <2>3 DEF CachedEntry
  <2>5. Known_(i, b)'
    BY <1>2, <1>3, <2>1, <2>3 DEF Known_
  <2>6. Stands(new)'
    BY <2>2, <2>4, <2>5 DEF Stands, Known_
  <2>7. DirsTyped'
    BY <1>2, <2>1, <2>2 DEF NamesHold, DirsTyped
  <2>8. \A f \in Entries : dcache'[f] = Absent \/ EntryStays(f) \/ Stands(f)'
    BY <1>4, <2>2, <2>6 DEF EntryStays
  <2>. QED  BY <1>2, <2>1, <2>7, <2>8, NamesChange DEF NamesHold
<1>5. CASE UNCHANGED <<entry, lower_inode, upper, dcache, listing, unclean, overtaken>>
  BY <1>2, <1>5, RestKeeps DEF NamesHold, DirsTyped
<1>. QED  BY <1>1, <1>4, <1>5 DEF rename, LowerPositive, At

-----------------------------------------------------------------------------
LEMMA CopyKeeps ==
    ASSUME NamesHold, NEW e \in Entries, copy_attr(e)
    PROVE  NamesHold'
<1>1. PICK c : c = [at |-> e, ino |-> dcache[e].ino, bad |-> dcache[e].bad, links |-> lower_inode[dcache[e].ino].links]
  OBVIOUS
<1>2. UNCHANGED <<entry, lower_inode, dcache, upper, bad, unclean, overtaken>> /\ copies' = copies \cup {c}
  BY <1>1 DEF copy_attr
<1>3. c.ino \in Inodes /\ c.links \in Int /\ c.bad \in BOOLEAN /\ Known_(c.ino, c.bad)
  BY <1>1, PositiveInode DEF copy_attr
<1>4. DirsTyped'
  BY <1>2, <1>3 DEF NamesHold, DirsTyped
<1>5. Kept'
  BY <1>2, <1>3 DEF NamesHold, Kept, Known_, Positive, Cached
<1>6. NamesAgree'
  BY <1>2 DEF NamesHold, NamesAgree, Positive, Cached, At, Free
<1>. QED  BY <1>4, <1>5, <1>6 DEF NamesHold

LEMMA RevalidateKeeps ==
    ASSUME NamesHold, NEW c \in copies, d_revalidate(c)
    PROVE  NamesHold'
<1>1. c.ino \in Inodes /\ c.links \in Int /\ c.bad \in BOOLEAN /\ Known_(c.ino, c.bad)
      /\ \A d \in copies' : d \in copies
  BY DEF NamesHold, DirsTyped, Kept, d_revalidate
<1>2. entry' = entry /\ lower_inode' = lower_inode /\ unclean' = unclean /\ bad' = bad
  BY DEF d_revalidate
<1>3. /\ dcache' \in [Entries -> CachedEntry \cup {Absent}]
      /\ \A f \in Entries : dcache'[f] = Absent \/ dcache'[f] = dcache[f]
  BY DEF d_revalidate, NamesHold, DirsTyped
<1>4. CASE c.bad
  <2>1. upper' = upper /\ overtaken' = overtaken
    BY <1>4 DEF d_revalidate
  <2>. QED  BY <1>1, <1>2, <1>3, <2>1, RestKeeps
<1>5. CASE ~c.bad
  <2>1. /\ upper' = [upper EXCEPT ![c.ino] = c.links]
        /\ overtaken' = IF c.links = lower_inode[c.ino].links THEN overtaken \ {c.ino} ELSE overtaken \cup {c.ino}
    BY <1>5 DEF d_revalidate
  <2>2. upper' \in [Inodes -> Int \cup {Absent}] /\ upper'[c.ino] = c.links /\ \A j \in Inodes \ {c.ino} : upper'[j] = upper[j]
    BY <1>1, <2>1 DEF NamesHold, DirsTyped
  <2>3. upper[c.ino] # Absent /\ c.links # Absent
    BY <1>1, <1>5, Absences DEF Known_
  <2>4. \A j \in Inodes : InodeStays(j) \/ Counted(j)'
    <3>1. \A j \in Inodes \ {c.ino} : InodeStays(j)
      BY <1>2, <2>1, <2>2 DEF InodeStays
    <3>2. lower_inode[c.ino].held = bad[c.ino] + 1
      BY <1>1, <2>3 DEF NamesHold, NamesAgree
    <3>3. Counted(c.ino)'
      BY <1>2, <2>1, <2>2, <2>3, <3>2 DEF Counted
    <3>. QED  BY <3>1, <3>3
  <2>5. \A j \in Inodes : upper[j] # Absent => upper'[j] # Absent
    BY <1>1, <2>2, <2>3
  <2>6. DirsTyped'
    BY <1>1, <1>2, <1>3, <2>2 DEF NamesHold, DirsTyped
  <2>7. \A f \in Entries : dcache'[f] = Absent \/ EntryStays(f)
    BY <1>2, <1>3 DEF EntryStays
  <2>. QED  BY <1>1, <1>2, <2>4, <2>5, <2>6, <2>7, NamesChange DEF NamesHold
<1>. QED  BY <1>4, <1>5

LEMMA ReleaseKeeps ==
    ASSUME NamesHold, NEW e \in Entries, d_release(e)
    PROVE  NamesHold'
<1>1. UNCHANGED <<entry, lower_inode, upper, bad, copies, overtaken>> /\ unclean' = unclean \ {e} /\ Dropped(e)
  BY DEF d_release
<1>. QED  BY <1>1, RestKeeps DEF Dropped, NamesHold, DirsTyped

LEMMA EvictKeeps ==
    ASSUME NamesHold, NEW i \in Inodes, evict_inode(i)
    PROVE  NamesHold'
<1>1. /\ UNCHANGED <<entry, dcache, bad, copies, unclean>> /\ upper[i] # Absent
      /\ upper' = [upper EXCEPT ![i] = Absent]
      /\ lower_inode' = [lower_inode EXCEPT ![i].held = lower_inode[i].held - 1]
      /\ overtaken' = overtaken \ {i}
      /\ \A e \in Entries : On(e, i) => dcache[e].bad
      /\ \A c \in copies : c.ino = i => c.bad
  BY DEF evict_inode
<1>2. /\ lower_inode \in [Inodes -> LowerInode] /\ upper \in [Inodes -> Int \cup {Absent}] /\ bad[i] \in Nat
      /\ lower_inode[i].held = bad[i] + 1
  BY <1>1 DEF NamesHold, NamesAgree, DirsTyped
<1>3. lower_inode' = [lower_inode EXCEPT ![i].held = bad[i]]
  <2>1. lower_inode[i].held - 1 = bad[i]
    BY <1>2
  <2>. QED  BY <1>1, <2>1
<1>4. /\ lower_inode' \in [Inodes -> LowerInode] /\ lower_inode'[i].held = bad[i]
      /\ \A j \in Inodes \ {i} : lower_inode'[j] = lower_inode[j]
  BY <1>2, <1>3, HeldSet
<1>5. /\ upper' \in [Inodes -> Int \cup {Absent}] /\ upper'[i] = Absent
      /\ \A j \in Inodes \ {i} : upper'[j] = upper[j]
  BY <1>1, <1>2
<1>6. DirsTyped'
  BY <1>1, <1>4, <1>5 DEF NamesHold, DirsTyped
<1>7. \A e \in Entries : Positive(e) => Known_(dcache[e].ino, dcache[e].bad)'
  <2>1. SUFFICES ASSUME NEW e \in Entries, Positive(e)
                 PROVE  Known_(dcache[e].ino, dcache[e].bad)'
    BY DEF Known_
  <2>2. dcache[e].ino \in Inodes /\ Known_(dcache[e].ino, dcache[e].bad) /\ (dcache[e].ino = i => dcache[e].bad)
    BY <1>1, <2>1, PositiveInode DEF On
  <2>. QED  BY <1>1, <1>5, <2>2 DEF Known_
<1>8. \A c \in copies : Known_(c.ino, c.bad)'
  BY <1>1, <1>5 DEF NamesHold, DirsTyped, Kept, Known_
<1>9. Kept'
  BY <1>1, <1>7, <1>8 DEF Kept, Known_, Positive, Cached
<1>10. \A j \in Inodes : Counted(j)'
  <2>1. Counted(i)'
    BY <1>1, <1>2, <1>4, <1>5 DEF Counted
  <2>2. ASSUME NEW j \in Inodes \ {i}
        PROVE  Counted(j)'
    <3>1. Counted(j)
      BY DEF NamesHold, NamesAgree, Counted
    <3>. QED  BY <1>1, <1>4, <1>5, <3>1 DEF Counted
  <2>. QED  BY <2>1, <2>2
<1>11. \A e \in Entries : Cached(e)' /\ e \notin unclean' => dcache'[e].live /\ dcache'[e].ino = entry'[e]
  BY <1>1 DEF NamesHold, NamesAgree, Cached, At
<1>12. NamesAgree'
  BY <1>6, <1>9, <1>10, <1>11, NamesFollow DEF Entries
<1>. QED  BY <1>6, <1>9, <1>12 DEF NamesHold

LEMMA RemovedBelowKeeps ==
    ASSUME NamesHold, NEW e \in Entries, removed_below(e)
    PROVE  NamesHold'
<1>1. PICK i : i = entry[e]
  OBVIOUS
<1>2. /\ UNCHANGED <<upper, bad, copies>> /\ i \in Inodes
      /\ entry' = [entry EXCEPT ![e] = Absent]
      /\ lower_inode' = Unlinked(i)
      /\ dcache' = IF Cached(e) THEN [dcache EXCEPT ![e].live = FALSE] ELSE dcache
      /\ unclean' = unclean \cup {e} /\ overtaken' = overtaken \cup {i}
  BY <1>1 DEF removed_below, At, NamesHold, DirsTyped
<1>3. PICK n \in Int : lower_inode' = [lower_inode EXCEPT ![i].links = n]
  BY <1>2, UnlinkedLinks
<1>4. /\ lower_inode' \in [Inodes -> LowerInode] /\ lower_inode'[i].held = lower_inode[i].held
      /\ \A j \in Inodes \ {i} : lower_inode'[j] = lower_inode[j]
  <2>1. lower_inode \in [Inodes -> LowerInode]
    BY DEF NamesHold, DirsTyped
  <2>. QED  BY <1>2, <1>3, <2>1 DEF LowerInode
<1>5. \A j \in Inodes : InodeStays(j) \/ Counted(j)'
  BY <1>2, <1>4 DEF InodeStays, Counted, NamesHold, NamesAgree
<1>6. /\ dcache' \in [Entries -> CachedEntry \cup {Absent}]
      /\ Doubted(e) /\ \A f \in Entries \ {e} : dcache'[f] = dcache[f]
  <2>1. CASE ~Cached(e)
    BY <1>2, <2>1 DEF Doubted, NamesHold, DirsTyped
  <2>2. CASE Cached(e)
    <3>1. dcache[e] \in CachedEntry
      BY <2>2, CachedFields DEF NamesHold
    <3>2. PICK x : x = [dcache[e] EXCEPT !.live = FALSE]
      OBVIOUS
    <3>3. x \in CachedEntry /\ x.ino = dcache[e].ino /\ x.bad = dcache[e].bad
      BY <3>1, <3>2 DEF CachedEntry
    <3>4. dcache' = [dcache EXCEPT ![e] = x]
      BY <1>2, <2>2, <3>2
    <3>5. /\ dcache' \in [Entries -> CachedEntry \cup {Absent}] /\ \A f \in Entries \ {e} : dcache'[f] = dcache[f]
          /\ dcache'[e] = x
      BY <3>3, <3>4 DEF NamesHold, DirsTyped
    <3>. QED  BY <1>2, <2>2, <3>3, <3>5, Absences DEF Doubted
  <2>. QED  BY <2>1, <2>2
<1>7. entry' \in [Entries -> Inodes \cup {Absent}] /\ \A f \in Entries \ {e} : entry'[f] = entry[f]
  BY <1>2 DEF NamesHold, DirsTyped
<1>8. DirsTyped'
  BY <1>2, <1>4, <1>6, <1>7 DEF NamesHold, DirsTyped
<1>9. \A f \in Entries : EntryStays(f) \/ Doubted(f)
  BY <1>2, <1>6, <1>7 DEF EntryStays
<1>. QED  BY <1>2, <1>5, <1>8, <1>9, NamesChange DEF NamesHold

LEMMA CreatedBelowKeeps ==
    ASSUME NamesHold, NEW e \in Entries, created_below(e)
    PROVE  NamesHold'
<1>1. PICK i \in Free : entry' = [entry EXCEPT ![e] = i] /\ lower_inode' = Made(i, "file")
  BY DEF created_below
<1>2. UNCHANGED <<dcache, upper, bad, copies, overtaken>> /\ unclean' = unclean \cup {e}
  BY DEF created_below
<1>3. /\ i \in Inodes
      /\ lower_inode' \in [Inodes -> LowerInode]
      /\ \A j \in Inodes \ {i} : upper'[j] = upper[j] /\ lower_inode'[j] = lower_inode[j]
      /\ Counted(i)'
  BY <1>1, <1>2, MadeInode
<1>4. DirsTyped'
  BY <1>1, <1>2, <1>3 DEF NamesHold, DirsTyped
<1>5. \A f \in Entries : EntryStays(f) \/ Doubted(f)
  BY <1>1, <1>2 DEF NamesHold, DirsTyped, EntryStays, Doubted
<1>6. \A j \in Inodes : InodeStays(j) \/ Counted(j)'
  BY <1>2, <1>3 DEF InodeStays
<1>. QED  BY <1>2, <1>4, <1>5, <1>6, NamesChange DEF NamesHold

LEMMA NamesStep ==
    ASSUME NamesHold, [DirsNext]_dirVars
    PROVE  NamesHold'
<1>1. ASSUME UNCHANGED <<entry, lower_inode, dcache, upper, bad, copies, unclean, overtaken>>
      PROVE  NamesHold'
  <2>1. DirsTyped'
    BY <1>1 DEF NamesHold, DirsTyped
  <2>2. Kept'
    BY <1>1 DEF NamesHold, Kept, Known_, Positive, Cached
  <2>3. NamesAgree'
    BY <1>1 DEF NamesHold, NamesAgree, Positive, Cached, At, Free
  <2>. QED  BY <2>1, <2>2, <2>3 DEF NamesHold
<1>2. CASE UNCHANGED dirVars
  BY <1>1, <1>2 DEF dirVars
<1>3. ASSUME NEW e \in Entries
      PROVE  /\ lookup(e) \/ create(e) \/ symlink(e) \/ mkdir(e) \/ mknod(e) \/ unlink(e) \/ rmdir(e) => NamesHold'
             /\ copy_attr(e) \/ setxattr(e) \/ d_release(e) \/ removed_below(e) \/ created_below(e) => NamesHold'
  BY LookupKeeps, CreateKeeps, MakeKeeps, RemoveKeeps, CopyKeeps, ReleaseKeeps, RemovedBelowKeeps, CreatedBelowKeeps
     DEF symlink, mkdir, mknod, unlink, rmdir, setxattr
<1>4. ASSUME NEW d \in Dirs, opendir(d)
      PROVE  NamesHold'
  BY <1>1, <1>4 DEF opendir
<1>5. CASE readdir \/ closedir
  BY <1>1, <1>5 DEF readdir, closedir
<1>. QED  BY <1>2, <1>3, <1>4, <1>5, LinkKeeps, RenameKeeps, RevalidateKeeps, EvictKeeps DEF DirsNext

-----------------------------------------------------------------------------
(* Reading a directory.                                                    *)
LEMMA LeastNumber ==
    ASSUME NEW S \in SUBSET Nat, S # {}
    PROVE  \E m \in S : \A k \in S : m <= k
<1>1. IsWellFoundedOn(OpToRel(<,Nat), Nat)
  BY NatLessThanWellFounded
<1>2. \E m \in S : \A k \in S : ~ (<<k, m>> \in OpToRel(<,Nat))
  BY <1>1, WFMin, Zenon
<1>3. \A m, k \in S : <<k, m>> \in OpToRel(<,Nat) <=> k < m
  BY DEF OpToRel
<1>4. \E m \in S : \A k \in S : ~ (k < m)
  BY <1>2, <1>3, Zenon
<1>. QED  BY <1>4

(* The least bound of a set of numbers that has one is its maximum.        *)
LEMMA Maximum ==
    ASSUME NEW S \in SUBSET Nat, S # {}, NEW b \in Nat, \A x \in S : x <= b
    PROVE  Max(S) \in S /\ \A x \in S : x <= Max(S)
<1>. DEFINE Bounds == {m \in Nat : \A x \in S : x <= m}
<1>1. b \in Bounds /\ Bounds \in SUBSET Nat
  OBVIOUS
<1>2. PICK m \in Bounds : \A k \in Bounds : m <= k
  <2>. HIDE DEF Bounds
  <2>. QED  BY <1>1, LeastNumber
<1>3. m \in S
  <2>1. CASE m = 0
    <3>1. PICK x \in S : TRUE
      OBVIOUS
    <3>2. x \in Nat /\ x <= m
      BY <1>2
    <3>. QED  BY <2>1, <3>2
  <2>2. CASE m # 0 /\ m \notin S
    <3>1. m - 1 \in Nat /\ \A x \in S : x <= m - 1
      BY <1>2, <2>2
    <3>2. m <= m - 1
      BY <1>2, <3>1
    <3>. QED  BY <1>2, <3>2
  <2>. QED  BY <2>1, <2>2
<1>4. \E x \in S : \A y \in S : x >= y
  BY <1>2, <1>3
<1>5. Max(S) \in S /\ \A y \in S : Max(S) >= y
  BY <1>4 DEF Max
<1>. QED  BY <1>5

(* A directory is changed and the names in S are taken off what must be    *)
(* given; or it only gets new names.                                       *)
LEMMA ListedKeeps ==
    ASSUME ListingTyped, Listing, NEW S, Listed(S),
           \A e \in Entries : e \in S \/ entry'[e] = entry[e]
    PROVE  ListingTyped' /\ Listing'
<1>. DEFINE still == {n \in listing.must : <<listing.dir, n>> \notin S}
<1>1. listing' = [listing EXCEPT !.must = still]
  BY DEF Listed
<1>2. still \in SUBSET Slots /\ still \subseteq listing.must
  BY DEF ListingTyped
<1>3. /\ ListingTyped' /\ listing'.must = still /\ listing'.dir = listing.dir /\ listing'.pos = listing.pos
      /\ listing'.seen = listing.seen /\ listing'.twice = listing.twice /\ listing'.over = listing.over
      /\ listing'.failed = listing.failed
  <2>. HIDE DEF still
  <2>. QED  BY <1>1, <1>2 DEF ListingTyped
<1>4. \A n \in still : n \in listing.must /\ <<listing.dir, n>> \notin S
  OBVIOUS
<1>5. \A n \in still : entry'[<<listing.dir, n>>] = entry[<<listing.dir, n>>]
  BY <1>2, <1>4 DEF Listing, Entries
<1>. HIDE DEF still
<1>6. ListingComplete'
  BY <1>2, <1>3 DEF Listing, ListingComplete
<1>. QED  BY <1>2, <1>3, <1>5, <1>6 DEF Listing, At

LEMMA UnlistedKeeps ==
    ASSUME ListingTyped, Listing, listing' = listing,
           \A e \in Entries : entry[e] # Absent => entry'[e] # Absent
    PROVE  ListingTyped' /\ Listing'
<1>1. ListingTyped' /\ ListingComplete'
  BY DEF ListingTyped, Listing, ListingComplete
<1>2. \A n \in listing.must : listing.dir \in Dirs /\ entry'[<<listing.dir, n>>] # Absent
  BY DEF Listing, Entries, At, ListingTyped
<1>. QED  BY <1>1, <1>2 DEF Listing, At

LEMMA OpendirKeeps ==
    ASSUME NEW d \in Dirs, opendir(d), ListingTyped
    PROVE  ListingTyped' /\ Listing'
<1>. DEFINE there == {n \in Slots : At(<<d, n>>) # Absent}
<1>1. listing' = [dir |-> d, pos |-> 0, seen |-> {}, twice |-> FALSE, must |-> there, failed |-> FALSE, over |-> FALSE]
      /\ entry' = entry
  BY DEF opendir, NotListing
<1>2. there \in SUBSET Slots /\ \A n \in there : At(<<d, n>>) # Absent /\ ~(n <= 0)
  BY DEF Slots
<1>. HIDE DEF there
<1>3. ListingTyped'
  BY <1>1, <1>2 DEF ListingTyped
<1>. QED  BY <1>1, <1>2, <1>3 DEF Listing, ListingComplete, At

LEMMA ReaddirKeeps ==
    ASSUME ListingTyped, Listing, readdir
    PROVE  ListingTyped' /\ Listing'
<1>1. PICK taken \in SUBSET Ahead, failed \in BOOLEAN :
         /\ \A n \in taken, m \in Ahead \ taken : n < m
         /\ (taken = {} /\ Ahead # {}) => failed
         /\ listing' = [listing EXCEPT !.pos = Position(taken, Ahead), !.seen = @ \cup taken,
                          !.twice = @ \/ (taken \cap listing.seen # {}),
                          !.failed = @ \/ failed,
                          !.over = (taken = {})]
  BY DEF readdir
<1>2. listing.dir \in Dirs \cup {Absent} /\ listing.pos \in Nat /\ listing.seen \in SUBSET Slots
      /\ listing.must \in SUBSET Slots /\ listing.twice \in BOOLEAN /\ listing.failed \in BOOLEAN
  BY DEF ListingTyped
<1>3. \A n \in Ahead : n \in Nat /\ n <= NSlots /\ n > listing.pos
  BY DirsAssumption DEF Ahead, Slots
<1>4. NSlots \in Nat /\ \A n \in listing.seen \cup listing.must : n \in Nat /\ n \in Slots
  BY <1>2, DirsAssumption DEF Slots
<1>4a. \A n \in taken : n \in Ahead
  OBVIOUS
<1>. DEFINE pos == Position(taken, Ahead)
<1>5. pos \in taken \cup {listing.pos} /\ \A x \in taken \cup {listing.pos} : x <= pos
  <2>. DEFINE S == taken \cup {listing.pos}
              b == NSlots + listing.pos
  <2>1. S \in SUBSET Nat /\ S # {} /\ b \in Nat /\ \A x \in S : x <= b
    BY <1>2, <1>3, <1>4, <1>4a
  <2>2. Max(S) \in S /\ \A x \in S : x <= Max(S)
    <3>. HIDE DEF S, b
    <3>. QED  BY <2>1, Maximum
  <2>. QED  BY <2>2 DEF Position
<1>6. pos \in Nat /\ listing.pos <= pos /\ \A n \in taken : n <= pos
  BY <1>2, <1>3, <1>4, <1>4a, <1>5
<1>7. taken \cap listing.seen = {}
  BY <1>2, <1>3, <1>4, <1>4a DEF Listing
<1>8. entry' = entry
  BY DEF readdir
<1>. HIDE DEF pos
<1>9. /\ listing'.dir = listing.dir /\ listing'.pos = pos /\ listing'.seen = listing.seen \cup taken
      /\ listing'.must = listing.must
  BY <1>1 DEF ListingTyped, pos
<1>9a. listing'.twice = listing.twice
  <2>1. listing'.twice = (listing.twice \/ (taken \cap listing.seen # {}))
    BY <1>1 DEF ListingTyped
  <2>. QED  BY <1>2, <1>7, <2>1
<1>10. listing'.failed = (listing.failed \/ failed) /\ listing'.over = (taken = {})
  BY <1>1, Zenon DEF ListingTyped
<1>11. ListingTyped'
  <2>1. DOMAIN listing' = DOMAIN listing
    BY <1>1
  <2>2. taken \in SUBSET Slots
    BY <1>4a DEF Ahead
  <2>. QED  BY <1>1, <1>2, <1>3, <1>6, <2>1, <2>2 DEF ListingTyped, pos
<1>12. \A n \in listing.must : n <= pos => n \in listing.seen \cup taken
  <2>1. SUFFICES ASSUME NEW n \in listing.must, n <= pos, n \notin listing.seen, n \notin taken
                 PROVE  FALSE
    OBVIOUS
  <2>2. n \in Ahead
    BY <1>2, <1>4, <2>1 DEF Listing, Ahead
  <2>3. CASE pos = listing.pos
    BY <1>2, <1>3, <1>4, <2>1, <2>2, <2>3
  <2>4. CASE pos \in taken
    <3>1. pos < n
      BY <1>1, <2>1, <2>2, <2>4
    <3>. QED  BY <1>2, <1>4, <1>6, <2>1, <3>1
  <2>. QED  BY <1>5, <2>3, <2>4 DEF pos
<1>13. \A n \in listing.seen \cup taken : n <= pos
  BY <1>2, <1>4, <1>6 DEF Listing
<1>14. taken = {} /\ ~failed => listing.must \subseteq listing.seen
  <2>1. SUFFICES ASSUME taken = {}, ~failed, NEW n \in listing.must, n \notin listing.seen
                 PROVE  FALSE
    OBVIOUS
  <2>2. Ahead = {}
    BY <1>1, <2>1
  <2>3. n > listing.pos
    <3>1. ~(n <= listing.pos)
      BY <2>1 DEF Listing
    <3>2. n \in Nat /\ listing.pos \in Nat
      BY <1>2, <1>4
    <3>. QED  BY <3>1, <3>2
  <2>. QED  BY <1>2, <2>1, <2>2, <2>3 DEF Listing, Ahead
<1>15. ListingComplete'
  BY <1>9, <1>9a, <1>10, <1>14, Zenon DEF ListingComplete, Listing
<1>16. ~listing'.twice
  BY <1>9a DEF Listing
<1>17. \A n \in listing'.must : listing'.dir \in Dirs /\ entry'[<<listing'.dir, n>>] # Absent
  BY <1>8, <1>9 DEF Listing, At
<1>. QED  BY <1>9, <1>11, <1>12, <1>13, <1>15, <1>16, <1>17 DEF Listing, At

LEMMA ClosedirKeeps ==
    ASSUME closedir
    PROVE  ListingTyped' /\ Listing'
<1>1. listing' = [dir |-> Absent, pos |-> 0, seen |-> {}, twice |-> FALSE, must |-> {}, failed |-> FALSE, over |-> FALSE]
  BY DEF closedir, NotListing
<1>. QED  BY <1>1 DEF ListingTyped, Listing, ListingComplete

(* What an operation on names is to a reader of a directory.               *)
Unnoticed == entry' = entry /\ listing' = listing
Noticed == \E S \in SUBSET Entries : Listed(S) /\ \A f \in Entries : f \in S \/ entry'[f] = entry[f]

LEMMA NoticedKeeps ==
    ASSUME ListingTyped, Listing, Unnoticed \/ Noticed
    PROVE  ListingTyped' /\ Listing'
<1>1. CASE Unnoticed
  BY <1>1, UnlistedKeeps DEF Unnoticed
<1>2. CASE Noticed
  BY <1>2, ListedKeeps DEF Noticed
<1>. QED  BY <1>1, <1>2

LEMMA OneEntryNoticed ==
    ASSUME DirsTyped, NEW e \in Entries, NEW i, entry' = [entry EXCEPT ![e] = i], Listed({e})
    PROVE  Noticed
<1>1. \A f \in Entries : f \in {e} \/ entry'[f] = entry[f]
  BY DEF DirsTyped
<1>. QED  BY <1>1 DEF Noticed

LEMMA ListingStep ==
    ASSUME DirsTyped, ListingTyped, Listing, [DirsNext]_dirVars
    PROVE  ListingTyped' /\ Listing'
<1>1. CASE UNCHANGED dirVars
  BY <1>1, NoticedKeeps DEF dirVars, Unnoticed
<1>2. ASSUME NEW e \in Entries,
             lookup(e) \/ copy_attr(e) \/ setxattr(e) \/ d_release(e)
      PROVE  Unnoticed
  BY <1>2 DEF lookup, setxattr, copy_attr, d_release, Unnoticed
<1>3. ASSUME NEW e \in Entries, NEW kind, make(e, kind)
      PROVE  Unnoticed \/ Noticed
  BY <1>3, OneEntryNoticed DEF make, Unnoticed
<1>4. ASSUME NEW e \in Entries, create(e) \/ remove(e) \/ removed_below(e)
      PROVE  Unnoticed \/ Noticed
  <2>1. CASE create(e)
    BY <2>1, OneEntryNoticed DEF create, Unnoticed
  <2>2. CASE remove(e)
    BY <2>2, OneEntryNoticed DEF remove, Unnoticed
  <2>3. CASE removed_below(e)
    BY <2>3, OneEntryNoticed DEF removed_below
  <2>. QED  BY <1>4, <2>1, <2>2, <2>3
<1>5. ASSUME NEW e \in Entries, created_below(e)
      PROVE  ListingTyped' /\ Listing'
  <2>1. listing' = listing /\ At(e) = Absent /\ \E i \in Free : entry' = [entry EXCEPT ![e] = i]
    BY <1>5 DEF created_below
  <2>2. \A f \in Entries : entry[f] # Absent => entry'[f] # Absent
    BY <2>1 DEF At, DirsTyped
  <2>. QED  BY <2>1, <2>2, UnlistedKeeps
<1>6. ASSUME NEW old \in Entries, NEW e \in Entries, link(old, e)
      PROVE  Unnoticed \/ Noticed
  BY <1>6, OneEntryNoticed DEF link, Unnoticed
<1>7. ASSUME NEW e \in Entries, NEW new \in Entries, rename(e, new)
      PROVE  Unnoticed \/ Noticed
  <2>1. CASE Listed({e, new}) /\ entry' = [entry EXCEPT ![new] = dcache[e].ino, ![e] = Absent]
    <3>1. \A f \in Entries : f \in {e, new} \/ entry'[f] = entry[f]
      BY <2>1 DEF DirsTyped
    <3>. QED  BY <2>1, <3>1 DEF Noticed
  <2>. QED  BY <1>7, <2>1 DEF rename, Unnoticed
<1>8. ASSUME NEW c \in copies, d_revalidate(c)
      PROVE  Unnoticed
  BY <1>8 DEF d_revalidate, Unnoticed
<1>9. ASSUME NEW i \in Inodes, evict_inode(i)
      PROVE  Unnoticed
  BY <1>9 DEF evict_inode, Unnoticed
<1>10. ASSUME NEW e \in Entries
       PROVE  /\ symlink(e) \/ mkdir(e) \/ mknod(e) => Unnoticed \/ Noticed
              /\ unlink(e) \/ rmdir(e) => Unnoticed \/ Noticed
  BY <1>3, <1>4 DEF symlink, mkdir, mknod, unlink, rmdir
<1>. QED  BY <1>1, <1>2, <1>4, <1>5, <1>6, <1>7, <1>8, <1>9, <1>10,
             NoticedKeeps, OpendirKeeps, ReaddirKeeps, ClosedirKeeps DEF DirsNext

-----------------------------------------------------------------------------
LEMMA DirsInitHolds == DirsInit => DirsIInv
<1>. SUFFICES ASSUME DirsInit PROVE DirsIInv
  OBVIOUS
<1>1. DirsTyped /\ Kept /\ NamesAgree
  BY DirsAssumption DEF DirsInit, DirsTyped, Kept, NamesAgree, Nothing, LowerInode, Positive, Cached
<1>2. ListingTyped /\ Listing
  BY DEF DirsInit, NotListing, ListingTyped, Listing, ListingComplete
<1>. QED  BY <1>1, <1>2 DEF DirsIInv

LEMMA DirsStepKeeps == DirsIInv /\ [DirsNext]_dirVars => DirsIInv'
BY NamesStep, ListingStep DEF DirsIInv, NamesHold

(* The invariant the two properties follow from: the types, what is        *)
(* cached or being copied is an inode that eCryptfs keeps, in use or bad   *)
(* (Kept), and where a reader of a directory stands (Listing).  For every number of    *)
(* directories, names, inodes, operations, copies and changes below.       *)
THEOREM DirsIInvAlways == DirsSpec => []DirsIInv
<1>. QED  BY DirsInitHolds, DirsStepKeeps, PTL DEF DirsSpec

(* However operations on names succeed, fail and follow each other         *)
(* (inode.c, dentry.c), what eCryptfs has cached of a name is what the     *)
(* lower directory has; a lower inode is held once by each inode that      *)
(* stands on it, the bad ones that lookups never put included, and the one *)
(* in use shows its number of links, with the exceptions NamesAgree names. *)
THEOREM NamesAlwaysAgree == DirsSpec => []NamesAgree
<1>1. DirsIInv => NamesAgree
  BY DEF DirsIInv
<1>. QED  BY <1>1, DirsIInvAlways, PTL

(* Reading a directory to its end (ecryptfs_readdir) gives every name that *)
(* was there all the time, and none twice, unless one could not be decoded,*)
(* whatever happens in the directory between two calls.                    *)
THEOREM ListingsAlwaysComplete == DirsSpec => []ListingComplete
<1>1. DirsIInv => ListingComplete
  BY DEF DirsIInv, Listing
<1>. QED  BY <1>1, DirsIInvAlways, PTL

-----------------------------------------------------------------------------
(* The ciphers.                                                            *)
CiphersSpec == CiphersInit /\ [][CiphersNext]_cipherVars

(* Where a task is: on the list, at a shared transform, at the inode's.    *)
OnList == {"exists", "add", "unlock"}
AtTransform == {"setkey", "crypt"}
Shares == {"list", "lock"} \cup OnList \cup AtTransform
AtInode == {"set", "unset"}
InPage == {"mutex", "extent"} \cup AtInode
DoesIo == {"page"} \cup InPage

Roots == {None, "hash of the key", "zeros"}
FileKeys == {None, "file key"}
Encryptions == [key : FileKeys, iv : Roots \X Nat, data : Pages \X Extents]
Octets == Encryptions \cup (Pages \X Extents) \cup {None}
Transform == [name : Names, key : Tokens \cup {None}, holder : Users \cup {None}]
Op == [kind : {"none", "mount", "tag", "decrypt", "read", "write"},
       pc : {"idle", "sem"} \cup Shares \cup DoesIo,
       names : Seq(Names), token : Tokens \cup {None}, tfm : Nat, keys : SUBSET (Tokens \cup {None}),
       blocks : Nat, page : Nat, temp : Seq(Octets)]

CiphersTyped ==
  /\ key_tfm_list \in Seq(Transform)
  /\ key_tfm_list_mutex \in Users \cup {None}
  /\ sem \in [Tokens -> Users \cup {None}]
  /\ op \in [Users -> Op]
  /\ crypt_stat \in [tfm : {None, "gaes_ecb"}, valid : BOOLEAN, root : Roots, key_set : BOOLEAN,
                     holder : Users \cup {None}, under : FileKeys]
  /\ lower_file \in [header : BOOLEAN, page : [Pages -> Seq(Octets)]]
  /\ init_failed \in BOOLEAN /\ warned \in BOOLEAN /\ bug \in BOOLEAN

(* What a task that is at a shared transform, or on its way there, relies  *)
(* on; the last two say who holds the list and the transforms.             *)
SharedBy(t) ==
  /\ op[t].pc = "sem" => op[t].token \in Tokens
  /\ op[t].pc \in {"sem"} \cup Shares => op[t].names # << >>
  /\ op[t].pc = "add" => Found(Head(op[t].names)) = {}
  /\ op[t].pc \in {"unlock", "lock"} \cup AtTransform => op[t].tfm \in DOMAIN key_tfm_list
  /\ op[t].pc = "crypt" => key_tfm_list[op[t].tfm].key = op[t].token
  /\ op[t].keys \subseteq {op[t].token}
  /\ \A k \in Tokens : sem[k] = t => op[t].pc \in Shares
  /\ op[t].pc \in OnList <=> key_tfm_list_mutex = t
  /\ \A i \in DOMAIN key_tfm_list :
       key_tfm_list[i].holder = t <=> op[t].pc \in AtTransform /\ op[t].tfm = i

OneEach == \A i, j \in DOMAIN key_tfm_list : key_tfm_list[i].name = key_tfm_list[j].name => i = j

(* Extent e of page p as it is to be on the lower file.                    *)
Sealed(x, p, e) ==
  \E r \in Roots : /\ x = [key |-> "file key", iv |-> <<r, p * PerPage + e>>, data |-> <<p, e>>]
                   /\ ~warned => r = "hash of the key"

(* What a task that reads or writes a page relies on.                      *)
IoBy(t) ==
  /\ op[t].kind \in {"read", "write"} <=> op[t].pc \in DoesIo
  /\ op[t].pc \in AtInode <=> crypt_stat.holder = t
  /\ op[t].pc \in {"set", "extent"} => crypt_stat.key_set
  /\ op[t].pc \in DoesIo => crypt_stat.valid /\ crypt_stat.tfm # None /\ op[t].page \in Pages
  /\ op[t].pc \in InPage => Len(op[t].temp) < PerPage
  /\ op[t].pc = "page" => Len(op[t].temp) = PerPage
  /\ op[t].kind = "write" => \A e \in 0..Len(op[t].temp)-1 : Sealed(op[t].temp[e + 1], op[t].page, e)
  /\ op[t].kind = "read" => /\ lower_file.page[op[t].page] # << >>
                            /\ \A e \in 0..Len(op[t].temp)-1 : warned \/ op[t].temp[e + 1] = <<op[t].page, e>>

KeyOfInode ==
  /\ crypt_stat.valid /\ ~init_failed => crypt_stat.tfm # None
  /\ crypt_stat.valid /\ crypt_stat.tfm # None /\ ~warned => crypt_stat.root = "hash of the key"
  /\ crypt_stat.key_set => crypt_stat.under = "file key"
  /\ bug => init_failed

LowerSealed ==
  \A p \in Pages : lower_file.page[p] # << >> =>
    /\ Len(lower_file.page[p]) = PerPage
    /\ \A e \in Extents : Sealed(lower_file.page[p][e + 1], p, e)

Inode == KeyOfInode /\ LowerSealed /\ \A t \in Users : IoBy(t)
CiphersIInv == CiphersTyped /\ OneEach /\ (\A t \in Users : SharedBy(t)) /\ Inode

-----------------------------------------------------------------------------
LEMMA Distinct ==
    /\ PerPage \in Nat \ {0} /\ None \notin Users
    /\ \A p \in Pages : p \in Nat
    /\ \A e \in Extents : e \in Nat /\ e < PerPage
    /\ \A e \in Nat : e < PerPage => e \in Extents
<1>. QED  BY CiphersAssumption DEF Extents

LEMMA IdleTyped == Idle \in Op
BY DEF Idle, Op

(* A task has changed what it does.                                        *)
Only(t) == /\ op' \in [Users -> Op]
           /\ \A u \in Users \ {t} : op'[u] = op[u]

LEMMA GoesOn ==
    ASSUME CiphersTyped, NEW t \in Users, NEW o \in Op, op' = [op EXCEPT ![t] = o]
    PROVE  Only(t) /\ op'[t] = o
<1>. QED  BY DEF CiphersTyped, Only

LEMMA WentTo ==
    ASSUME CiphersTyped, NEW t \in Users, NEW pc \in {"idle", "sem"} \cup Shares \cup DoesIo, Goto(t, pc)
    PROVE  Only(t) /\ op'[t] = [op[t] EXCEPT !.pc = pc]
<1>1. op[t] \in Op
  BY DEF CiphersTyped
<1>2. [op[t] EXCEPT !.pc = pc] \in Op
  BY <1>1 DEF Op
<1>. QED  BY <1>2, GoesOn DEF Goto

LEMMA Ended ==
    ASSUME CiphersTyped, NEW t \in Users, Ends(t)
    PROVE  /\ Only(t) /\ op'[t] = Idle
           /\ sem' \in [Tokens -> Users \cup {None}]
           /\ \A k \in Tokens : sem'[k] # t /\ (sem'[k] = sem[k] \/ sem'[k] = None)
<1>1. op' = [op EXCEPT ![t] = Idle] /\ sem' = [k \in Tokens |-> IF sem[k] = t THEN None ELSE sem[k]]
  BY DEF Ends
<1>2. Only(t) /\ op'[t] = Idle
  BY <1>1, GoesOn, IdleTyped
<1>. QED  BY <1>1, <1>2, Distinct DEF CiphersTyped

(* Another task relies on nothing that a step of t changes.                *)
LEMMA OthersShare ==
    ASSUME NEW t \in Users, NEW u \in Users \ {t}, CiphersTyped, SharedBy(u), SharedBy(t), op'[u] = op[u],
           \A k \in Tokens : sem'[k] = u => sem[k] = u,
           key_tfm_list_mutex' = u <=> key_tfm_list_mutex = u,
           \A i \in DOMAIN key_tfm_list :
             /\ i \in DOMAIN key_tfm_list'
             /\ key_tfm_list'[i].name = key_tfm_list[i].name
             /\ key_tfm_list'[i].holder = u <=> key_tfm_list[i].holder = u
             /\ key_tfm_list'[i].key = key_tfm_list[i].key \/ key_tfm_list[i].holder = t,
           \A i \in DOMAIN key_tfm_list' \ DOMAIN key_tfm_list :
             key_tfm_list_mutex = t /\ key_tfm_list'[i].holder = None
    PROVE  SharedBy(u)'
<1>1. op[u].pc = "sem" => op[u].token \in Tokens
  BY DEF SharedBy
<1>2. op[u].pc = "add" => Found(Head(op[u].names))' = {}
  <2>1. SUFFICES ASSUME op[u].pc = "add" PROVE Found(Head(op[u].names))' = {}
    OBVIOUS
  <2>2. key_tfm_list_mutex = u /\ Found(Head(op[u].names)) = {}
    BY <2>1 DEF SharedBy, OnList
  <2>3. \A i \in DOMAIN key_tfm_list' : i \in DOMAIN key_tfm_list /\ key_tfm_list'[i].name = key_tfm_list[i].name
    BY <2>2
  <2>. QED  BY <2>2, <2>3 DEF Found
<1>3. op[u].pc \in {"unlock", "lock"} \cup AtTransform => op[u].tfm \in DOMAIN key_tfm_list'
  BY DEF SharedBy
<1>4. op[u].pc = "crypt" => key_tfm_list'[op[u].tfm].key = op[u].token
  BY DEF SharedBy, AtTransform
<1>5. \A k \in Tokens : sem'[k] = u => op[u].pc \in Shares
  BY DEF SharedBy
<1>6. op[u].pc \in OnList <=> key_tfm_list_mutex' = u
  BY DEF SharedBy
<1>7. \A i \in DOMAIN key_tfm_list' :
        key_tfm_list'[i].holder = u <=> op[u].pc \in AtTransform /\ op[u].tfm = i
  BY Distinct DEF SharedBy
<1>8. op[u].keys \subseteq {op[u].token} /\ (op[u].pc \in Shares => op[u].names # << >>)
  BY DEF SharedBy
<1>. QED  BY <1>1, <1>2, <1>3, <1>4, <1>5, <1>6, <1>7, <1>8 DEF SharedBy

LEMMA OthersShareStill ==
    ASSUME NEW t \in Users, CiphersTyped, \A u \in Users : SharedBy(u), Only(t),
           \A u \in Users \ {t} :
             /\ \A k \in Tokens : sem'[k] = u => sem[k] = u
             /\ key_tfm_list_mutex' = u <=> key_tfm_list_mutex = u,
           key_tfm_list' = key_tfm_list
    PROVE  (\A u \in Users \ {t} : SharedBy(u)') /\ (OneEach => OneEach')
<1>1. \A u \in Users \ {t} : op'[u] = op[u]
  BY DEF Only
<1>2. \A u \in Users \ {t} : SharedBy(u)'
  BY <1>1, OthersShare
<1>. QED  BY <1>2 DEF OneEach

(* A task that is at no page, before and after, changes nothing of the     *)
(* inode's.                                                                *)
LEMMA NoIo ==
    ASSUME NEW t \in Users, Inode, Only(t), UNCHANGED inodeVars,
           op[t].pc \notin DoesIo, op'[t].pc \notin DoesIo, op'[t].kind \notin {"read", "write"}
    PROVE  Inode'
<1>1. \A p, x, e : Sealed(x, p, e) => Sealed(x, p, e)'
  BY DEF inodeVars, Sealed
<1>2. KeyOfInode' /\ LowerSealed'
  BY <1>1 DEF Inode, KeyOfInode, LowerSealed, inodeVars
<1>3. ASSUME NEW u \in Users \ {t} PROVE IoBy(u)'
  <2>1. op'[u] = op[u] /\ IoBy(u)
    BY DEF Only, Inode
  <2>. QED  BY <1>1, <2>1 DEF IoBy, inodeVars
<1>4. IoBy(t)'
  <2>1. IoBy(t)
    BY DEF Inode
  <2>. QED  BY <2>1 DEF IoBy, inodeVars, DoesIo, InPage, AtInode
<1>. QED  BY <1>2, <1>3, <1>4 DEF Inode

-----------------------------------------------------------------------------
(* The list.                                                               *)
LEMMA BeginsKeeps ==
    ASSUME CiphersIInv, NEW t \in Users, NEW o \in Op, op' = [op EXCEPT ![t] = o], op[t] = Idle,
           o.pc \in {"sem", "list"}, o.pc = "sem" => o.token \in Tokens, o.names # << >>, o.keys = {},
           o.kind \notin {"read", "write"}, UNCHANGED <<listVars, sem, inodeVars>>
    PROVE  CiphersIInv'
<1>1. Only(t) /\ op'[t] = o
  BY GoesOn DEF CiphersIInv
<1>2. op[t].pc = "idle"
  BY DEF Idle
<1>3. CiphersTyped'
  BY <1>1 DEF CiphersIInv, CiphersTyped, Only, listVars, inodeVars
<1>4. (\A u \in Users \ {t} : SharedBy(u)') /\ OneEach'
  BY <1>1, OthersShareStill DEF CiphersIInv, listVars
<1>5. SharedBy(t)'
  <2>1. SharedBy(t)
    BY DEF CiphersIInv
  <2>. QED  BY <1>1, <1>2, <2>1 DEF SharedBy, listVars, Shares, OnList, AtTransform
<1>6. Inode'
  BY <1>1, <1>2, NoIo DEF CiphersIInv, DoesIo, InPage, AtInode
<1>. QED  BY <1>3, <1>4, <1>5, <1>6 DEF CiphersIInv

LEMMA MountKeeps ==
    ASSUME CiphersIInv, NEW t \in Users, NEW names \in Seq(Names), names # << >>, mount(t, names)
    PROVE  CiphersIInv'
<1>. DEFINE o == [Idle EXCEPT !.kind = "mount", !.pc = "list", !.names = names]
<1>1. o.kind = "mount" /\ o.pc = "list" /\ o.names = names /\ o.keys = {}
  BY DEF Idle
<1>2. o \in Op
  BY IdleTyped DEF Op, Shares
<1>3. op' = [op EXCEPT ![t] = o] /\ op[t] = Idle /\ UNCHANGED <<listVars, sem, inodeVars>>
  BY DEF mount, Begins
<1>. HIDE DEF o
<1>. QED  BY <1>1, <1>2, <1>3, BeginsKeeps

LEMMA UseKeeps ==
    ASSUME CiphersIInv, NEW t \in Users, NEW kind \in {"tag", "decrypt"}, NEW n \in Names, NEW k \in Tokens,
           use_cipher(t, kind, n, k)
    PROVE  CiphersIInv'
<1>1. PICK pc \in {"sem", "list"} :
        op' = [op EXCEPT ![t] = [Idle EXCEPT !.kind = kind, !.names = <<n>>, !.token = k, !.pc = pc]]
  BY DEF use_cipher
<1>. DEFINE o == [Idle EXCEPT !.kind = kind, !.names = <<n>>, !.token = k, !.pc = pc]
<1>2. o.kind = kind /\ o.pc = pc /\ o.names = <<n>> /\ o.token = k /\ o.keys = {}
  BY DEF Idle
<1>3. <<n>> \in Seq(Names) /\ <<n>> # << >>
  OBVIOUS
<1>4. o \in Op
  <2>1. pc \in {"idle", "sem"} \cup Shares \cup DoesIo
    BY DEF Shares
  <2>. QED  BY <1>3, <2>1, IdleTyped DEF Op
<1>5. op[t] = Idle /\ UNCHANGED <<listVars, sem, inodeVars>>
  BY DEF use_cipher, Begins
<1>. HIDE DEF o
<1>. QED  BY <1>1, <1>2, <1>3, <1>4, <1>5, BeginsKeeps DEF o

(* A step of t on the list that leaves the inode and the others alone.     *)
LEMMA OnListKeeps ==
    ASSUME CiphersIInv, NEW t \in Users, Only(t), UNCHANGED inodeVars,
           op[t].pc \notin DoesIo, op'[t].pc \notin DoesIo, op'[t].kind \notin {"read", "write"},
           key_tfm_list' = key_tfm_list, key_tfm_list_mutex' \in Users \cup {None},
           sem' \in [Tokens -> Users \cup {None}],
           \A u \in Users \ {t} :
             /\ \A k \in Tokens : sem'[k] = u => sem[k] = u
             /\ key_tfm_list_mutex' = u <=> key_tfm_list_mutex = u,
           SharedBy(t)'
    PROVE  CiphersIInv'
<1>1. CiphersTyped'
  BY DEF CiphersIInv, CiphersTyped, Only, inodeVars
<1>2. (\A u \in Users \ {t} : SharedBy(u)') /\ OneEach'
  BY OthersShareStill DEF CiphersIInv
<1>3. Inode'
  BY NoIo DEF CiphersIInv
<1>. QED  BY <1>1, <1>2, <1>3 DEF CiphersIInv

LEMMA AtList ==
    ASSUME CiphersIInv, NEW t \in Users, op[t].pc \in {"sem"} \cup Shares
    PROVE  /\ CiphersTyped /\ SharedBy(t) /\ op[t] \in Op
           /\ op[t].pc \notin DoesIo /\ op[t].kind \notin {"read", "write"}
           /\ op[t].kind \in {"none", "mount", "tag", "decrypt"}
<1>1. IoBy(t) /\ op[t] \in Op
  BY DEF CiphersIInv, Inode, CiphersTyped
<1>2. op[t].pc \notin DoesIo
  BY DEF DoesIo, InPage, AtInode, Shares, OnList, AtTransform
<1>. QED  BY <1>1, <1>2 DEF CiphersIInv, IoBy, Op

LEMMA FindKeeps ==
    ASSUME CiphersIInv, NEW t \in Users, find_auth_tok(t)
    PROVE  CiphersIInv'
<1>1. op[t].pc = "sem" /\ sem[op[t].token] = None /\ sem' = [sem EXCEPT ![op[t].token] = t] /\ Goto(t, "list")
      /\ UNCHANGED <<listVars, inodeVars>>
  BY DEF find_auth_tok
<1>2. CiphersTyped /\ SharedBy(t) /\ op[t] \in Op /\ op[t].pc \notin DoesIo /\ op[t].kind \notin {"read", "write"}
  BY <1>1, AtList
<1>3. Only(t) /\ op'[t] = [op[t] EXCEPT !.pc = "list"]
  BY <1>1, <1>2, WentTo DEF Shares
<1>3a. op[t].token \in Tokens
  BY <1>1, <1>2 DEF SharedBy
<1>3b. sem' \in [Tokens -> Users \cup {None}] /\ \A u \in Users \ {t}, k \in Tokens : sem'[k] = u => sem[k] = u
  BY <1>1, <1>2, <1>3a DEF CiphersTyped
<1>4. op'[t].pc = "list" /\ op'[t].names = op[t].names /\ op'[t].keys = op[t].keys /\ op'[t].token = op[t].token
      /\ op'[t].kind = op[t].kind
  BY <1>2, <1>3 DEF Op
<1>5. op[t].names # << >> => SharedBy(t)'
  BY <1>1, <1>2, <1>4 DEF SharedBy, listVars, Shares, OnList, AtTransform
<1>6. SharedBy(t)'
  BY <1>1, <1>2, <1>5 DEF SharedBy
<1>7. key_tfm_list' = key_tfm_list /\ key_tfm_list_mutex' = key_tfm_list_mutex /\ key_tfm_list_mutex \in Users \cup {None}
  BY <1>1, <1>2 DEF listVars, CiphersTyped
<1>8. op'[t].pc \notin DoesIo
  BY <1>4 DEF DoesIo, InPage, AtInode
<1>. QED  BY <1>1, <1>2, <1>3, <1>3b, <1>4, <1>6, <1>7, <1>8, OnListKeeps

LEMMA LockListKeeps ==
    ASSUME CiphersIInv, NEW t \in Users, lock_list(t)
    PROVE  CiphersIInv'
<1>1. op[t].pc = "list" /\ key_tfm_list_mutex = None /\ key_tfm_list_mutex' = t /\ Goto(t, "exists")
      /\ UNCHANGED <<key_tfm_list, sem, inodeVars>>
  BY DEF lock_list
<1>2. CiphersTyped /\ SharedBy(t) /\ op[t] \in Op /\ op[t].pc \notin DoesIo /\ op[t].kind \notin {"read", "write"}
  BY <1>1, AtList DEF Shares
<1>3. Only(t) /\ op'[t] = [op[t] EXCEPT !.pc = "exists"]
  BY <1>1, <1>2, WentTo DEF Shares, OnList
<1>4. op'[t].pc = "exists" /\ op'[t].names = op[t].names /\ op'[t].keys = op[t].keys /\ op'[t].token = op[t].token
      /\ op'[t].kind = op[t].kind /\ op'[t].tfm = op[t].tfm
  BY <1>2, <1>3 DEF Op
<1>5. SharedBy(t)'
  BY <1>1, <1>2, <1>4 DEF SharedBy, Shares, OnList, AtTransform
<1>6. op'[t].pc \notin DoesIo /\ sem' \in [Tokens -> Users \cup {None}]
  BY <1>1, <1>2, <1>4 DEF DoesIo, InPage, AtInode, CiphersTyped
<1>7. \A u \in Users \ {t} : key_tfm_list_mutex' = u <=> key_tfm_list_mutex = u
  BY <1>1, Distinct
<1>. QED  BY <1>1, <1>2, <1>3, <1>4, <1>5, <1>6, <1>7, OnListKeeps

(* The list has each name once: what is found is the newest.               *)
LEMMA LatestFound ==
    ASSUME CiphersTyped, OneEach, NEW n, Found(n) # {}
    PROVE  Latest(Found(n)) \in Found(n) /\ Latest(Found(n)) \in Nat
<1>1. PICK i \in Found(n) : TRUE
  OBVIOUS
<1>2. \A j \in Found(n) : j = i
  BY DEF Found, OneEach
<1>3. i \in Nat
  BY DEF Found, CiphersTyped
<1>4. \A j \in Found(n) : j <= i
  BY <1>2, <1>3
<1>5. Latest(Found(n)) \in Found(n)
  BY <1>1, <1>4 DEF Latest
<1>. QED  BY <1>2, <1>3, <1>5

LEMMA ExistsKeeps ==
    ASSUME CiphersIInv, NEW t \in Users, tfm_exists(t)
    PROVE  CiphersIInv'
<1>. DEFINE found == Found(Head(op[t].names))
            pc == IF found = {} THEN "add" ELSE "unlock"
            i == IF found = {} THEN 0 ELSE Latest(found)
<1>1. op[t].pc = "exists" /\ op' = [op EXCEPT ![t].pc = pc, ![t].tfm = i]
      /\ UNCHANGED <<listVars, sem, inodeVars>>
  BY DEF tfm_exists
<1>2. CiphersTyped /\ SharedBy(t) /\ op[t] \in Op /\ op[t].pc \notin DoesIo /\ op[t].kind \notin {"read", "write"}
  BY <1>1, AtList DEF Shares, OnList
<1>3. i \in Nat /\ (found # {} => i \in DOMAIN key_tfm_list)
  BY LatestFound DEF CiphersIInv, Found
<1>4. pc \in OnList /\ (pc = "add" => found = {}) /\ pc \in {"add", "unlock"} /\ (pc = "unlock" => found # {})
  BY DEF OnList
<1>. HIDE DEF pc, i
<1>5. op' = [op EXCEPT ![t] = [op[t] EXCEPT !.pc = pc, !.tfm = i]]
  BY <1>1, <1>2 DEF CiphersTyped
<1>6. [op[t] EXCEPT !.pc = pc, !.tfm = i] \in Op
  BY <1>2, <1>3, <1>4 DEF Op, Shares
<1>7. Only(t) /\ op'[t] = [op[t] EXCEPT !.pc = pc, !.tfm = i]
  BY <1>2, <1>5, <1>6, GoesOn
<1>8. op'[t].pc = pc /\ op'[t].names = op[t].names /\ op'[t].keys = op[t].keys /\ op'[t].token = op[t].token
      /\ op'[t].kind = op[t].kind /\ op'[t].tfm = i
  BY <1>2, <1>7 DEF Op
<1>9. Found(Head(op[t].names))' = found
  BY <1>1, <1>8 DEF Found, listVars
<1>. HIDE DEF found
<1>10. SharedBy(t)'
  BY <1>1, <1>2, <1>3, <1>4, <1>8, <1>9 DEF SharedBy, Shares, OnList, AtTransform, listVars
<1>11. op'[t].pc \notin DoesIo /\ sem' \in [Tokens -> Users \cup {None}] /\ key_tfm_list_mutex \in Users \cup {None}
  BY <1>1, <1>2, <1>4, <1>8 DEF DoesIo, InPage, AtInode, CiphersTyped
<1>. QED  BY <1>1, <1>2, <1>7, <1>8, <1>10, <1>11, OnListKeeps DEF listVars

(* The new transform is the only one of its name.                          *)
LEMMA AddKeeps ==
    ASSUME CiphersIInv, NEW t \in Users, add_new_key_tfm(t)
    PROVE  CiphersIInv'
<1>. DEFINE n == Head(op[t].names)
            new == [name |-> n, key |-> None, holder |-> None]
<1>1. op[t].pc = "add" /\ n \in Known /\ key_tfm_list' = Append(key_tfm_list, new)
      /\ op' = [op EXCEPT ![t].pc = "unlock", ![t].tfm = Len(key_tfm_list')]
      /\ UNCHANGED <<key_tfm_list_mutex, sem, inodeVars>>
  BY DEF add_new_key_tfm
<1>2. CiphersTyped /\ SharedBy(t) /\ op[t] \in Op /\ op[t].pc \notin DoesIo /\ op[t].kind \notin {"read", "write"}
  BY <1>1, AtList DEF Shares, OnList
<1>3. new \in Transform /\ key_tfm_list \in Seq(Transform)
  BY <1>1, <1>2 DEF Transform, Names, CiphersTyped
<1>4. Found(n) = {} /\ key_tfm_list_mutex = t
  BY <1>1, <1>2 DEF SharedBy, OnList
<1>. DEFINE l == Len(key_tfm_list)
<1>5. new.name = n /\ new.holder = None
  OBVIOUS
<1>. HIDE DEF new
<1>6. /\ key_tfm_list' \in Seq(Transform) /\ l \in Nat /\ Len(key_tfm_list') = l + 1
      /\ DOMAIN key_tfm_list = 1..l /\ DOMAIN key_tfm_list' = 1..l+1
      /\ \A i \in 1..l : key_tfm_list'[i] = key_tfm_list[i]
      /\ key_tfm_list'[l + 1] = new
  BY <1>1, <1>3
<1>7. \A i \in DOMAIN key_tfm_list : key_tfm_list[i].name # n
  BY <1>4 DEF Found
<1>. HIDE DEF l, n
<1>8. op' = [op EXCEPT ![t] = [op[t] EXCEPT !.pc = "unlock", !.tfm = l + 1]]
  BY <1>1, <1>2, <1>6 DEF CiphersTyped
<1>9. [op[t] EXCEPT !.pc = "unlock", !.tfm = l + 1] \in Op
  <2>1. l + 1 \in Nat
    BY <1>6
  <2>. QED  BY <1>2, <2>1 DEF Op, Shares, OnList
<1>10. Only(t) /\ op'[t] = [op[t] EXCEPT !.pc = "unlock", !.tfm = l + 1]
  BY <1>2, <1>8, <1>9, GoesOn
<1>11. op'[t].pc = "unlock" /\ op'[t].names = op[t].names /\ op'[t].keys = op[t].keys /\ op'[t].token = op[t].token
      /\ op'[t].kind = op[t].kind /\ op'[t].tfm = l + 1
  BY <1>2, <1>10 DEF Op
<1>12. \A i \in DOMAIN key_tfm_list' : key_tfm_list'[i].holder # t
  <2>1. \A i \in DOMAIN key_tfm_list : key_tfm_list[i].holder # t
    BY <1>1, <1>2 DEF SharedBy, AtTransform
  <2>. QED  BY <1>5, <1>6, <2>1, Distinct
<1>13. SharedBy(t)'
  <2>1. l + 1 \in DOMAIN key_tfm_list' /\ key_tfm_list_mutex' = t
    BY <1>1, <1>4, <1>6
  <2>. QED  BY <1>1, <1>2, <1>11, <1>12, <2>1 DEF SharedBy, Shares, OnList, AtTransform
<1>14. \A u \in Users \ {t} : SharedBy(u)'
  <2>1. TAKE u \in Users \ {t}
  <2>2. op'[u] = op[u] /\ SharedBy(u) /\ sem' = sem /\ key_tfm_list_mutex' = key_tfm_list_mutex
    BY <1>1, <1>10 DEF Only, CiphersIInv
  <2>3. \A i \in DOMAIN key_tfm_list : i \in DOMAIN key_tfm_list' /\ key_tfm_list'[i] = key_tfm_list[i]
    BY <1>6
  <2>4. \A i \in DOMAIN key_tfm_list' \ DOMAIN key_tfm_list :
          key_tfm_list_mutex = t /\ key_tfm_list'[i].holder = None
    BY <1>4, <1>5, <1>6
  <2>. QED  BY <1>2, <2>2, <2>3, <2>4, OthersShare
<1>15. OneEach'
  BY <1>5, <1>6, <1>7 DEF OneEach, CiphersIInv
<1>16. CiphersTyped'
  BY <1>1, <1>2, <1>6, <1>10 DEF CiphersTyped, Only, inodeVars
<1>17. Inode'
  BY <1>1, <1>2, <1>10, <1>11, NoIo DEF CiphersIInv, DoesIo, InPage, AtInode
<1>. QED  BY <1>13, <1>14, <1>15, <1>16, <1>17 DEF CiphersIInv

(* A task that is done holds nothing.                                      *)
LEMMA IdleShares ==
    ASSUME NEW t \in Users, op'[t] = Idle, key_tfm_list_mutex' # t, \A k \in Tokens : sem'[k] # t,
           \A i \in DOMAIN key_tfm_list' : key_tfm_list'[i].holder # t
    PROVE  SharedBy(t)'
<1>1. op'[t].pc = "idle" /\ op'[t].keys = {}
  BY DEF Idle
<1>. QED  BY <1>1 DEF SharedBy, Shares, OnList, AtTransform

LEMMA IdleNoIo == Idle.pc \notin DoesIo /\ Idle.kind \notin {"read", "write"}
BY DEF Idle, DoesIo, InPage, AtInode

LEMMA EndsOnListKeeps ==
    ASSUME CiphersIInv, NEW t \in Users, op[t].pc \in OnList, Ends(t), key_tfm_list_mutex' = None,
           UNCHANGED <<key_tfm_list, inodeVars>>
    PROVE  CiphersIInv'
<1>1. CiphersTyped /\ SharedBy(t) /\ op[t] \in Op /\ op[t].pc \notin DoesIo /\ op[t].kind \notin {"read", "write"}
  BY AtList DEF Shares
<1>2. /\ Only(t) /\ op'[t] = Idle
      /\ sem' \in [Tokens -> Users \cup {None}]
      /\ \A k \in Tokens : sem'[k] # t /\ (sem'[k] = sem[k] \/ sem'[k] = None)
  BY <1>1, Ended
<1>3. key_tfm_list_mutex = t
  BY <1>1 DEF SharedBy
<1>4. \A i \in DOMAIN key_tfm_list' : key_tfm_list'[i].holder # t
  BY <1>1 DEF SharedBy, OnList, AtTransform
<1>5. SharedBy(t)'
  BY <1>2, <1>4, IdleShares, Distinct
<1>6. \A u \in Users \ {t} : /\ \A k \in Tokens : sem'[k] = u => sem[k] = u
                             /\ key_tfm_list_mutex' = u <=> key_tfm_list_mutex = u
  BY <1>2, <1>3, Distinct
<1>. QED  BY <1>1, <1>2, <1>5, <1>6, OnListKeeps, IdleNoIo

LEMMA AddFailsKeeps ==
    ASSUME CiphersIInv, NEW t \in Users, add_fails(t)
    PROVE  CiphersIInv'
BY EndsOnListKeeps DEF add_fails, OnList

LEMMA UnlockListKeeps ==
    ASSUME CiphersIInv, NEW t \in Users, unlock_list(t)
    PROVE  CiphersIInv'
<1>1. op[t].pc = "unlock" /\ UNCHANGED inodeVars
  BY DEF unlock_list
<1>2. CiphersTyped /\ SharedBy(t) /\ op[t] \in Op /\ op[t].pc \notin DoesIo /\ op[t].kind \notin {"read", "write"}
  BY <1>1, AtList DEF Shares, OnList
<1>2a. key_tfm_list_mutex = t /\ op[t].tfm \in DOMAIN key_tfm_list /\ op[t].names \in Seq(Names) /\ op[t].names # << >>
  BY <1>1, <1>2 DEF SharedBy, OnList, Shares, Op
<1>3. CASE Len(op[t].names) > 1 /\ op' = [op EXCEPT ![t].pc = "exists", ![t].names = Tail(@)]
           /\ UNCHANGED <<listVars, sem>>
  <2>. DEFINE rest == Tail(op[t].names)
  <2>1. rest \in Seq(Names) /\ rest # << >>
    <3>1. ASSUME NEW s \in Seq(Names), Len(s) > 1 PROVE Tail(s) \in Seq(Names) /\ Tail(s) # << >>
      <4>1. Tail(s) \in Seq(Names) /\ Len(Tail(s)) = Len(s) - 1 /\ Len(s) \in Nat
        BY <3>1
      <4>. DEFINE r == Tail(s)
      <4>. HIDE DEF r
      <4>2. ASSUME r = << >> PROVE Len(r) = 0
        BY <4>2
      <4>3. Len(r) > 0
        BY <3>1, <4>1 DEF r
      <4>4. r # << >>
        BY <4>2, <4>3
      <4>. QED  BY <4>1, <4>4 DEF r
    <3>2. Len(op[t].names) > 1
      BY <1>3
    <3>. QED  BY <1>2a, <3>1, <3>2
  <2>. HIDE DEF rest
  <2>2. op' = [op EXCEPT ![t] = [op[t] EXCEPT !.pc = "exists", !.names = rest]]
    BY <1>2, <1>3 DEF CiphersTyped, rest
  <2>3. [op[t] EXCEPT !.pc = "exists", !.names = rest] \in Op
    BY <1>2, <2>1 DEF Op, Shares, OnList
  <2>4. Only(t) /\ op'[t] = [op[t] EXCEPT !.pc = "exists", !.names = rest]
    BY <1>2, <2>2, <2>3, GoesOn
  <2>5. op'[t].pc = "exists" /\ op'[t].names = rest /\ op'[t].keys = op[t].keys /\ op'[t].token = op[t].token
        /\ op'[t].kind = op[t].kind /\ op'[t].tfm = op[t].tfm
    BY <1>2, <2>4 DEF Op
  <2>6. SharedBy(t)'
    BY <1>1, <1>2, <1>2a, <1>3, <2>1, <2>5 DEF SharedBy, Shares, OnList, AtTransform, listVars
  <2>7. op'[t].pc \notin DoesIo /\ sem' \in [Tokens -> Users \cup {None}]
    BY <1>2, <1>3, <2>5 DEF DoesIo, InPage, AtInode, CiphersTyped
  <2>. QED  BY <1>1, <1>2, <1>2a, <1>3, <2>4, <2>5, <2>6, <2>7, OnListKeeps DEF listVars
<1>4. CASE key_tfm_list_mutex' = None /\ Ends(t) /\ UNCHANGED key_tfm_list
  BY <1>1, <1>4, EndsOnListKeeps DEF OnList
<1>5. CASE key_tfm_list_mutex' = None /\ Goto(t, "lock") /\ UNCHANGED <<key_tfm_list, sem>>
  <2>1. Only(t) /\ op'[t] = [op[t] EXCEPT !.pc = "lock"]
    BY <1>2, <1>5, WentTo DEF Shares
  <2>2. op'[t].pc = "lock" /\ op'[t].names = op[t].names /\ op'[t].keys = op[t].keys /\ op'[t].token = op[t].token
        /\ op'[t].kind = op[t].kind /\ op'[t].tfm = op[t].tfm
    BY <1>2, <2>1 DEF Op
  <2>3. SharedBy(t)'
    BY <1>1, <1>2, <1>2a, <1>5, <2>2, Distinct DEF SharedBy, Shares, OnList, AtTransform
  <2>4. op'[t].pc \notin DoesIo /\ sem' \in [Tokens -> Users \cup {None}]
    BY <1>2, <1>5, <2>2 DEF DoesIo, InPage, AtInode, CiphersTyped
  <2>5. \A u \in Users \ {t} : key_tfm_list_mutex' = u <=> key_tfm_list_mutex = u
    BY <1>2a, <1>5, Distinct
  <2>. QED  BY <1>1, <1>2, <1>2a, <1>5, <2>1, <2>2, <2>3, <2>4, <2>5, OnListKeeps
<1>. QED  BY <1>3, <1>4, <1>5 DEF unlock_list

-----------------------------------------------------------------------------
(* The shared transforms.                                                  *)
(* A step of t at its transform.                                           *)
LEMMA TransformKeeps ==
    ASSUME CiphersIInv, NEW t \in Users, op[t].pc \in {"lock"} \cup AtTransform, Only(t), SharedBy(t)',
           op'[t].pc \notin DoesIo, op'[t].kind \notin {"read", "write"},
           NEW x \in Transform, key_tfm_list' = [key_tfm_list EXCEPT ![op[t].tfm] = x],
           LET y == key_tfm_list[op[t].tfm]
           IN /\ x.name = y.name
              /\ x.key = y.key \/ y.holder = t
              /\ x.holder \in {t, None} /\ y.holder \in {t, None},
           UNCHANGED <<key_tfm_list_mutex, inodeVars>>,
           sem' \in [Tokens -> Users \cup {None}],
           \A k \in Tokens : sem'[k] = sem[k] \/ sem'[k] = None
    PROVE  CiphersIInv'
<1>1. CiphersTyped /\ SharedBy(t) /\ op[t] \in Op /\ op[t].pc \notin DoesIo /\ op[t].kind \notin {"read", "write"}
  BY AtList DEF Shares
<1>2. op[t].tfm \in DOMAIN key_tfm_list
  BY <1>1 DEF SharedBy
<1>3. /\ key_tfm_list' \in Seq(Transform) /\ DOMAIN key_tfm_list' = DOMAIN key_tfm_list
      /\ \A i \in DOMAIN key_tfm_list : key_tfm_list'[i] = IF i = op[t].tfm THEN x ELSE key_tfm_list[i]
  BY <1>1, <1>2 DEF CiphersTyped
<1>4. OneEach'
  BY <1>2, <1>3 DEF OneEach, CiphersIInv
<1>5. \A u \in Users \ {t} : SharedBy(u)'
  <2>1. TAKE u \in Users \ {t}
  <2>2. op'[u] = op[u] /\ SharedBy(u) /\ \A k \in Tokens : sem'[k] = u => sem[k] = u
    BY Distinct DEF CiphersIInv, Only
  <2>3. \A i \in DOMAIN key_tfm_list :
          /\ i \in DOMAIN key_tfm_list'
          /\ key_tfm_list'[i].name = key_tfm_list[i].name
          /\ key_tfm_list'[i].holder = u <=> key_tfm_list[i].holder = u
          /\ key_tfm_list'[i].key = key_tfm_list[i].key \/ key_tfm_list[i].holder = t
    BY <1>2, <1>3, Distinct
  <2>. QED  BY <1>1, <1>3, <2>2, <2>3, OthersShare
<1>6. CiphersTyped'
  BY <1>1, <1>3 DEF CiphersTyped, Only, inodeVars
<1>7. Inode'
  BY <1>1, NoIo DEF CiphersIInv
<1>. QED  BY <1>4, <1>5, <1>6, <1>7 DEF CiphersIInv

LEMMA LockTfmKeeps ==
    ASSUME CiphersIInv, NEW t \in Users, lock_tfm(t)
    PROVE  CiphersIInv'
<1>1. op[t].pc = "lock" /\ key_tfm_list[op[t].tfm].holder = None
      /\ key_tfm_list' = [key_tfm_list EXCEPT ![op[t].tfm].holder = t] /\ Goto(t, "setkey")
      /\ UNCHANGED <<key_tfm_list_mutex, sem, inodeVars>>
  BY DEF lock_tfm
<1>2. CiphersTyped /\ SharedBy(t) /\ op[t] \in Op /\ op[t].pc \notin DoesIo /\ op[t].kind \notin {"read", "write"}
  BY <1>1, AtList DEF Shares
<1>. DEFINE i == op[t].tfm
            x == [key_tfm_list[i] EXCEPT !.holder = t]
<1>3. i \in DOMAIN key_tfm_list /\ key_tfm_list[i] \in Transform
  BY <1>1, <1>2 DEF SharedBy, CiphersTyped
<1>4. x \in Transform /\ x.name = key_tfm_list[i].name /\ x.key = key_tfm_list[i].key /\ x.holder = t
  BY <1>3 DEF Transform
<1>5. key_tfm_list' = [key_tfm_list EXCEPT ![i] = x]
  BY <1>1, <1>2, <1>3 DEF CiphersTyped
<1>. HIDE DEF x
<1>6. Only(t) /\ op'[t] = [op[t] EXCEPT !.pc = "setkey"]
  BY <1>1, <1>2, WentTo DEF Shares, AtTransform
<1>7. op'[t].pc = "setkey" /\ op'[t].names = op[t].names /\ op'[t].keys = op[t].keys /\ op'[t].token = op[t].token
      /\ op'[t].kind = op[t].kind /\ op'[t].tfm = i
  BY <1>2, <1>6 DEF Op
<1>8. DOMAIN key_tfm_list' = DOMAIN key_tfm_list
      /\ \A j \in DOMAIN key_tfm_list : key_tfm_list'[j] = IF j = i THEN x ELSE key_tfm_list[j]
  BY <1>2, <1>3, <1>5 DEF CiphersTyped
<1>9. SharedBy(t)'
  <2>1. \A j \in DOMAIN key_tfm_list' : key_tfm_list'[j].holder = t <=> j = i
    BY <1>1, <1>2, <1>4, <1>8 DEF SharedBy, AtTransform
  <2>. QED  BY <1>1, <1>2, <1>3, <1>7, <1>8, <2>1 DEF SharedBy, Shares, OnList, AtTransform
<1>10. op'[t].pc \notin DoesIo /\ sem' \in [Tokens -> Users \cup {None}]
  BY <1>1, <1>2, <1>7 DEF DoesIo, InPage, AtInode, CiphersTyped
<1>. QED  BY <1>1, <1>2, <1>4, <1>5, <1>6, <1>7, <1>9, <1>10, TransformKeeps

LEMMA SetkeyKeeps ==
    ASSUME CiphersIInv, NEW t \in Users, setkey(t)
    PROVE  CiphersIInv'
<1>1. op[t].pc = "setkey" /\ key_tfm_list' = [key_tfm_list EXCEPT ![op[t].tfm].key = op[t].token] /\ Goto(t, "crypt")
      /\ UNCHANGED <<key_tfm_list_mutex, sem, inodeVars>>
  BY DEF setkey
<1>2. CiphersTyped /\ SharedBy(t) /\ op[t] \in Op /\ op[t].pc \notin DoesIo /\ op[t].kind \notin {"read", "write"}
  BY <1>1, AtList DEF Shares, AtTransform
<1>. DEFINE i == op[t].tfm
            x == [key_tfm_list[i] EXCEPT !.key = op[t].token]
<1>3. i \in DOMAIN key_tfm_list /\ key_tfm_list[i] \in Transform /\ key_tfm_list[i].holder = t
  BY <1>1, <1>2 DEF SharedBy, AtTransform, CiphersTyped
<1>4. x \in Transform /\ x.name = key_tfm_list[i].name /\ x.holder = t /\ x.key = op[t].token
  BY <1>2, <1>3 DEF Transform, Op
<1>5. key_tfm_list' = [key_tfm_list EXCEPT ![i] = x]
  BY <1>1, <1>2, <1>3 DEF CiphersTyped
<1>. HIDE DEF x
<1>6. Only(t) /\ op'[t] = [op[t] EXCEPT !.pc = "crypt"]
  BY <1>1, <1>2, WentTo DEF Shares, AtTransform
<1>7. op'[t].pc = "crypt" /\ op'[t].names = op[t].names /\ op'[t].keys = op[t].keys /\ op'[t].token = op[t].token
      /\ op'[t].kind = op[t].kind /\ op'[t].tfm = i
  BY <1>2, <1>6 DEF Op
<1>8. DOMAIN key_tfm_list' = DOMAIN key_tfm_list
      /\ \A j \in DOMAIN key_tfm_list : key_tfm_list'[j] = IF j = i THEN x ELSE key_tfm_list[j]
  BY <1>2, <1>3, <1>5 DEF CiphersTyped
<1>9. SharedBy(t)'
  <2>1. \A j \in DOMAIN key_tfm_list' : key_tfm_list'[j].holder = t <=> j = i
    BY <1>1, <1>2, <1>4, <1>8 DEF SharedBy, AtTransform
  <2>. QED  BY <1>1, <1>2, <1>3, <1>4, <1>7, <1>8, <2>1 DEF SharedBy, Shares, OnList, AtTransform
<1>10. op'[t].pc \notin DoesIo /\ sem' \in [Tokens -> Users \cup {None}]
  BY <1>1, <1>2, <1>7 DEF DoesIo, InPage, AtInode, CiphersTyped
<1>11. op[t].pc \in {"lock"} \cup AtTransform
  BY <1>1 DEF AtTransform
<1>. QED  BY <1>1, <1>2, <1>3, <1>4, <1>5, <1>6, <1>7, <1>9, <1>10, <1>11, TransformKeeps

LEMMA CryptBlockKeeps ==
    ASSUME CiphersIInv, NEW t \in Users, crypt_block(t)
    PROVE  CiphersIInv'
<1>. DEFINE b == op[t].blocks + 1
            ks == op[t].keys \cup {key_tfm_list[op[t].tfm].key}
<1>1. op[t].pc = "crypt" /\ op' = [op EXCEPT ![t].blocks = b, ![t].keys = ks]
      /\ UNCHANGED <<listVars, sem, inodeVars>>
  BY DEF crypt_block
<1>2. CiphersTyped /\ SharedBy(t) /\ op[t] \in Op /\ op[t].pc \notin DoesIo /\ op[t].kind \notin {"read", "write"}
  BY <1>1, AtList DEF Shares, AtTransform
<1>3. key_tfm_list[op[t].tfm].key = op[t].token /\ op[t].keys \subseteq {op[t].token}
  BY <1>1, <1>2 DEF SharedBy
<1>4. ks \subseteq {op[t].token} /\ ks \in SUBSET (Tokens \cup {None}) /\ b \in Nat
  BY <1>2, <1>3 DEF Op
<1>. HIDE DEF b, ks
<1>5. op' = [op EXCEPT ![t] = [op[t] EXCEPT !.blocks = b, !.keys = ks]]
  BY <1>1, <1>2 DEF CiphersTyped
<1>6. [op[t] EXCEPT !.blocks = b, !.keys = ks] \in Op
  BY <1>2, <1>4 DEF Op
<1>7. Only(t) /\ op'[t] = [op[t] EXCEPT !.blocks = b, !.keys = ks]
  BY <1>2, <1>5, <1>6, GoesOn
<1>8. op'[t].pc = "crypt" /\ op'[t].names = op[t].names /\ op'[t].keys = ks /\ op'[t].token = op[t].token
      /\ op'[t].kind = op[t].kind /\ op'[t].tfm = op[t].tfm
  <2>1. op'[t] = [op[t] EXCEPT !.blocks = b, !.keys = ks] /\ op[t] \in Op
    BY <1>2, <1>7
  <2>2. op'[t].pc = op[t].pc /\ op'[t].names = op[t].names /\ op'[t].keys = ks /\ op'[t].token = op[t].token
        /\ op'[t].kind = op[t].kind /\ op'[t].tfm = op[t].tfm
    BY <2>1 DEF Op
  <2>. QED  BY <1>1, <2>2
<1>9. SharedBy(t)'
  BY <1>1, <1>2, <1>4, <1>8 DEF SharedBy, Shares, OnList, AtTransform, listVars
<1>10. op'[t].pc \notin DoesIo /\ sem' \in [Tokens -> Users \cup {None}] /\ key_tfm_list_mutex \in Users \cup {None}
  BY <1>1, <1>2, <1>8 DEF DoesIo, InPage, AtInode, CiphersTyped
<1>. QED  BY <1>1, <1>2, <1>7, <1>8, <1>9, <1>10, OnListKeeps DEF listVars

LEMMA UnlockTfmKeeps ==
    ASSUME CiphersIInv, NEW t \in Users, unlock_tfm(t)
    PROVE  CiphersIInv'
<1>1. op[t].pc \in AtTransform /\ key_tfm_list' = [key_tfm_list EXCEPT ![op[t].tfm].holder = None] /\ Ends(t)
      /\ UNCHANGED <<key_tfm_list_mutex, inodeVars>>
  BY DEF unlock_tfm, AtTransform
<1>2. CiphersTyped /\ SharedBy(t) /\ op[t] \in Op /\ op[t].pc \notin DoesIo /\ op[t].kind \notin {"read", "write"}
  BY <1>1, AtList DEF Shares
<1>. DEFINE i == op[t].tfm
            x == [key_tfm_list[i] EXCEPT !.holder = None]
<1>3. i \in DOMAIN key_tfm_list /\ key_tfm_list[i] \in Transform /\ key_tfm_list[i].holder = t
  BY <1>1, <1>2 DEF SharedBy, CiphersTyped
<1>4. x \in Transform /\ x.name = key_tfm_list[i].name /\ x.holder = None /\ x.key = key_tfm_list[i].key
  BY <1>2, <1>3 DEF Transform
<1>5. key_tfm_list' = [key_tfm_list EXCEPT ![i] = x]
  BY <1>1, <1>2, <1>3 DEF CiphersTyped
<1>. HIDE DEF x
<1>6. /\ Only(t) /\ op'[t] = Idle
      /\ sem' \in [Tokens -> Users \cup {None}]
      /\ \A k \in Tokens : sem'[k] # t /\ (sem'[k] = sem[k] \/ sem'[k] = None)
  BY <1>1, <1>2, Ended
<1>7. DOMAIN key_tfm_list' = DOMAIN key_tfm_list
      /\ \A j \in DOMAIN key_tfm_list : key_tfm_list'[j] = IF j = i THEN x ELSE key_tfm_list[j]
  BY <1>2, <1>3, <1>5 DEF CiphersTyped
<1>8. \A j \in DOMAIN key_tfm_list' : key_tfm_list'[j].holder # t
  BY <1>2, <1>4, <1>7, Distinct DEF SharedBy
<1>9. key_tfm_list_mutex' # t
  BY <1>1, <1>2 DEF SharedBy, OnList, AtTransform
<1>10. SharedBy(t)'
  BY <1>6, <1>8, <1>9, IdleShares
<1>. QED  BY <1>1, <1>2, <1>3, <1>4, <1>5, <1>6, <1>10, TransformKeeps, IdleNoIo

-----------------------------------------------------------------------------
(* The inode.                                                              *)
(* A step of t that is neither before nor after it on the list or at a     *)
(* shared transform.                                                       *)
LEMMA NotShared ==
    ASSUME CiphersIInv, NEW t \in Users, Only(t), UNCHANGED listVars,
           op[t].pc \in {"idle"} \cup DoesIo, op'[t].pc \in {"idle"} \cup DoesIo,
           op'[t].keys \subseteq {op'[t].token},
           \A k \in Tokens : sem'[k] = sem[k] \/ sem'[k] = None
    PROVE  OneEach' /\ \A u \in Users : SharedBy(u)'
<1>1. \A p \in {"idle"} \cup DoesIo : p \notin Shares /\ p # "sem"
  BY DEF DoesIo, InPage, AtInode, Shares, OnList, AtTransform
<1>2. op[t].pc \notin Shares /\ op[t].pc # "sem" /\ op'[t].pc \notin Shares /\ op'[t].pc # "sem"
  BY <1>1
<1>3. SharedBy(t) /\ CiphersTyped
  BY DEF CiphersIInv
<1>4. (\A u \in Users \ {t} : SharedBy(u)') /\ OneEach'
  BY <1>3, OthersShareStill, Distinct DEF CiphersIInv, listVars
<1>5. SharedBy(t)'
  <2>1. \A k \in Tokens : sem'[k] # t
    BY <1>2, <1>3, Distinct DEF SharedBy
  <2>2. key_tfm_list_mutex # t /\ \A i \in DOMAIN key_tfm_list : key_tfm_list[i].holder # t
    BY <1>2, <1>3 DEF SharedBy, Shares
  <2>. QED  BY <1>2, <2>1, <2>2 DEF SharedBy, listVars, Shares, OnList, AtTransform
<1>. QED  BY <1>4, <1>5

LEMMA StillSealed ==
    ASSUME warned => warned', NEW x, NEW p, NEW e, Sealed(x, p, e)
    PROVE  Sealed(x, p, e)'
<1>. QED  BY DEF Sealed

(* Another task at a page relies on nothing that a step of t changes.      *)
LEMMA OthersIo ==
    ASSUME NEW u \in Users, IoBy(u), op'[u] = op[u], warned => warned',
           crypt_stat'.holder = u <=> crypt_stat.holder = u,
           op[u].pc \in DoesIo => /\ crypt_stat'.valid /\ crypt_stat'.tfm # None
                                  /\ crypt_stat.key_set => crypt_stat'.key_set,
           \A q \in Pages : lower_file.page[q] # << >> => lower_file'.page[q] # << >>
    PROVE  IoBy(u)'
<1>1. op[u].kind = "write" => \A e \in 0..Len(op[u].temp)-1 : Sealed(op[u].temp[e + 1], op[u].page, e)'
  BY StillSealed DEF IoBy
<1>2. op[u].kind = "read" => /\ lower_file'.page[op[u].page] # << >>
                             /\ \A e \in 0..Len(op[u].temp)-1 : warned' \/ op[u].temp[e + 1] = <<op[u].page, e>>
  BY DEF IoBy
<1>3. op[u].pc \in {"set", "extent"} => crypt_stat'.key_set
  BY DEF IoBy, DoesIo, InPage, AtInode
<1>. QED  BY <1>1, <1>2, <1>3 DEF IoBy

LEMMA LowerStillSealed ==
    ASSUME LowerSealed, warned => warned', lower_file'.page = lower_file.page
    PROVE  LowerSealed'
<1>. QED  BY StillSealed DEF LowerSealed

(* Nobody is at a page: the inode may change.                              *)
LEMMA InodeChanges ==
    ASSUME CiphersIInv, \A u \in Users : op[u].pc \notin DoesIo, UNCHANGED <<listVars, sem, op>>,
           crypt_stat'.holder \notin Users, warned => warned', lower_file'.page = lower_file.page,
           CiphersTyped', KeyOfInode'
    PROVE  CiphersIInv'
<1>1. ASSUME NEW u \in Users PROVE SharedBy(u)'
  BY DEF CiphersIInv, SharedBy, listVars, Found
<1>2. ASSUME NEW u \in Users PROVE IoBy(u)'
  BY DEF CiphersIInv, Inode, IoBy, DoesIo, InPage, AtInode
<1>3. LowerSealed' /\ OneEach'
  BY LowerStillSealed DEF CiphersIInv, Inode, OneEach, listVars
<1>. QED  BY <1>1, <1>2, <1>3 DEF CiphersIInv, Inode

LEMMA NobodyAtInode ==
    ASSUME CiphersIInv, ~crypt_stat.valid \/ \A u \in Users : op[u].kind \notin {"read", "write"}
    PROVE  (\A u \in Users : op[u].pc \notin DoesIo) /\ crypt_stat.holder \notin Users
<1>1. \A u \in Users : op[u].pc \notin DoesIo
  BY DEF CiphersIInv, Inode, IoBy
<1>2. \A u \in Users : crypt_stat.holder # u
  BY <1>1 DEF CiphersIInv, Inode, IoBy, DoesIo, InPage
<1>. QED  BY <1>1, <1>2

(* The context is made valid with root vector r and transform f, or only   *)
(* the transform is allocated.                                             *)
LEMMA ContextMade ==
    ASSUME CiphersIInv, ~crypt_stat.valid, NEW v \in BOOLEAN, NEW r \in Roots, NEW f \in {None, "gaes_ecb"},
           crypt_stat' = [crypt_stat EXCEPT !.valid = v, !.root = r, !.tfm = f],
           v => (init_failed' \/ f # None) /\ (warned' \/ r = "hash of the key"),
           init_failed' \in BOOLEAN, warned' \in BOOLEAN,
           init_failed => init_failed', warned => warned',
           lower_file'.page = lower_file.page, lower_file'.header \in BOOLEAN,
           lower_file' = lower_file \/ \E h \in BOOLEAN : lower_file' = [lower_file EXCEPT !.header = h],
           UNCHANGED <<listVars, sem, op, bug>>
    PROVE  CiphersIInv'
<1>1. (\A u \in Users : op[u].pc \notin DoesIo) /\ crypt_stat.holder \notin Users
  BY NobodyAtInode
<1>2. CiphersTyped /\ KeyOfInode
  BY DEF CiphersIInv, Inode
<1>3. /\ crypt_stat'.valid = v /\ crypt_stat'.root = r /\ crypt_stat'.tfm = f
      /\ crypt_stat'.holder = crypt_stat.holder /\ crypt_stat'.key_set = crypt_stat.key_set
      /\ crypt_stat'.under = crypt_stat.under
      /\ crypt_stat' \in [tfm : {None, "gaes_ecb"}, valid : BOOLEAN, root : Roots, key_set : BOOLEAN,
                          holder : Users \cup {None}, under : FileKeys]
  BY <1>2 DEF CiphersTyped
<1>4. lower_file' \in [header : BOOLEAN, page : [Pages -> Seq(Octets)]]
  BY <1>2 DEF CiphersTyped
<1>5. CiphersTyped'
  BY <1>2, <1>3, <1>4 DEF CiphersTyped, listVars
<1>6. KeyOfInode'
  <2>1. crypt_stat.key_set => crypt_stat.under = "file key"
    BY <1>2 DEF KeyOfInode
  <2>2. bug' => init_failed'
    BY <1>2, Zenon DEF KeyOfInode
  <2>3. v => (init_failed' \/ f # None)
    OBVIOUS
  <2>4. v => (warned' \/ r = "hash of the key")
    OBVIOUS
  <2>. QED  BY <1>3, <2>1, <2>2, <2>3, <2>4 DEF KeyOfInode
<1>. QED  BY <1>1, <1>3, <1>5, <1>6, InodeChanges

LEMMA Allocates ==
    ASSUME CiphersTyped, NEW ok \in BOOLEAN
    PROVE  /\ init_crypt_ctx(ok) \in {None, "gaes_ecb"}
           /\ ok => init_crypt_ctx(ok) # None
<1>. QED  BY CiphersAssumption DEF CiphersTyped, init_crypt_ctx

LEMMA Rooted ==
    ASSUME NEW ok \in BOOLEAN
    PROVE  RootIv(ok) \in Roots /\ (ok => RootIv(ok) = "hash of the key")
<1>. QED  BY DEF RootIv, Roots

LEMMA NewContextKeeps ==
    ASSUME CiphersIInv, NEW t \in Users, new_file_context(t)
    PROVE  CiphersIInv'
<1>1. CiphersTyped
  BY DEF CiphersIInv
<1>2. PICK hashed, allocated \in BOOLEAN :
        /\ crypt_stat' = [crypt_stat EXCEPT !.valid = TRUE, !.root = RootIv(hashed), !.tfm = init_crypt_ctx(allocated)]
        /\ lower_file' = [lower_file EXCEPT !.header = allocated]
        /\ warned' = (warned \/ ~hashed)
        /\ init_failed' = (init_failed \/ ~allocated)
  BY DEF new_file_context
<1>3. ~crypt_stat.valid /\ UNCHANGED <<listVars, sem, op, bug>>
  BY DEF new_file_context
<1>. DEFINE r == RootIv(hashed)
            f == init_crypt_ctx(allocated)
<1>4. /\ r \in Roots /\ (hashed => r = "hash of the key")
      /\ f \in {None, "gaes_ecb"} /\ (allocated => f # None)
  BY <1>1, Allocates, Rooted
<1>5. crypt_stat' = [crypt_stat EXCEPT !.valid = TRUE, !.root = r, !.tfm = f]
  BY <1>2
<1>. HIDE DEF r, f
<1>6. /\ init_failed' \in BOOLEAN /\ warned' \in BOOLEAN
      /\ (init_failed => init_failed') /\ (warned => warned')
      /\ (init_failed' \/ f # None) /\ (warned' \/ r = "hash of the key")
  BY <1>1, <1>2, <1>4, Zenon DEF CiphersTyped
<1>7. lower_file'.page = lower_file.page /\ lower_file'.header \in BOOLEAN
  BY <1>1, <1>2 DEF CiphersTyped
<1>. QED  BY <1>2, <1>3, <1>4, <1>5, <1>6, <1>7, ContextMade

LEMMA HeaderKeeps ==
    ASSUME CiphersIInv, NEW t \in Users, read_header(t)
    PROVE  CiphersIInv'
<1>1. CiphersTyped
  BY DEF CiphersIInv
<1>2. PICK tag_3, decrypted, hashed, allocated \in BOOLEAN :
        LET parsed == init_crypt_ctx(tag_3 /\ allocated)
        IN  IF decrypted /\ (tag_3 => parsed # None)
            THEN /\ crypt_stat' = [crypt_stat EXCEPT !.valid = TRUE, !.root = RootIv(hashed),
                                      !.tfm = IF hashed THEN init_crypt_ctx(allocated) ELSE parsed]
                 /\ warned' = (warned \/ ~hashed)
                 /\ init_failed' = (init_failed \/ crypt_stat'.tfm = None)
            ELSE /\ crypt_stat' = [crypt_stat EXCEPT !.tfm = parsed]
                 /\ UNCHANGED <<warned, init_failed>>
  BY DEF read_header
<1>3. ~crypt_stat.valid /\ UNCHANGED <<lower_file, listVars, sem, op, bug>>
  BY DEF read_header
<1>. DEFINE parsed == init_crypt_ctx(tag_3 /\ allocated)
            f == IF hashed THEN init_crypt_ctx(allocated) ELSE parsed
<1>4. parsed \in {None, "gaes_ecb"} /\ f \in {None, "gaes_ecb"}
  BY <1>1, Allocates
<1>5. RootIv(hashed) \in Roots /\ (hashed => RootIv(hashed) = "hash of the key")
  BY Rooted
<1>6. CASE decrypted /\ (tag_3 => parsed # None)
  <2>1. /\ crypt_stat' = [crypt_stat EXCEPT !.valid = TRUE, !.root = RootIv(hashed), !.tfm = f]
        /\ warned' = (warned \/ ~hashed)
        /\ init_failed' = (init_failed \/ crypt_stat'.tfm = None)
    BY <1>2, <1>6
  <2>. HIDE DEF f, parsed
  <2>2. crypt_stat'.tfm = f
    BY <1>1, <2>1 DEF CiphersTyped
  <2>3. /\ init_failed' \in BOOLEAN /\ warned' \in BOOLEAN
        /\ (init_failed => init_failed') /\ (warned => warned')
        /\ (init_failed' \/ f # None) /\ (warned' \/ RootIv(hashed) = "hash of the key")
    BY <1>1, <1>5, <2>1, <2>2, Zenon DEF CiphersTyped
  <2>4. lower_file'.page = lower_file.page /\ lower_file'.header \in BOOLEAN
    BY <1>1, <1>3 DEF CiphersTyped
  <2>. QED  BY <1>3, <1>4, <1>5, <2>1, <2>3, <2>4, ContextMade
<1>7. CASE ~(decrypted /\ (tag_3 => parsed # None))
  <2>1. crypt_stat' = [crypt_stat EXCEPT !.tfm = parsed] /\ UNCHANGED <<warned, init_failed>>
    BY <1>2, <1>7
  <2>. HIDE DEF f, parsed
  <2>a. PICK v \in BOOLEAN, r \in Roots : ~v /\ v = crypt_stat.valid /\ r = crypt_stat.root
    BY <1>1, <1>3 DEF CiphersTyped
  <2>2. crypt_stat' = [crypt_stat EXCEPT !.valid = v, !.root = r, !.tfm = parsed]
    BY <1>1, <2>1, <2>a DEF CiphersTyped
  <2>3. /\ init_failed' \in BOOLEAN /\ warned' \in BOOLEAN
        /\ (init_failed => init_failed') /\ (warned => warned')
    BY <1>1, <2>1, Zenon DEF CiphersTyped
  <2>4. lower_file'.page = lower_file.page /\ lower_file'.header \in BOOLEAN
    BY <1>1, <1>3 DEF CiphersTyped
  <2>. QED  BY <1>3, <1>4, <2>a, <2>2, <2>3, <2>4, ContextMade
<1>. QED  BY <1>6, <1>7

LEMMA DestroyKeeps ==
    ASSUME CiphersIInv, destroy_crypt_stat
    PROVE  CiphersIInv'
<1>1. crypt_stat' = Fresh /\ (\A t \in Users : op[t].kind \notin {"read", "write"})
      /\ UNCHANGED <<listVars, sem, op, lower_file, init_failed, warned, bug>>
  BY DEF destroy_crypt_stat
<1>2. \A u \in Users : op[u].pc \notin DoesIo
  BY <1>1, NobodyAtInode
<1>3. /\ ~crypt_stat'.valid /\ crypt_stat'.tfm = None /\ ~crypt_stat'.key_set /\ crypt_stat'.holder = None
      /\ crypt_stat' \in [tfm : {None, "gaes_ecb"}, valid : BOOLEAN, root : Roots, key_set : BOOLEAN,
                          holder : Users \cup {None}, under : FileKeys]
  BY <1>1 DEF Fresh, Roots, FileKeys
<1>4. CiphersTyped'
  BY <1>1, <1>3 DEF CiphersIInv, CiphersTyped, listVars
<1>5. KeyOfInode'
  BY <1>1, <1>3 DEF CiphersIInv, Inode, KeyOfInode
<1>. QED  BY <1>1, <1>2, <1>3, <1>4, <1>5, InodeChanges, Distinct

(* A step of t at a page.                                                  *)
LEMMA PageKeeps ==
    ASSUME CiphersIInv, NEW t \in Users, Only(t), UNCHANGED <<listVars, warned, init_failed>>,
           op[t].pc \in {"idle"} \cup DoesIo, op'[t].pc \in {"idle"} \cup DoesIo,
           op'[t].keys \subseteq {op'[t].token},
           sem' \in [Tokens -> Users \cup {None}],
           \A k \in Tokens : sem'[k] = sem[k] \/ sem'[k] = None,
           bug' \in BOOLEAN,
           crypt_stat' \in [tfm : {None, "gaes_ecb"}, valid : BOOLEAN, root : Roots, key_set : BOOLEAN,
                            holder : Users \cup {None}, under : FileKeys],
           crypt_stat'.valid = crypt_stat.valid, crypt_stat'.tfm = crypt_stat.tfm,
           crypt_stat.key_set => crypt_stat'.key_set,
           \A u \in Users \ {t} : crypt_stat'.holder = u <=> crypt_stat.holder = u,
           lower_file' \in [header : BOOLEAN, page : [Pages -> Seq(Octets)]],
           \A q \in Pages : lower_file.page[q] # << >> => lower_file'.page[q] # << >>,
           LowerSealed', KeyOfInode', IoBy(t)'
    PROVE  CiphersIInv'
<1>1. OneEach' /\ \A u \in Users : SharedBy(u)'
  BY NotShared
<1>2. CiphersTyped'
  BY DEF CiphersIInv, CiphersTyped, Only, listVars
<1>3. ASSUME NEW u \in Users \ {t} PROVE IoBy(u)'
  <2>1. IoBy(u) /\ op'[u] = op[u]
    BY DEF CiphersIInv, Inode, Only
  <2>2. op[u].pc \in DoesIo => crypt_stat'.valid /\ crypt_stat'.tfm # None
    BY <2>1 DEF IoBy
  <2>. QED  BY <2>1, <2>2, OthersIo
<1>. QED  BY <1>1, <1>2, <1>3 DEF CiphersIInv, Inode

LEMMA AtPage ==
    ASSUME CiphersIInv, NEW t \in Users, op[t].pc \in DoesIo
    PROVE  /\ CiphersTyped /\ IoBy(t) /\ op[t] \in Op /\ KeyOfInode /\ LowerSealed
           /\ op[t].kind \in {"read", "write"} /\ op[t].keys \subseteq {op[t].token}
           /\ op[t].page \in Pages /\ crypt_stat.valid /\ crypt_stat.tfm # None
<1>1. CiphersTyped /\ IoBy(t) /\ op[t] \in Op /\ KeyOfInode /\ LowerSealed
  BY DEF CiphersIInv, Inode, CiphersTyped
<1>. QED  BY <1>1 DEF IoBy, CiphersIInv, SharedBy

LEMMA PageIoKeeps ==
    ASSUME CiphersIInv, NEW t \in Users, NEW kind \in {"read", "write"}, NEW p \in Pages, page_io(t, kind, p)
    PROVE  CiphersIInv'
<1>1. crypt_stat.valid /\ op[t] = Idle /\ UNCHANGED <<listVars, sem, crypt_stat, lower_file, init_failed, warned>>
  BY DEF page_io, Begins
<1>2. CiphersTyped /\ IoBy(t) /\ op[t] \in Op /\ KeyOfInode /\ LowerSealed
  BY DEF CiphersIInv, Inode, CiphersTyped
<1>3. op[t].pc = "idle" /\ op[t].keys = {}
  BY <1>1 DEF Idle
<1>4. LowerSealed'
  BY <1>1, <1>2, LowerStillSealed
<1>5. CASE crypt_stat.tfm = None /\ bug' = TRUE /\ UNCHANGED op
  <2>1. init_failed
    BY <1>1, <1>2, <1>5 DEF KeyOfInode
  <2>2. KeyOfInode'
    BY <1>1, <1>2, <1>5, <2>1 DEF KeyOfInode
  <2>3. IoBy(t)'
    BY <1>1, <1>2, <1>5 DEF IoBy, Sealed
  <2>4. Only(t) /\ op'[t] = op[t]
    BY <1>2, <1>5 DEF Only, CiphersTyped
  <2>. QED  BY <1>1, <1>2, <1>3, <1>4, <1>5, <2>2, <2>3, <2>4, PageKeeps DEF CiphersTyped
<1>6. CASE /\ crypt_stat.tfm # None
           /\ kind = "read" => lower_file.page[p] # << >>
           /\ op' = [op EXCEPT ![t] = [Idle EXCEPT !.kind = kind, !.pc = "mutex", !.page = p]]
           /\ UNCHANGED bug
  <2>. DEFINE o == [Idle EXCEPT !.kind = kind, !.pc = "mutex", !.page = p]
  <2>1. o.kind = kind /\ o.pc = "mutex" /\ o.page = p /\ o.temp = << >> /\ o.keys = {}
    BY DEF Idle
  <2>2. o \in Op
    BY IdleTyped, Distinct DEF Op, DoesIo, InPage
  <2>. HIDE DEF o
  <2>3. Only(t) /\ op'[t] = o
    BY <1>2, <1>6, <2>2, GoesOn DEF o
  <2>4. KeyOfInode'
    BY <1>1, <1>2, <1>6 DEF KeyOfInode
  <2>5. Len(o.temp) = 0 /\ 0 < PerPage
    BY <2>1, Distinct
  <2>6. crypt_stat.holder # t
    BY <1>2, <1>3 DEF IoBy, AtInode
  <2>7. IoBy(t)'
    <3>1. \A e \in 0..Len(o.temp)-1 : FALSE
      BY <2>5
    <3>2. o.pc \in DoesIo /\ o.pc \notin AtInode /\ o.pc \notin {"set", "extent", "page"}
      BY <2>1 DEF DoesIo, InPage, AtInode
    <3>3. crypt_stat'.valid /\ crypt_stat'.tfm # None /\ o.page \in Pages /\ Len(o.temp) < PerPage
      BY <1>1, <1>6, <2>1, <2>5, Distinct
    <3>4. kind = "read" => lower_file'.page[o.page] # << >>
      BY <1>1, <1>6, <2>1
    <3>. QED  BY <1>1, <2>1, <2>3, <2>6, <3>1, <3>2, <3>3, <3>4 DEF IoBy
  <2>8. op'[t].pc \in DoesIo /\ op'[t].keys \subseteq {op'[t].token}
    BY <2>1, <2>3 DEF DoesIo, InPage
  <2>. QED  BY <1>1, <1>2, <1>3, <1>4, <1>6, <2>3, <2>4, <2>7, <2>8, PageKeeps DEF CiphersTyped
<1>. QED  BY <1>5, <1>6 DEF page_io

(* A step of t at the inode's mutex, from one place to another.            *)
LEMMA MutexKeeps ==
    ASSUME CiphersIInv, NEW t \in Users, NEW from \in InPage, NEW to \in InPage, op[t].pc = from, Goto(t, to),
           NEW h, NEW s, NEW w,
           crypt_stat' = [crypt_stat EXCEPT !.holder = h, !.key_set = s, !.under = w],
           h \in {t, None}, s \in BOOLEAN, w \in FileKeys, crypt_stat.holder \in {t, None},
           to \in AtInode <=> h = t, to \in {"set", "extent"} => s, s => w = "file key", crypt_stat.key_set => s,
           UNCHANGED <<listVars, sem, lower_file, init_failed, warned, bug>>
    PROVE  CiphersIInv'
<1>1. op[t].pc \in DoesIo /\ to \in DoesIo
  BY DEF DoesIo
<1>2. /\ CiphersTyped /\ IoBy(t) /\ op[t] \in Op /\ KeyOfInode /\ LowerSealed
      /\ op[t].kind \in {"read", "write"} /\ op[t].keys \subseteq {op[t].token}
      /\ op[t].page \in Pages /\ crypt_stat.valid /\ crypt_stat.tfm # None
  BY <1>1, AtPage
<1>3. Only(t) /\ op'[t] = [op[t] EXCEPT !.pc = to]
  BY <1>1, <1>2, WentTo
<1>4. op'[t].pc = to /\ op'[t].kind = op[t].kind /\ op'[t].page = op[t].page /\ op'[t].temp = op[t].temp
      /\ op'[t].keys = op[t].keys /\ op'[t].token = op[t].token
  BY <1>2, <1>3 DEF Op
<1>5. /\ crypt_stat'.holder = h /\ crypt_stat'.key_set = s /\ crypt_stat'.under = w
      /\ crypt_stat'.valid = crypt_stat.valid /\ crypt_stat'.tfm = crypt_stat.tfm /\ crypt_stat'.root = crypt_stat.root
      /\ crypt_stat' \in [tfm : {None, "gaes_ecb"}, valid : BOOLEAN, root : Roots, key_set : BOOLEAN,
                          holder : Users \cup {None}, under : FileKeys]
  BY <1>2 DEF CiphersTyped
<1>6. KeyOfInode' /\ LowerSealed'
  BY <1>2, <1>5, LowerStillSealed DEF KeyOfInode
<1>7. IoBy(t)'
  <2>1. \A x, p, e : Sealed(x, p, e) => Sealed(x, p, e)'
    BY DEF Sealed
  <2>2. to # "page" /\ from # "page" /\ to \in DoesIo
    BY DEF InPage, AtInode, DoesIo
  <2>3. (op[t].kind = "write" => \A e \in 0..Len(op[t].temp)-1 : Sealed(op[t].temp[e + 1], op[t].page, e))'
    BY <1>2, <1>4, <2>1 DEF IoBy
  <2>4. Len(op'[t].temp) < PerPage
    BY <1>2, <1>4, <2>2 DEF IoBy
  <2>5. op'[t].kind = "read" =>
          /\ lower_file'.page[op'[t].page] # << >>
          /\ \A e \in 0..Len(op'[t].temp)-1 : warned' \/ op'[t].temp[e + 1] = <<op'[t].page, e>>
    BY <1>2, <1>4 DEF IoBy
  <2>6. op'[t].pc \in AtInode <=> crypt_stat'.holder = t
    BY <1>4, <1>5
  <2>7. op'[t].pc \in {"set", "extent"} => crypt_stat'.key_set
    BY <1>4, <1>5
  <2>8. op'[t].kind \in {"read", "write"} /\ op'[t].pc \in DoesIo /\ op'[t].pc # "page"
        /\ crypt_stat'.valid /\ crypt_stat'.tfm # None /\ op'[t].page \in Pages
    BY <1>2, <1>4, <1>5, <2>2
  <2>. QED  BY <2>3, <2>4, <2>5, <2>6, <2>7, <2>8 DEF IoBy
<1>8. \A u \in Users \ {t} : crypt_stat'.holder = u <=> crypt_stat.holder = u
  BY <1>5, Distinct
<1>. QED  BY <1>1, <1>2, <1>3, <1>4, <1>5, <1>6, <1>7, <1>8, PageKeeps DEF CiphersTyped

LEMMA InodeMutexKeeps ==
    ASSUME CiphersIInv, NEW t \in Users, lock_inode_tfm(t) \/ set_inode_key(t) \/ unlock_inode_tfm(t)
    PROVE  CiphersIInv'
<1>1. KeyOfInode /\ IoBy(t) /\ CiphersTyped
  BY DEF CiphersIInv, Inode
<1>2. crypt_stat.key_set \in BOOLEAN /\ crypt_stat.under \in FileKeys
  BY <1>1 DEF CiphersTyped
<1>. DEFINE Changed(h, s, w) == [crypt_stat EXCEPT !.holder = h, !.key_set = s, !.under = w]
<1>3. \A h : [crypt_stat EXCEPT !.holder = h] = Changed(h, crypt_stat.key_set, crypt_stat.under)
  BY <1>1 DEF CiphersTyped
<1>4. CASE lock_inode_tfm(t)
  <2>1. PICK to \in AtInode : (to = "set" => crypt_stat.key_set) /\ Goto(t, to)
    BY <1>4 DEF lock_inode_tfm, AtInode
  <2>2. op[t].pc = "mutex" /\ crypt_stat.holder = None /\ crypt_stat' = [crypt_stat EXCEPT !.holder = t]
        /\ UNCHANGED <<listVars, sem, lower_file, init_failed, warned, bug>>
    BY <1>4 DEF lock_inode_tfm
  <2>3. to \in InPage /\ "mutex" \in InPage /\ to # "extent"
    BY <2>1 DEF InPage, AtInode
  <2>4. crypt_stat' = Changed(t, crypt_stat.key_set, crypt_stat.under)
    BY <1>3, <2>2
  <2>. QED  BY <1>1, <1>2, <2>1, <2>2, <2>3, <2>4, MutexKeeps DEF KeyOfInode
<1>5. CASE set_inode_key(t)
  <2>1. op[t].pc = "unset" /\ crypt_stat' = [crypt_stat EXCEPT !.under = "file key", !.key_set = TRUE] /\ Goto(t, "set")
        /\ UNCHANGED <<listVars, sem, lower_file, init_failed, warned, bug>>
    BY <1>5 DEF set_inode_key
  <2>2. crypt_stat.holder = t
    BY <1>1, <2>1 DEF IoBy, AtInode
  <2>3. crypt_stat' = Changed(t, TRUE, "file key")
    BY <1>1, <2>1, <2>2 DEF CiphersTyped
  <2>4. "unset" \in InPage /\ "set" \in InPage /\ "set" \in AtInode /\ "file key" \in FileKeys
    BY DEF InPage, AtInode, FileKeys
  <2>. QED  BY <2>1, <2>2, <2>3, <2>4, MutexKeeps
<1>6. CASE unlock_inode_tfm(t)
  <2>1. op[t].pc = "set" /\ crypt_stat' = [crypt_stat EXCEPT !.holder = None] /\ Goto(t, "extent")
        /\ UNCHANGED <<listVars, sem, lower_file, init_failed, warned, bug>>
    BY <1>6 DEF unlock_inode_tfm
  <2>2. crypt_stat.holder = t /\ crypt_stat.key_set
    BY <1>1, <2>1 DEF IoBy, AtInode
  <2>3. crypt_stat' = Changed(None, crypt_stat.key_set, crypt_stat.under)
    BY <1>3, <2>1
  <2>4. "extent" \in InPage /\ "set" \in InPage /\ "extent" \notin AtInode /\ None # t
    BY Distinct DEF InPage, AtInode
  <2>. QED  BY <1>1, <1>2, <2>1, <2>2, <2>3, <2>4, MutexKeeps DEF KeyOfInode
<1>. QED  BY <1>4, <1>5, <1>6

(* A task at a page ends there.                                            *)
LEMMA EndsAtPageKeeps ==
    ASSUME CiphersIInv, NEW t \in Users, op[t].pc \in DoesIo, Ends(t),
           UNCHANGED <<listVars, init_failed, warned, bug>>,
           crypt_stat' = [crypt_stat EXCEPT !.holder = IF @ = t THEN None ELSE @],
           lower_file' \in [header : BOOLEAN, page : [Pages -> Seq(Octets)]],
           \A q \in Pages : lower_file.page[q] # << >> => lower_file'.page[q] # << >>,
           LowerSealed'
    PROVE  CiphersIInv'
<1>1. /\ CiphersTyped /\ IoBy(t) /\ op[t] \in Op /\ KeyOfInode /\ LowerSealed
      /\ op[t].page \in Pages /\ crypt_stat.valid /\ crypt_stat.tfm # None
  BY AtPage
<1>2. /\ Only(t) /\ op'[t] = Idle
      /\ sem' \in [Tokens -> Users \cup {None}]
      /\ \A k \in Tokens : sem'[k] # t /\ (sem'[k] = sem[k] \/ sem'[k] = None)
  BY <1>1, Ended
<1>. DEFINE h == IF crypt_stat.holder = t THEN None ELSE crypt_stat.holder
<1>3. crypt_stat' = [crypt_stat EXCEPT !.holder = h] /\ h \in Users \cup {None} /\ h # t
      /\ \A u \in Users \ {t} : h = u <=> crypt_stat.holder = u
  BY <1>1, Distinct DEF CiphersTyped
<1>. HIDE DEF h
<1>4. /\ crypt_stat'.holder = h /\ crypt_stat'.key_set = crypt_stat.key_set /\ crypt_stat'.under = crypt_stat.under
      /\ crypt_stat'.valid = crypt_stat.valid /\ crypt_stat'.tfm = crypt_stat.tfm /\ crypt_stat'.root = crypt_stat.root
      /\ crypt_stat' \in [tfm : {None, "gaes_ecb"}, valid : BOOLEAN, root : Roots, key_set : BOOLEAN,
                          holder : Users \cup {None}, under : FileKeys]
  BY <1>1, <1>3 DEF CiphersTyped
<1>5. KeyOfInode'
  BY <1>1, <1>4 DEF KeyOfInode
<1>6. op'[t].pc = "idle" /\ op'[t].kind = "none" /\ op'[t].keys = {}
  BY <1>2 DEF Idle
<1>7. IoBy(t)'
  BY <1>3, <1>4, <1>6 DEF IoBy, DoesIo, InPage, AtInode
<1>8. bug' \in BOOLEAN
  BY <1>1 DEF CiphersTyped
<1>. QED  BY <1>1, <1>2, <1>3, <1>4, <1>5, <1>6, <1>7, <1>8, PageKeeps

LEMMA CryptFailsKeeps ==
    ASSUME CiphersIInv, NEW t \in Users, crypt_fails(t)
    PROVE  CiphersIInv'
<1>1. op[t].pc \in AtInode /\ crypt_stat' = [crypt_stat EXCEPT !.holder = None] /\ Ends(t)
      /\ UNCHANGED <<listVars, lower_file, init_failed, warned, bug>>
  BY DEF crypt_fails, AtInode
<1>2. op[t].pc \in DoesIo
  BY <1>1 DEF DoesIo, InPage
<1>3. CiphersTyped /\ IoBy(t) /\ LowerSealed
  BY <1>2, AtPage
<1>4. crypt_stat.holder = t
  BY <1>1, <1>3 DEF IoBy
<1>5. crypt_stat' = [crypt_stat EXCEPT !.holder = IF @ = t THEN None ELSE @]
  BY <1>1, <1>3, <1>4 DEF CiphersTyped
<1>6. LowerSealed'
  BY <1>1, <1>3, LowerStillSealed
<1>. QED  BY <1>1, <1>2, <1>3, <1>5, <1>6, EndsAtPageKeeps DEF CiphersTyped

LEMMA PageDoneKeeps ==
    ASSUME CiphersIInv, NEW t \in Users, page_done(t)
    PROVE  CiphersIInv'
<1>1. op[t].pc = "page" /\ Ends(t) /\ UNCHANGED <<listVars, crypt_stat, init_failed, warned, bug>>
  BY DEF page_done
<1>2. op[t].pc \in DoesIo
  BY <1>1 DEF DoesIo
<1>3. /\ CiphersTyped /\ IoBy(t) /\ op[t] \in Op /\ LowerSealed /\ op[t].page \in Pages
  BY <1>2, AtPage
<1>4. crypt_stat.holder # t
  BY <1>1, <1>3 DEF IoBy, AtInode
<1>5. crypt_stat' = [crypt_stat EXCEPT !.holder = IF @ = t THEN None ELSE @]
  BY <1>1, <1>3, <1>4 DEF CiphersTyped
<1>6. CASE op[t].kind = "write"
  <2>. DEFINE p == op[t].page
              s == op[t].temp
  <2>1. lower_file' = [lower_file EXCEPT !.page[p] = s]
    BY <1>6 DEF page_done
  <2>2. s \in Seq(Octets) /\ Len(s) = PerPage /\ s # << >> /\ \A e \in 0..Len(s)-1 : Sealed(s[e + 1], p, e)
    <3>1. s \in Seq(Octets) /\ Len(s) = PerPage /\ \A e \in 0..Len(s)-1 : Sealed(s[e + 1], p, e)
      BY <1>1, <1>3, <1>6 DEF IoBy, Op
    <3>2. Len(s) # 0
      BY <3>1, Distinct
    <3>. HIDE DEF s
    <3>. QED  BY <3>1, <3>2
  <2>3. p \in Pages
    BY <1>3
  <2>. HIDE DEF p, s
  <2>4. lower_file' \in [header : BOOLEAN, page : [Pages -> Seq(Octets)]] /\ lower_file'.page[p] = s
        /\ \A q \in Pages \ {p} : lower_file'.page[q] = lower_file.page[q]
    BY <1>3, <2>1, <2>2, <2>3 DEF CiphersTyped
  <2>5. LowerSealed'
    <3>1. \A x, q, e : Sealed(x, q, e) => Sealed(x, q, e)'
      BY <1>1 DEF Sealed
    <3>2. \A e \in Extents : Sealed(s[e + 1], p, e)
      BY <2>2 DEF Extents
    <3>3. ASSUME NEW q \in Pages, lower_file'.page[q] # << >>
          PROVE  /\ Len(lower_file'.page[q]) = PerPage
                 /\ \A e \in Extents : Sealed(lower_file'.page[q][e + 1], q, e)
      BY <1>3, <2>2, <2>4, <3>2, <3>3 DEF LowerSealed
    <3>. QED  BY <3>1, <3>3 DEF LowerSealed
  <2>. QED  BY <1>1, <1>2, <1>5, <2>2, <2>4, <2>5, EndsAtPageKeeps
<1>7. CASE op[t].kind # "write"
  <2>1. lower_file' = lower_file
    BY <1>7 DEF page_done
  <2>2. LowerSealed'
    BY <1>1, <1>3, <2>1, LowerStillSealed
  <2>. QED  BY <1>1, <1>2, <1>3, <1>5, <2>1, <2>2, EndsAtPageKeeps DEF CiphersTyped
<1>. QED  BY <1>6, <1>7

LEMMA Appended ==
    ASSUME NEW S, NEW s \in Seq(S), NEW x \in S
    PROVE  /\ Append(s, x) \in Seq(S) /\ Len(Append(s, x)) = Len(s) + 1 /\ Append(s, x)[Len(s) + 1] = x
           /\ \A i \in 1..Len(s) : Append(s, x)[i] = s[i]
<1>. QED  OBVIOUS

LEMMA VectorIsNat ==
    ASSUME NEW p \in Nat, NEW e \in Nat, NEW n \in Nat
    PROVE  p * n + e \in Nat
<1>. QED  OBVIOUS

LEMMA ExtentKeeps ==
    ASSUME CiphersIInv, NEW t \in Users, crypt_extent(t)
    PROVE  CiphersIInv'
<1>a. PICK s, p, e : s = op[t].temp /\ p = op[t].page /\ e = Len(s)
  OBVIOUS
<1>b. PICK x : x = IF op[t].kind = "write" THEN Encryption(t, e) ELSE Decryption(t, e)
  OBVIOUS
<1>c. PICK r, pc : r = Append(s, x) /\ pc = IF e + 1 < PerPage THEN "mutex" ELSE "page"
  OBVIOUS
<1>1. op[t].pc = "extent" /\ op' = [op EXCEPT ![t].temp = r, ![t].pc = pc]
      /\ UNCHANGED <<listVars, sem, inodeVars>>
  BY <1>a, <1>b, <1>c DEF crypt_extent
<1>2. op[t].pc \in DoesIo
  BY <1>1 DEF DoesIo, InPage
<1>3. /\ CiphersTyped /\ IoBy(t) /\ op[t] \in Op /\ KeyOfInode /\ LowerSealed
      /\ op[t].kind \in {"read", "write"} /\ op[t].keys \subseteq {op[t].token}
      /\ p \in Pages /\ crypt_stat.valid /\ crypt_stat.tfm # None
  BY <1>2, <1>a, AtPage
<1>4. s \in Seq(Octets) /\ e \in Extents /\ e \in Nat /\ p \in Nat /\ PerPage \in Nat /\ crypt_stat.key_set
      /\ crypt_stat.under = "file key" /\ e < PerPage
  <2>1. s \in Seq(Octets) /\ PerPage \in Nat /\ p \in Nat
    BY <1>3, <1>a, Distinct DEF Op
  <2>2. e < PerPage /\ crypt_stat.key_set /\ crypt_stat.under = "file key"
    BY <1>1, <1>3, <1>a DEF IoBy, InPage, KeyOfInode
  <2>3. e \in Nat
    BY <2>1, <1>a
  <2>. QED  BY <2>1, <2>2, <2>3, Distinct
<1>4a. e \in Nat /\ PerPage \in Nat /\ e < PerPage
  BY <1>4
<1>4b. s \in Seq(Octets)
  BY <1>4
<1>5. crypt_stat.root \in Roots /\ (~warned => crypt_stat.root = "hash of the key")
  BY <1>3 DEF CiphersTyped, KeyOfInode
<1>6. op[t].kind = "write" => x \in Octets /\ Sealed(x, p, e)
  <2>1. SUFFICES ASSUME op[t].kind = "write" PROVE x \in Octets /\ Sealed(x, p, e)
    OBVIOUS
  <2>2. x = [key |-> "file key", iv |-> <<crypt_stat.root, p * PerPage + e>>, data |-> <<p, e>>]
    BY <1>4, <1>a, <1>b, <2>1 DEF Encryption, Vector
  <2>3. p * PerPage + e \in Nat
    BY <1>4, VectorIsNat
  <2>4. x \in Encryptions
    BY <1>3, <1>4, <1>5, <2>2, <2>3 DEF Encryptions, FileKeys
  <2>. QED  BY <1>5, <2>2, <2>4 DEF Sealed, Octets
<1>7. op[t].kind = "read" => x \in Octets /\ (warned \/ x = <<p, e>>)
  <2>1. SUFFICES ASSUME op[t].kind = "read" PROVE x \in Octets /\ (warned \/ x = <<p, e>>)
    OBVIOUS
  <2>2. lower_file.page[p] # << >>
    BY <1>3, <1>a, <2>1 DEF IoBy
  <2>. DEFINE y == lower_file.page[p][e + 1]
  <2>3. Sealed(y, p, e)
    BY <1>3, <1>4, <2>2 DEF LowerSealed
  <2>4. x = IF y.key = crypt_stat.under /\ y.iv = <<crypt_stat.root, p * PerPage + e>> THEN y.data ELSE None
    BY <1>a, <1>b, <2>1 DEF Decryption, Vector
  <2>. HIDE DEF y
  <2>5. PICK root \in Roots : /\ y = [key |-> "file key", iv |-> <<root, p * PerPage + e>>, data |-> <<p, e>>]
                              /\ ~warned => root = "hash of the key"
    BY <2>3 DEF Sealed
  <2>6. x \in {<<p, e>>, None}
    BY <2>4, <2>5
  <2>7. ~warned => x = <<p, e>>
    BY <1>4, <1>5, <2>4, <2>5
  <2>8. <<p, e>> \in Octets /\ None \in Octets
    BY <1>3, <1>4 DEF Octets
  <2>. QED  BY <2>6, <2>7, <2>8
<1>8. x \in Octets
  BY <1>3, <1>6, <1>7
<1>9. r \in Seq(Octets) /\ Len(r) = e + 1 /\ r[e + 1] = x /\ \A i \in 1..e : r[i] = s[i]
  BY <1>4b, <1>8, <1>a, <1>c, Appended
<1>10. pc \in {"mutex", "page"} /\ (pc = "mutex" => e + 1 < PerPage) /\ (pc = "page" => e + 1 = PerPage)
  BY <1>4a, <1>c
<1>11. op' = [op EXCEPT ![t] = [op[t] EXCEPT !.temp = r, !.pc = pc]]
  BY <1>1, <1>3 DEF CiphersTyped
<1>12. [op[t] EXCEPT !.temp = r, !.pc = pc] \in Op
  BY <1>3, <1>9, <1>10 DEF Op, DoesIo, InPage
<1>13. Only(t) /\ op'[t] = [op[t] EXCEPT !.temp = r, !.pc = pc]
  BY <1>3, <1>11, <1>12, GoesOn
<1>14. op'[t].pc = pc /\ op'[t].kind = op[t].kind /\ op'[t].page = p /\ op'[t].temp = r
       /\ op'[t].keys = op[t].keys /\ op'[t].token = op[t].token
  BY <1>3, <1>13, <1>a DEF Op
<1>15. \A i \in 0..e : (i \in 0..e-1 /\ r[i + 1] = s[i + 1]) \/ (i = e /\ r[i + 1] = x)
  <2>1. \A i \in 0..e : (i \in 0..e-1 /\ i + 1 \in 1..e) \/ i = e
    BY <1>4a
  <2>2. (\A i \in 1..e : r[i] = s[i]) /\ r[e + 1] = x
    BY <1>9
  <2>. QED  BY <2>1, <2>2
<1>16. 0..Len(r)-1 = 0..e
  <2>1. Len(r) - 1 = e
    BY <1>4a, <1>9
  <2>. QED  BY <2>1
<1>17. op[t].kind = "write" => \A i \in 0..e : Sealed(r[i + 1], p, i)
  BY <1>3, <1>6, <1>15, <1>a DEF IoBy
<1>18. op[t].kind = "read" => \A i \in 0..e : warned \/ r[i + 1] = <<p, i>>
  BY <1>3, <1>7, <1>15, <1>a DEF IoBy
<1>19. pc \in DoesIo /\ pc \notin AtInode /\ pc \notin {"set", "extent"} /\ (pc \in InPage <=> pc = "mutex")
  BY <1>10 DEF DoesIo, InPage, AtInode
<1>20. crypt_stat.holder # t /\ (op[t].kind = "read" => lower_file.page[p] # << >>)
  BY <1>1, <1>3, <1>a DEF IoBy, AtInode
<1>21. IoBy(t)'
  <2>1. \A y, q, i : Sealed(y, q, i) => Sealed(y, q, i)'
    BY <1>1 DEF Sealed, inodeVars
  <2>2. (op[t].kind = "write" => \A i \in 0..Len(op[t].temp)-1 : Sealed(op[t].temp[i + 1], op[t].page, i))'
    BY <1>14, <1>16, <1>17, <2>1
  <2>3. op'[t].kind = "read" =>
          /\ lower_file'.page[op'[t].page] # << >>
          /\ \A i \in 0..Len(op'[t].temp)-1 : warned' \/ op'[t].temp[i + 1] = <<op'[t].page, i>>
    BY <1>1, <1>14, <1>16, <1>18, <1>20 DEF inodeVars
  <2>4. op'[t].pc \in AtInode <=> crypt_stat'.holder = t
    BY <1>1, <1>14, <1>19, <1>20 DEF inodeVars
  <2>5. /\ op'[t].pc \in InPage => Len(op'[t].temp) < PerPage
        /\ op'[t].pc = "page" => Len(op'[t].temp) = PerPage
        /\ op'[t].pc \notin {"set", "extent"}
    BY <1>9, <1>10, <1>14, <1>19
  <2>6. op'[t].kind \in {"read", "write"} /\ op'[t].pc \in DoesIo
        /\ crypt_stat'.valid /\ crypt_stat'.tfm # None /\ op'[t].page \in Pages
    BY <1>1, <1>3, <1>14, <1>19 DEF inodeVars
  <2>. QED  BY <2>2, <2>3, <2>4, <2>5, <2>6 DEF IoBy
<1>22. LowerSealed' /\ KeyOfInode'
  BY <1>1, <1>3, LowerStillSealed DEF inodeVars, KeyOfInode
<1>. QED  BY <1>1, <1>2, <1>3, <1>13, <1>14, <1>19, <1>21, <1>22, PageKeeps DEF CiphersTyped, inodeVars

-----------------------------------------------------------------------------
LEMMA CiphersInitHolds == CiphersInit => CiphersIInv
<1>. SUFFICES ASSUME CiphersInit PROVE CiphersIInv
  OBVIOUS
<1>1. \A t \in Users : op[t] = Idle
  BY DEF CiphersInit
<1>2. crypt_stat = Fresh /\ key_tfm_list = << >> /\ key_tfm_list_mutex = None
      /\ sem = [k \in Tokens |-> None] /\ ~bug /\ ~init_failed /\ ~warned
      /\ lower_file = [header |-> FALSE, page |-> [p \in Pages |-> << >>]]
  BY DEF CiphersInit
<1>3. CiphersTyped
  <2>1. op \in [Users -> Op]
    BY IdleTyped DEF CiphersInit
  <2>2. crypt_stat \in [tfm : {None, "gaes_ecb"}, valid : BOOLEAN, root : Roots, key_set : BOOLEAN,
                        holder : Users \cup {None}, under : FileKeys]
    BY <1>2 DEF Fresh, Roots, FileKeys
  <2>3. lower_file \in [header : BOOLEAN, page : [Pages -> Seq(Octets)]]
    BY <1>2
  <2>4. key_tfm_list \in Seq(Transform) /\ key_tfm_list_mutex \in Users \cup {None}
        /\ sem \in [Tokens -> Users \cup {None}]
    BY <1>2
  <2>5. init_failed = FALSE /\ warned = FALSE /\ bug = FALSE
    BY DEF CiphersInit
  <2>. QED  BY <2>1, <2>2, <2>3, <2>4, <2>5 DEF CiphersTyped
<1>4. OneEach /\ LowerSealed
  BY <1>2 DEF OneEach, LowerSealed
<1>5. KeyOfInode
  BY <1>2 DEF KeyOfInode, Fresh
<1>6. ASSUME NEW t \in Users PROVE SharedBy(t)
  BY <1>1, <1>2, Distinct DEF Idle, SharedBy, Shares, OnList, AtTransform
<1>7. ASSUME NEW t \in Users PROVE IoBy(t)
  BY <1>1, <1>2, Distinct DEF Idle, Fresh, IoBy, DoesIo, InPage, AtInode
<1>. QED  BY <1>3, <1>4, <1>5, <1>6, <1>7 DEF CiphersIInv, Inode

LEMMA CiphersStutter ==
    ASSUME CiphersIInv, UNCHANGED cipherVars
    PROVE  CiphersIInv'
<1>1. UNCHANGED listVars /\ UNCHANGED inodeVars /\ op' = op /\ sem' = sem
  BY DEF cipherVars, listVars, inodeVars
<1>2. CiphersTyped'
  BY <1>1 DEF CiphersIInv, CiphersTyped, listVars, inodeVars
<1>3. OneEach' /\ KeyOfInode' /\ LowerSealed'
  BY <1>1, LowerStillSealed DEF CiphersIInv, Inode, OneEach, KeyOfInode, listVars, inodeVars
<1>4. ASSUME NEW u \in Users PROVE SharedBy(u)'
  BY <1>1 DEF CiphersIInv, SharedBy, listVars, Found
<1>5. ASSUME NEW u \in Users PROVE IoBy(u)'
  <2>1. IoBy(u)
    BY DEF CiphersIInv, Inode
  <2>2. op[u].pc \in DoesIo => crypt_stat.valid /\ crypt_stat.tfm # None
    BY <2>1 DEF IoBy
  <2>. QED  BY <1>1, <2>1, <2>2, OthersIo DEF inodeVars
<1>. QED  BY <1>2, <1>3, <1>4, <1>5 DEF CiphersIInv, Inode

LEMMA CiphersStepKeeps == CiphersIInv /\ [CiphersNext]_cipherVars => CiphersIInv'
<1>. SUFFICES ASSUME CiphersIInv, [CiphersNext]_cipherVars PROVE CiphersIInv'
  OBVIOUS
<1>1. CASE UNCHANGED cipherVars
  BY <1>1, CiphersStutter
<1>2. ASSUME NEW t \in Users, NEW a \in Names, NEW b \in Names, mount(t, <<a>>) \/ mount(t, <<a, b>>)
      PROVE  CiphersIInv'
  <2>1. /\ <<a>> \in Seq(Names) /\ <<a>> # << >>
        /\ <<a, b>> \in Seq(Names) /\ <<a, b>> # << >>
    OBVIOUS
  <2>. QED  BY <1>2, <2>1, MountKeeps
<1>3. ASSUME NEW t \in Users,
             \/ find_auth_tok(t) \/ lock_list(t) \/ tfm_exists(t) \/ add_new_key_tfm(t) \/ add_fails(t) \/ unlock_list(t)
             \/ lock_tfm(t) \/ setkey(t) \/ crypt_block(t) \/ unlock_tfm(t)
      PROVE  CiphersIInv'
  BY <1>3, FindKeeps, LockListKeeps, ExistsKeeps, AddKeeps, AddFailsKeeps, UnlockListKeeps,
     LockTfmKeeps, SetkeyKeeps, CryptBlockKeeps, UnlockTfmKeeps
<1>4. ASSUME NEW t \in Users,
             \/ new_file_context(t) \/ read_header(t) \/ destroy_crypt_stat
             \/ lock_inode_tfm(t) \/ set_inode_key(t) \/ crypt_fails(t) \/ unlock_inode_tfm(t)
             \/ crypt_extent(t) \/ page_done(t)
      PROVE  CiphersIInv'
  BY <1>4, NewContextKeeps, HeaderKeeps, DestroyKeeps, InodeMutexKeeps, CryptFailsKeeps, ExtentKeeps, PageDoneKeeps
<1>. QED  BY <1>1, <1>2, <1>3, <1>4, UseKeeps, PageIoKeeps DEF CiphersNext

(* The invariant the three properties follow from: who holds the list, a   *)
(* transform, a token or the inode is at the place in its operation where  *)
(* it does (SharedBy, IoBy), and what is on the lower file is sealed.      *)
THEOREM CiphersIInvAlways == CiphersSpec => []CiphersIInv
<1>. QED  BY CiphersInitHolds, CiphersStepKeeps, PTL DEF CiphersSpec

(* There is one transform for each cipher, and whoever uses it (keystore.c,*)
(* crypto.c) encrypts every block under the key it set itself, for any     *)
(* number of mounts and users.                                             *)
THEOREM KeysAlwaysOwn == CiphersSpec => []KeysOwn
<1>1. CiphersIInv => KeysOwn
  BY DEF CiphersIInv, OneEach, SharedBy, KeysOwn
<1>. QED  BY <1>1, CiphersIInvAlways, PTL

(* No two extents of a file have a number in common.                       *)
LEMMA ExtentNumbers ==
    ASSUME NEW n \in Nat, NEW p \in Nat, NEW q \in Nat, NEW d \in 0..n-1, NEW e \in 0..n-1,
           p * n + d = q * n + e
    PROVE  p = q /\ d = e
<1>1. ASSUME NEW a \in Nat, NEW b \in Nat, NEW i \in 0..n-1, NEW j \in 0..n-1, a < b
      PROVE  a * n + i < b * n + j
  <2>1. PICK c \in Nat : b = a + 1 + c
    <3>1. b - a - 1 \in Nat /\ b = a + 1 + (b - a - 1)
      BY <1>1
    <3>. QED  BY <3>1
  <2>2. b * n = a * n + n + c * n
    BY <2>1
  <2>3. c * n \in Nat /\ a * n \in Nat /\ b * n \in Nat
    OBVIOUS
  <2>. QED  BY <2>2, <2>3
<1>2. ~(p < q) /\ ~(q < p)
  <2>1. p * n + d \in Nat /\ q * n + e \in Nat
    OBVIOUS
  <2>. QED  BY <1>1, <2>1
<1>3. p = q
  BY <1>2
<1>4. p * n \in Nat
  OBVIOUS
<1>. QED  BY <1>3, <1>4

(* As long as the root vector of every key was computed, a page is read    *)
(* back as it was written; two extents of a file never have the same       *)
(* vector, and no page meets a missing transform unless a first open       *)
(* failed to get one (crypt_scatterlist, ecryptfs_derive_iv): for every    *)
(* size of file and of page, and any number of tasks.                      *)
THEOREM ExtentsAlwaysReadBack == CiphersSpec => []ExtentsReadBack
<1>1. ASSUME CiphersIInv PROVE ExtentsReadBack
  <2>1. ASSUME NEW t \in Users, NEW e \in Extents, op[t].kind = "read", e < Len(op[t].temp)
        PROVE  warned \/ op[t].temp[e + 1] = <<op[t].page, e>>
    <3>1. IoBy(t) /\ op[t].temp \in Seq(Octets)
      BY <1>1 DEF CiphersIInv, Inode, CiphersTyped, Op
    <3>2. e \in 0..Len(op[t].temp)-1
      BY <2>1, <3>1, Distinct
    <3>. QED  BY <2>1, <3>1, <3>2 DEF IoBy
  <2>2. ASSUME NEW p \in Pages, NEW q \in Pages, NEW d \in DOMAIN lower_file.page[p], NEW e \in DOMAIN lower_file.page[q],
               lower_file.page[p][d].iv = lower_file.page[q][e].iv
        PROVE  p = q /\ d = e
    <3>1. ASSUME NEW r \in Pages, NEW i \in DOMAIN lower_file.page[r]
          PROVE  i - 1 \in Extents /\ i \in Nat /\ \E root \in Roots : lower_file.page[r][i].iv = <<root, r * PerPage + (i - 1)>>
      <4>1. LowerSealed /\ lower_file.page[r] \in Seq(Octets)
        BY <1>1 DEF CiphersIInv, Inode, CiphersTyped
      <4>2. lower_file.page[r] # << >> /\ i \in 1..Len(lower_file.page[r])
        BY <3>1, <4>1
      <4>3. Len(lower_file.page[r]) = PerPage
        BY <4>1, <4>2 DEF LowerSealed
      <4>4. i - 1 \in Extents /\ i \in Nat /\ (i - 1) + 1 = i
        BY <4>2, <4>3, Distinct DEF Extents
      <4>5. Sealed(lower_file.page[r][(i - 1) + 1], r, i - 1)
        BY <4>1, <4>2, <4>4 DEF LowerSealed
      <4>6. Sealed(lower_file.page[r][i], r, i - 1)
        BY <4>4, <4>5
      <4>7. PICK v, x : v = r * PerPage + (i - 1) /\ x = lower_file.page[r][i]
        OBVIOUS
      <4>8. PICK root \in Roots : x = [key |-> "file key", iv |-> <<root, v>>, data |-> <<r, i - 1>>]
        BY <4>6, <4>7 DEF Sealed
      <4>9. x.iv = <<root, v>>
        BY <4>8
      <4>. QED  BY <4>4, <4>7, <4>9
    <3>2. p * PerPage + (d - 1) = q * PerPage + (e - 1)
      <4>1. PICK a \in Roots : lower_file.page[p][d].iv = <<a, p * PerPage + (d - 1)>>
        BY <3>1
      <4>2. PICK b \in Roots : lower_file.page[q][e].iv = <<b, q * PerPage + (e - 1)>>
        BY <3>1
      <4>3. ASSUME NEW x, NEW y, <<a, x>> = <<b, y>> PROVE x = y
        BY <4>3
      <4>4. <<a, p * PerPage + (d - 1)>> = <<b, q * PerPage + (e - 1)>>
        BY <2>2, <4>1, <4>2
      <4>. QED  BY <4>3, <4>4
    <3>3. d - 1 \in 0..PerPage-1 /\ e - 1 \in 0..PerPage-1 /\ d \in Nat /\ e \in Nat
      BY <3>1 DEF Extents
    <3>4. p = q /\ d - 1 = e - 1
      <4>1. PICK i, j, n : i = d - 1 /\ j = e - 1 /\ n = PerPage
        OBVIOUS
      <4>2. n \in Nat /\ p \in Nat /\ q \in Nat
        BY <4>1, Distinct
      <4>3. i \in 0..n-1 /\ j \in 0..n-1 /\ p * n + i = q * n + j
        BY <3>2, <3>3, <4>1
      <4>. QED  BY <4>1, <4>2, <4>3, ExtentNumbers
    <3>. QED  BY <3>3, <3>4
  <2>3. bug => init_failed
    BY <1>1 DEF CiphersIInv, Inode, KeyOfInode
  <2>. QED  BY <2>1, <2>2, <2>3 DEF ExtentsReadBack
<1>. QED  BY <1>1, CiphersIInvAlways, PTL

(* Whoever waits for a token waits for a task at the list or at a          *)
(* transform, whoever waits for the list or for a transform for one that   *)
(* runs: with every number of tasks, tokens and transforms, they never all *)
(* wait for each other.                                                    *)
THEOREM SomeoneAlwaysRuns == CiphersSpec => []SomeoneRuns
<1>1. ASSUME CiphersIInv PROVE SomeoneRuns
  <2>1. ASSUME NEW t \in Users, op[t].pc \in OnList \cup AtTransform \cup AtInode
        PROVE  op[t] # Idle /\ ~Waits(t)
    BY <2>1 DEF Idle, Waits, OnList, AtTransform, AtInode
  <2>2. CiphersTyped
    BY <1>1 DEF CiphersIInv
  <2>3. ASSUME key_tfm_list_mutex # None
        PROVE  \E u \in Users : op[u].pc \in OnList
    BY <1>1, <2>2, <2>3 DEF CiphersIInv, CiphersTyped, SharedBy
  <2>4. ASSUME NEW i \in DOMAIN key_tfm_list, key_tfm_list[i].holder # None
        PROVE  \E u \in Users : op[u].pc \in AtTransform
    <3>1. key_tfm_list[i].holder \in Users
      <4>1. key_tfm_list[i] \in Transform
        BY <2>2 DEF CiphersTyped
      <4>. QED  BY <2>4, <4>1 DEF Transform
    <3>. QED  BY <1>1, <3>1 DEF CiphersIInv, SharedBy
  <2>5. ASSUME crypt_stat.holder # None
        PROVE  \E u \in Users : op[u].pc \in AtInode
    <3>1. crypt_stat.holder \in Users
      BY <2>2, <2>5 DEF CiphersTyped
    <3>. QED  BY <1>1, <3>1 DEF CiphersIInv, Inode, IoBy
  <2>6. ASSUME NEW t \in Users, op[t] # Idle, op[t].pc # "sem"
        PROVE  \E u \in Users : op[u] # Idle /\ ~Waits(u)
    <3>1. CASE Waits(t)
      <4>1. SharedBy(t)
        BY <1>1 DEF CiphersIInv
      <4>2. CASE op[t].pc = "list"
        BY <2>1, <2>3, <3>1, <4>2 DEF Waits
      <4>3. CASE op[t].pc = "lock"
        <5>1. op[t].tfm \in DOMAIN key_tfm_list /\ key_tfm_list[op[t].tfm].holder # None
          BY <3>1, <4>1, <4>3 DEF Waits, SharedBy
        <5>. QED  BY <2>1, <2>4, <5>1
      <4>4. CASE op[t].pc = "mutex"
        BY <2>1, <2>5, <3>1, <4>4 DEF Waits
      <4>. QED  BY <2>6, <3>1, <4>2, <4>3, <4>4 DEF Waits
    <3>. QED  BY <2>6, <3>1
  <2>7. ASSUME NEW t \in Users, op[t].pc = "sem"
        PROVE  \E u \in Users : op[u] # Idle /\ ~Waits(u)
    <3>1. op[t] # Idle /\ op[t].token \in Tokens
      BY <1>1, <2>7 DEF Idle, CiphersIInv, SharedBy
    <3>2. CASE Waits(t)
      <4>1. PICK u \in Users : sem[op[t].token] = u
        BY <2>2, <2>7, <3>1, <3>2 DEF Waits, CiphersTyped
      <4>2. op[u].pc \in Shares
        BY <1>1, <3>1, <4>1 DEF CiphersIInv, SharedBy
      <4>3. op[u] # Idle /\ op[u].pc # "sem"
        BY <4>2 DEF Idle, Shares, OnList, AtTransform
      <4>. QED  BY <2>6, <4>3
    <3>. QED  BY <3>1, <3>2
  <2>. QED  BY <2>6, <2>7 DEF SomeoneRuns
<1>. QED  BY <1>1, CiphersIInvAlways, PTL

-----------------------------------------------------------------------------
(* Loading and mounting: what the module, a mount and the error paths hold *)
(* at each stage, and that the references to the keys are those that       *)
(* mounts hold.                                                            *)
MountSpec == MountInit /\ [][MountNext]_mountVars

Stats == {NoStat} \cup {Parsed(o) : o \in MountOptions \cup {<< >>}}
Things == {"sbi", "sb", "bdi", "private", "path", "inode", "root", "root_info"}
Stages == {"none", "options", "keys", "sget", "bdi", "path", "checks", "inode", "root", "root_info", "mounted",
           "umounted", "out_free", "out1", "out"}
MountRecord == [at : Stages, opts : MountOptions \cup {<< >>}, stat : Stats, holds : SUBSET Things, keys : Nat]

MountTyped ==
  /\ mnt \in [Mounts -> MountRecord]
  /\ refs \in [Sigs -> Int]
  /\ delayed \in BOOLEAN /\ in_use \in BOOLEAN

(* What a mount holds at a stage, and whether the keys are its own still.  *)
Base == {"sbi", "sb", "bdi", "private"}
Fit(at, h) ==
  /\ at \in {"options", "keys", "sget"} => h = {"sbi"}
  /\ at = "bdi" => h = {"sbi", "sb"}
  /\ at = "path" => h = Base
  /\ at \in {"checks", "inode"} => h = Base \cup {"path"}
  /\ at = "root" => h = Base \cup {"path", "inode"}
  /\ at = "root_info" => h = Base \cup {"path", "inode", "root"}
  /\ at = "mounted" => h = Things
  /\ at = "out_free" => h \in {Base \cup {"path"}, Base \cup {"path", "inode", "root"}}
  /\ at = "out1" => h \in {{"sbi", "sb"}, Base, Base \cup {"inode", "root"}}
  /\ at = "out" => h \in {{"sbi"}, {}}
  /\ at = "umounted" => h = {}

Holding(m) ==
  /\ mnt[m].at = "none" => mnt[m] = NoMount
  /\ mnt[m].at \in {"options", "umounted"} => mnt[m].keys = 0
  /\ mnt[m].at = "out" /\ mnt[m].holds = {} => mnt[m].keys = 0
  /\ Fit(mnt[m].at, mnt[m].holds)

(* Every key has as many references as mounts hold of it.                  *)
AllUses(s) == UNION {{m} \X Uses(m, s) : m \in Mounts}
RefsExact == \A s \in Sigs : refs[s] = Cardinality(AllUses(s))

(* How far the module is.                                                  *)
Before(n) == {Steps[j] : j \in 1..n-1}
Removes(what) == IF what = "messaging" THEN {"hash", "contexts", "miscdev"} ELSE {what}
Remains == IF init_failure = "contexts" THEN {"hash"} ELSE {}
Messaging == {"hash", "contexts", "miscdev"}
Downs == {"tfms", "messaging", "kthread", "sysfs", "fs", "caches"}

Out == undo = << >> /\ parts = Remains /\ opens = {}
Coming == /\ undo = << >> /\ init_failure = ""
          /\ \E n \in 1..9 : /\ parts = Before(n)
                             /\ opens # {} => n > 6
                             /\ (\E m \in Mounts : mnt[m].at # "none") => n = 9
Live == undo = << >> /\ init_failure = "" /\ parts = Before(9)
Going ==
  /\ undo \in Seq(Downs) /\ undo # << >> /\ undo[Len(undo)] = "caches"
  /\ \A p \in parts : p \in Remains \/ \E i \in DOMAIN undo : p \in Removes(undo[i])
  /\ Remains \subseteq parts
  /\ init_failure = "contexts" => \A i \in DOMAIN undo : undo[i] # "messaging"
  /\ opens # {} => init_failure = "fs" /\ (in_use \/ Messaging \subseteq parts)

ModuleAt ==
  /\ module \in {"out", "coming", "live", "going"}
  /\ module = "out" => Out
  /\ module = "coming" => Coming
  /\ module = "live" => Live
  /\ module = "going" => Going
  /\ module \in {"out", "going"} => \A m \in Mounts : mnt[m].at = "none"
  /\ in_use => module = "going" /\ init_failure = "fs"
  /\ delayed => "caches" \in parts

MountIInv == MountTyped /\ (\A m \in Mounts : Holding(m)) /\ RefsExact /\ ModuleAt

-----------------------------------------------------------------------------
LEMMA StepsAre ==
  /\ Len(Steps) = 8 /\ DOMAIN Steps = 1..8
  /\ Steps[1] = "caches" /\ Steps[2] = "sysfs" /\ Steps[3] = "kthread" /\ Steps[4] = "hash"
  /\ Steps[5] = "contexts" /\ Steps[6] = "miscdev" /\ Steps[7] = "tfms" /\ Steps[8] = "fs"
  BY DEF Steps

LEMMA BeforeIs ==
  ASSUME NEW n \in 1..9, NEW j \in 1..8
  PROVE  Steps[j] \in Before(n) <=> j < n
<1>1. \A i \in 1..8 : Steps[i] = Steps[j] => i = j
  BY StepsAre
<1>2. Steps[j] \in Before(n) <=> \E i \in 1..n-1 : Steps[i] = Steps[j]
  BY DEF Before
<1> QED BY <1>1, <1>2

(* What is set up names the step that comes next.                          *)
LEMMA NextStepIs ==
  ASSUME NEW n \in 1..9, parts = Before(n)
  PROVE  Next_step = n
<1> DEFINE Next(i) == \A j \in 1..8 : Steps[j] \in parts <=> j < i
<1>1. Next(n)
  BY BeforeIs
<1>2. \A i \in 1..9 : Next(i) => i = n
  <2> SUFFICES ASSUME NEW i \in 1..9, Next(i), i # n PROVE FALSE
    OBVIOUS
  <2>1. CASE i < n
    BY <1>1, <2>1
  <2>2. CASE n < i
    BY <1>1, <2>2
  <2> QED BY <2>1, <2>2
<1>3. Next_step = CHOOSE i \in 1..9 : Next(i)
  <2>1. 1..Len(Steps)+1 = 1..9 /\ DOMAIN Steps = 1..8
    BY StepsAre
  <2> QED BY <2>1, Zenon DEF Next_step
<1> QED BY <1>1, <1>2, <1>3, Zenon

LEMMA BeforeMembers ==
  ASSUME NEW n \in 1..9
  PROVE  /\ "caches" \in Before(n) <=> n > 1
         /\ "hash" \in Before(n) <=> n > 4
         /\ "contexts" \in Before(n) <=> n > 5
         /\ "miscdev" \in Before(n) <=> n > 6
         /\ "fs" \in Before(n) <=> n > 8
  BY BeforeIs, StepsAre

LEMMA BeforeWhole == Before(9) = ToSet(Steps)
  BY StepsAre DEF Before, ToSet

LEMMA BeforeNext ==
  ASSUME NEW n \in 1..8
  PROVE  Before(n) \cup {Steps[n]} = Before(n + 1)
<1>1. 1..(n + 1) - 1 = (1..n - 1) \cup {n}
  OBVIOUS
<1> QED BY <1>1 DEF Before

LEMMA BeforeFirst == Before(1) = {}
  BY DEF Before

-----------------------------------------------------------------------------
(* References.                                                             *)
LEMMA UsesFinite ==
  ASSUME MountTyped, NEW m \in Mounts, NEW s
  PROVE  IsFiniteSet(Uses(m, s))
<1>1. mnt[m].keys \in Nat
  BY DEF MountTyped, MountRecord
<1>2. IsFiniteSet(1..mnt[m].keys)
  BY <1>1, FS_Interval
<1>3. Uses(m, s) \in SUBSET (1..mnt[m].keys)
  BY DEF Uses
<1> QED BY <1>2, <1>3, FS_Subset, Zenon

LEMMA AllUsesFinite ==
  ASSUME MountTyped, NEW s
  PROVE  IsFiniteSet(AllUses(s))
<1> DEFINE Of(m) == {m} \X Uses(m, s)
           Sets == {Of(m) : m \in Mounts}
           f == [m \in Mounts |-> Of(m)]
<1>1. \A m \in Mounts : IsFiniteSet({m} \X Uses(m, s))
  BY UsesFinite, FS_Singleton, FS_Product
<1>2. f \in Surjection(Mounts, Sets)
  BY DEF Surjection
<1>3. IsFiniteSet(Sets)
  BY <1>2, MountAssumption, FS_Surjection, Zenon
<1>4. \A T \in Sets : IsFiniteSet(T)
  BY <1>1
<1>5. IsFiniteSet(UNION Sets)
  BY <1>3, <1>4, FS_UNION, Zenon
<1> QED BY <1>5, Zenon DEF AllUses

LEMMA AllUsesAre ==
  ASSUME NEW s, NEW p
  PROVE  p \in AllUses(s) <=> \E m \in Mounts : \E k \in Uses(m, s) : p = <<m, k>>
BY DEF AllUses

LEMMA NoKeysNoUses ==
  ASSUME NEW m
  PROVE  /\ mnt[m].keys = 0 => \A s : Uses(m, s) = {}
         /\ mnt'[m].keys = 0 => \A s : Uses(m, s)' = {}
<1>1. 1..0 = {}
  OBVIOUS
<1> QED BY <1>1 DEF Uses

LEMMA RefsSame ==
  ASSUME RefsExact, refs' = refs, \A m \in Mounts, s \in Sigs : Uses(m, s)' = Uses(m, s)
  PROVE  RefsExact'
<1>1. \A s \in Sigs : AllUses(s)' = AllUses(s)
  <2> TAKE s \in Sigs
  <2>1. \A m \in Mounts : {m} \X Uses(m, s)' = {m} \X Uses(m, s)
    OBVIOUS
  <2> QED BY <2>1, Zenon DEF AllUses
<1> QED BY <1>1, Zenon DEF RefsExact

(* One key more of one mount.                                              *)
LEMMA RefsAdded ==
  ASSUME MountTyped, RefsExact, NEW m \in Mounts, NEW k, NEW sig,
         k \notin Uses(m, sig), \A s : Uses(m, s)' = IF s = sig THEN Uses(m, s) \cup {k} ELSE Uses(m, s),
         \A x \in Mounts \ {m}, s \in Sigs : Uses(x, s)' = Uses(x, s),
         refs' = [refs EXCEPT ![sig] = @ + 1]
  PROVE  RefsExact'
<1> SUFFICES ASSUME NEW s \in Sigs PROVE refs'[s] = Cardinality(AllUses(s)')
  BY Zenon DEF RefsExact
<1>1. refs[s] = Cardinality(AllUses(s)) /\ IsFiniteSet(AllUses(s))
  BY AllUsesFinite DEF RefsExact
<1>2. CASE s = sig
  <2>1. AllUses(s)' = AllUses(s) \cup {<<m, k>>}
    <3>1. \A p : p \in AllUses(s)' <=> \E x \in Mounts : \E i \in Uses(x, s)' : p = <<x, i>>
      BY DEF AllUses
    <3> QED BY <3>1, <1>2, AllUsesAre
  <2>2. <<m, k>> \notin AllUses(s)
    BY <1>2, AllUsesAre
  <2>3. Cardinality(AllUses(s) \cup {<<m, k>>}) = Cardinality(AllUses(s)) + 1
    BY <1>1, <2>2, FS_AddElement
  <2>4. refs'[s] = refs[s] + 1
    BY <1>2 DEF MountTyped
  <2> QED BY <1>1, <2>1, <2>3, <2>4
<1>3. CASE s # sig
  <2>1. \A x \in Mounts : {x} \X Uses(x, s)' = {x} \X Uses(x, s)
    BY <1>3
  <2>2. AllUses(s)' = AllUses(s)
    BY <2>1, Zenon DEF AllUses
  <2>3. refs'[s] = refs[s]
    BY <1>3 DEF MountTyped
  <2> QED BY <1>1, <2>2, <2>3
<1> QED BY <1>2, <1>3

(* All keys of one mount fewer.                                            *)
LEMMA RefsDropped ==
  ASSUME MountTyped, RefsExact, NEW m \in Mounts,
         \A s \in Sigs : Uses(m, s)' = {},
         \A x \in Mounts \ {m}, s \in Sigs : Uses(x, s)' = Uses(x, s),
         Drops(m, mnt[m].keys)
  PROVE  RefsExact'
<1> SUFFICES ASSUME NEW s \in Sigs PROVE refs'[s] = Cardinality(AllUses(s)')
  BY Zenon DEF RefsExact
<1> DEFINE P == {m} \X Uses(m, s)
<1>1. refs[s] = Cardinality(AllUses(s)) /\ IsFiniteSet(AllUses(s))
  BY AllUsesFinite DEF RefsExact
<1>2. refs'[s] = refs[s] - Cardinality(Uses(m, s))
  BY DEF Drops, Uses
<1>3. AllUses(s)' = AllUses(s) \ P
  <2>1. \A p : p \in AllUses(s)' <=> \E x \in Mounts : \E i \in Uses(x, s)' : p = <<x, i>>
    BY DEF AllUses
  <2> QED BY <2>1, AllUsesAre
<1>4. AllUses(s) \cap P = P
  BY AllUsesAre
<1>5. Cardinality(AllUses(s) \ P) = Cardinality(AllUses(s)) - Cardinality(P)
  <2>1. Cardinality(AllUses(s) \ P) = Cardinality(AllUses(s)) - Cardinality(AllUses(s) \cap P)
    BY <1>1, FS_Difference, Zenon
  <2> QED BY <1>4, <2>1, Zenon
<1>6. Cardinality(P) = Cardinality(Uses(m, s))
  <2>1. IsFiniteSet({m}) /\ Cardinality({m}) = 1
    BY FS_Singleton
  <2>2. IsFiniteSet(Uses(m, s)) /\ Cardinality(Uses(m, s)) \in Nat
    BY UsesFinite, FS_CardinalityType
  <2> QED BY <2>1, <2>2, FS_Product
<1> QED BY <1>1, <1>2, <1>3, <1>5, <1>6

-----------------------------------------------------------------------------
(* The mounts.                                                             *)
Alone(m) == \A x \in Mounts \ {m} : mnt'[x] = mnt[x]
Becomes(m, r) == mnt' = [mnt EXCEPT ![m] = r]

LEMMA BecomesIs ==
  ASSUME MountTyped, NEW m \in Mounts, NEW r \in MountRecord, Becomes(m, r)
  PROVE  /\ mnt' \in [Mounts -> MountRecord] /\ mnt'[m] = r /\ Alone(m)
         /\ \A x \in Mounts \ {m} : \A s : Uses(x, s)' = Uses(x, s)
         /\ (\A x \in Mounts : Holding(x)) => \A x \in Mounts \ {m} : Holding(x)'
<1>1. mnt' \in [Mounts -> MountRecord] /\ mnt'[m] = r /\ Alone(m)
  BY DEF MountTyped, Becomes, Alone
<1>2. ASSUME NEW x \in Mounts \ {m} PROVE (\A s : Uses(x, s)' = Uses(x, s)) /\ (Holding(x) => Holding(x)')
  <2>1. mnt'[x] = mnt[x]
    BY <1>1 DEF Alone
  <2> QED BY <2>1 DEF Uses, Holding
<1> QED BY <1>1, <1>2, Zenon

LEMMA GoesIs ==
  ASSUME MountTyped, NEW m \in Mounts, NEW at \in Stages, NEW h \in SUBSET Things, Goes(m, at, h)
  PROVE  \E r \in MountRecord : /\ Becomes(m, r)
                                /\ r.at = at /\ r.holds = h /\ r.keys = mnt[m].keys
                                /\ r.stat = mnt[m].stat /\ r.opts = mnt[m].opts
<1> DEFINE r == [mnt[m] EXCEPT !.at = at, !.holds = h]
<1>1. mnt[m] \in MountRecord
  BY DEF MountTyped
<1>2. r \in MountRecord /\ r.at = at /\ r.holds = h /\ r.keys = mnt[m].keys /\ r.stat = mnt[m].stat
      /\ r.opts = mnt[m].opts
  BY <1>1 DEF MountRecord
<1>3. Becomes(m, r)
  BY DEF Goes, Becomes, MountTyped
<1> QED BY <1>2, <1>3

(* The module stays as it is under an operation of a mount, which is only  *)
(* there when the module is.                                               *)
LEMMA ModuleKept ==
  ASSUME ModuleAt, UNCHANGED moduleVars, module \in {"coming", "live"}, module = "coming" => parts = Before(9),
         "caches" \in parts
  PROVE  ModuleAt'
<1>1. module' = module /\ parts' = parts /\ undo' = undo /\ opens' = opens /\ init_failure' = init_failure
      /\ in_use' = in_use
  BY DEF moduleVars
<1>2. CASE module = "coming"
  <2>1. Coming /\ undo = << >> /\ init_failure = ""
    BY <1>2 DEF ModuleAt, Coming
  <2>2. Coming'
    <3>1. parts' = Before(9)'
      BY <1>1, <1>2 DEF Before
    <3>2. undo' = << >> /\ init_failure' = ""
      BY <1>1, <2>1
    <3>3. \E n \in 1..9 : /\ parts' = {Steps[j] : j \in 1..n-1}
                          /\ opens' # {} => n > 6
                          /\ (\E m \in Mounts : mnt'[m].at # "none") => n = 9
      <4>1. 9 \in 1..9 /\ 9 > 6
        OBVIOUS
      <4>2. parts' = {Steps[j] : j \in 1..9-1}
        BY <3>1 DEF Before
      <4> QED BY <4>1, <4>2, Zenon
    <3> QED BY <3>2, <3>3, Zenon DEF Coming, Before
  <2> QED BY <1>1, <1>2, <2>2 DEF ModuleAt
<1>3. CASE module = "live"
  BY <1>1, <1>3 DEF ModuleAt, Live, Before
<1> QED BY <1>2, <1>3

LEMMA MountedModule ==
  ASSUME ModuleAt, NEW m \in Mounts, mnt[m].at # "none"
  PROVE  /\ module \in {"coming", "live"} /\ (module = "coming" => parts = Before(9))
         /\ parts = Before(9) /\ "caches" \in parts
<1>1. module \in {"coming", "live"}
  BY DEF ModuleAt
<1>2. parts = Before(9)
  BY <1>1 DEF ModuleAt, Coming, Live
<1> QED BY <1>1, <1>2, BeforeMembers

(* What every operation on one mount has to show.                          *)
LEMMA MountStep ==
  ASSUME MountIInv, NEW m \in Mounts, NEW r \in MountRecord, Becomes(m, r),
         UNCHANGED moduleVars, delayed' \in BOOLEAN, refs' \in [Sigs -> Int],
         module \in {"coming", "live"}, parts = Before(9),
         Holding(m)', RefsExact'
  PROVE  MountIInv'
<1>1. "caches" \in parts
  BY BeforeMembers
<1>2. ModuleAt'
  BY <1>1, ModuleKept DEF MountIInv
<1>3. MountTyped'
  BY BecomesIs DEF MountIInv, MountTyped, moduleVars
<1>4. \A x \in Mounts : Holding(x)'
  BY BecomesIs DEF MountIInv
<1> QED BY <1>2, <1>3, <1>4 DEF MountIInv

(* An operation that leaves the keys of the mount as they were.            *)
LEMMA MountStepKeys ==
  ASSUME MountIInv, NEW m \in Mounts, NEW r \in MountRecord, Becomes(m, r),
         UNCHANGED moduleVars, delayed' \in BOOLEAN, refs' = refs,
         module \in {"coming", "live"}, parts = Before(9),
         Holding(m)', \A s : Uses(m, s)' = Uses(m, s)
  PROVE  MountIInv'
<1>1. RefsExact'
  BY BecomesIs, RefsSame DEF MountIInv
<1> QED BY <1>1, MountStep DEF MountIInv, MountTyped

-----------------------------------------------------------------------------
(* One lemma per operation of a mount.                                     *)
LEMMA BeginKeeps ==
  ASSUME MountIInv, NEW m \in Mounts, NEW opts \in MountOptions, mount_begin(m, opts)
  PROVE  MountIInv'
<1> DEFINE r == [NoMount EXCEPT !.at = "options", !.opts = opts, !.holds = {"sbi"}]
<1>0. NoMount \in MountRecord /\ NoMount.keys = 0
  BY DEF NoMount, MountRecord, Stages, Things, Stats
<1>1. r.at = "options" /\ r.holds = {"sbi"} /\ r.keys = 0
  BY <1>0 DEF MountRecord
<1>2. r \in MountRecord
  BY <1>0 DEF MountRecord, Stages, Things
<1>3. Becomes(m, r) /\ refs' = refs /\ delayed' = delayed /\ UNCHANGED moduleVars
  BY DEF mount_begin, Becomes
<1>4. mnt'[m] = r
  BY <1>2, <1>3, BecomesIs DEF MountIInv
<1>5. mnt[m].keys = 0
  BY DEF mount_begin, At_stage, MountIInv, Holding, NoMount
<1>6. Holding(m)'
  BY <1>1, <1>4 DEF Holding, Fit
<1>7. \A s : Uses(m, s)' = Uses(m, s)
  BY <1>1, <1>4, <1>5, NoKeysNoUses
<1>8. module \in {"coming", "live"} /\ parts = Before(9)
  <2>1. "fs" \in parts /\ module \in {"coming", "live"}
    BY DEF mount_begin, Entered
  <2>2. CASE module = "live"
    BY <2>2 DEF MountIInv, ModuleAt, Live
  <2>3. CASE module = "coming"
    <3>1. PICK n \in 1..9 : parts = Before(n)
      BY <2>3 DEF MountIInv, ModuleAt, Coming
    <3>2. n > 8
      BY <2>1, <3>1, BeforeMembers
    <3> QED BY <2>1, <3>1, <3>2
  <2> QED BY <2>1, <2>2, <2>3
<1> HIDE DEF r
<1>9. delayed' \in BOOLEAN
  BY <1>3 DEF MountIInv, MountTyped
<1> QED BY <1>2, <1>3, <1>6, <1>7, <1>8, <1>9, MountStepKeys

LEMMA ParseKeeps ==
  ASSUME MountIInv, NEW m \in Mounts, parse_options(m)
  PROVE  MountIInv'
<1> DEFINE good == [mnt[m] EXCEPT !.at = "keys", !.stat = Parsed(mnt[m].opts), !.opts = << >>]
           wrong == [mnt[m] EXCEPT !.at = "out", !.opts = << >>]
<1>1. mnt[m] \in MountRecord /\ mnt[m].at = "options" /\ mnt[m].keys = 0 /\ mnt[m].holds = {"sbi"}
  BY DEF MountIInv, MountTyped, parse_options, At_stage, Holding, Fit
<1>2. good \in MountRecord /\ good.at = "keys" /\ good.keys = 0 /\ good.holds = {"sbi"}
  <2>1. Parsed(mnt[m].opts) \in Stats
    BY <1>1 DEF MountRecord, Stats
  <2> QED BY <1>1, <2>1 DEF MountRecord, Stages
<1>3. wrong \in MountRecord /\ wrong.at = "out" /\ wrong.keys = 0 /\ wrong.holds = {"sbi"}
  BY <1>1 DEF MountRecord, Stages
<1>4. PICK r \in MountRecord : /\ Becomes(m, r) /\ r.at \in {"keys", "out"} /\ r.keys = 0
                               /\ r.holds = {"sbi"}
  <2>1. CASE mnt' = [mnt EXCEPT ![m].at = "keys", ![m].stat = Parsed(mnt[m].opts), ![m].opts = << >>]
    <3>1. Becomes(m, good)
      BY <2>1 DEF Becomes, MountIInv, MountTyped
    <3> QED BY <1>2, <3>1
  <2>2. CASE mnt' = [mnt EXCEPT ![m].at = "out", ![m].opts = << >>]
    <3>1. Becomes(m, wrong)
      BY <2>2 DEF Becomes, MountIInv, MountTyped
    <3> QED BY <1>3, <3>1
  <2> QED BY <2>1, <2>2 DEF parse_options
<1>5. mnt'[m] = r
  BY <1>4, BecomesIs DEF MountIInv
<1>6. Holding(m)'
  BY <1>4, <1>5 DEF Holding, Fit
<1>7. \A s : Uses(m, s)' = Uses(m, s)
  BY <1>1, <1>4, <1>5, NoKeysNoUses
<1>8. module \in {"coming", "live"} /\ parts = Before(9)
  BY <1>1, MountedModule DEF MountIInv
<1>9. UNCHANGED moduleVars /\ refs' = refs /\ delayed' \in BOOLEAN
  BY DEF parse_options, MountIInv, MountTyped
<1> QED BY <1>4, <1>6, <1>7, <1>8, <1>9, MountStepKeys

(* A step that only changes where the mount is and what it holds.          *)
LEMMA GoesKeeps ==
  ASSUME MountIInv, NEW m \in Mounts, NEW at \in Stages \ {"none", "options", "umounted"},
         NEW h \in SUBSET Things, Goes(m, at, h), Fit(at, h), at = "out" => h # {},
         mnt[m].at # "none", UNCHANGED moduleVars, refs' = refs, delayed' \in BOOLEAN
  PROVE  MountIInv'
<1>1. PICK r \in MountRecord : /\ Becomes(m, r)
                               /\ r.at = at /\ r.holds = h /\ r.keys = mnt[m].keys /\ r.stat = mnt[m].stat
  BY GoesIs DEF MountIInv
<1>2. mnt'[m] = r
  BY <1>1, BecomesIs DEF MountIInv
<1>3. Holding(m)'
  BY <1>1, <1>2 DEF Holding
<1>4. \A s : Uses(m, s)' = Uses(m, s)
  BY <1>1, <1>2 DEF Uses
<1>5. module \in {"coming", "live"} /\ parts = Before(9)
  BY MountedModule DEF MountIInv
<1> QED BY <1>1, <1>3, <1>4, <1>5, MountStepKeys

LEMMA GetsKeeps ==
  ASSUME MountIInv, NEW m \in Mounts, NEW from \in Stages \ {"none"},
         NEW to \in Stages \ {"none", "options", "umounted"}, NEW what \in SUBSET Things,
         Gets(m, from, what, to),
         \A h \in SUBSET Things : Fit(from, h) => Fit(to, h \cup what) /\ (to = "out" => h # {}),
         UNCHANGED moduleVars, refs' = refs, delayed' \in BOOLEAN
  PROVE  MountIInv'
<1> DEFINE h == mnt[m].holds
<1>1. mnt[m] \in MountRecord /\ Holding(m)
  BY DEF MountIInv, MountTyped
<1>2. h \in SUBSET Things /\ Fit(from, h) /\ mnt[m].at = from
  BY <1>1 DEF MountRecord, Holding, Gets, At_stage
<1>3. Goes(m, to, h \cup what)
  BY DEF Gets
<1>4. Fit(to, h \cup what) /\ (to = "out" => h \cup what # {}) /\ h \cup what \in SUBSET Things
  BY <1>2
<1> HIDE DEF h
<1> QED BY <1>2, <1>3, <1>4, GoesKeeps

LEMMA StepKeeps ==
  ASSUME MountIInv, NEW m \in Mounts, mount_step(m)
  PROVE  MountIInv'
<1>1. delayed' \in BOOLEAN /\ refs' = refs /\ UNCHANGED moduleVars
  BY DEF mount_step, MountIInv, MountTyped
<1> USE <1>1 DEF Stages, Things, Fit, Base
<1>2. CASE Gets(m, "sget", {"sb"}, "bdi")
  BY <1>2, GetsKeeps
<1>3. CASE Gets(m, "sget", {}, "out")
  BY <1>3, GetsKeeps
<1>4. CASE Gets(m, "bdi", {"bdi", "private"}, "path")
  BY <1>4, GetsKeeps
<1>5. CASE Gets(m, "bdi", {}, "out1")
  BY <1>5, GetsKeeps
<1>6. CASE Gets(m, "path", {"path"}, "checks")
  BY <1>6, GetsKeeps
<1>7. CASE Gets(m, "path", {}, "out1")
  BY <1>7, GetsKeeps
<1>8. CASE Gets(m, "checks", {}, "inode")
  BY <1>8, GetsKeeps
<1>9. CASE Gets(m, "checks", {}, "out_free")
  BY <1>9, GetsKeeps
<1>10. CASE Gets(m, "inode", {"inode"}, "root")
  BY <1>10, GetsKeeps
<1>11. CASE Gets(m, "inode", {}, "out_free")
  BY <1>11, GetsKeeps
<1>12. CASE Gets(m, "root", {"root"}, "root_info")
  BY <1>12, GetsKeeps
<1>13. CASE Gets(m, "root_info", {"root_info"}, "mounted")
  <2>1. Base \cup {"path", "inode", "root"} \cup {"root_info"} = Things
    OBVIOUS
  <2>2. \A h : Fit("root_info", h) => Fit("mounted", h \cup {"root_info"})
    BY <2>1
  <2>3. "root_info" \in Stages \ {"none"} /\ "mounted" \in Stages \ {"none", "options", "umounted"}
        /\ {"root_info"} \in SUBSET Things /\ "mounted" # "out"
    OBVIOUS
  <2> HIDE DEF Stages, Things, Fit, Base
  <2> QED BY <1>13, <2>2, <2>3, GetsKeeps
<1>14. CASE Gets(m, "root_info", {}, "out_free")
  BY <1>14, GetsKeeps
<1> QED BY <1>2, <1>3, <1>4, <1>5, <1>6, <1>7, <1>8, <1>9, <1>10, <1>11, <1>12, <1>13, <1>14, Zenon DEF mount_step

LEMMA MakeRootFailsKeeps ==
  ASSUME MountIInv, NEW m \in Mounts, d_make_root_fails(m)
  PROVE  MountIInv'
<1> DEFINE h == Base \cup {"path"}
<1>1. mnt[m].at = "root" /\ mnt[m].holds \ {"inode"} = h
  BY DEF d_make_root_fails, At_stage, MountIInv, Holding, Fit, Base
<1>2. Goes(m, "out_free", h) /\ delayed' \in BOOLEAN /\ refs' = refs /\ UNCHANGED moduleVars
  BY <1>1 DEF d_make_root_fails
<1>3. "out_free" \in Stages \ {"none", "options", "umounted"} /\ h \in SUBSET Things /\ Fit("out_free", h)
  BY DEF Stages, Things, Base, Fit
<1> HIDE DEF h
<1> QED BY <1>1, <1>2, <1>3, GoesKeeps

LEMMA OutFreeKeeps ==
  ASSUME MountIInv, NEW m \in Mounts, out_free(m)
  PROVE  MountIInv'
<1>1. PICK h \in {Base, Base \cup {"inode", "root"}} : mnt[m].holds \ {"path"} = h
  BY DEF out_free, At_stage, MountIInv, Holding, Fit, Base
<1>2. Goes(m, "out1", h) /\ refs' = refs /\ delayed' \in BOOLEAN /\ mnt[m].at # "none" /\ UNCHANGED moduleVars
  BY <1>1 DEF out_free, At_stage, MountIInv, MountTyped
<1>3. "out1" \in Stages \ {"none", "options", "umounted"} /\ h \in SUBSET Things /\ Fit("out1", h)
  BY DEF Stages, Things, Base, Fit
<1> QED BY <1>2, <1>3, GoesKeeps

LEMMA UmountedKeeps ==
  ASSUME MountIInv, NEW m \in Mounts, umounted(m)
  PROVE  MountIInv'
<1>1. NoMount \in MountRecord /\ NoMount.keys = 0 /\ NoMount.holds = {}
  BY DEF NoMount, MountRecord, Stages, Things, Stats
<1>2. mnt[m].at = "umounted" /\ mnt[m].holds = {} /\ mnt[m].keys = 0
  BY DEF umounted, At_stage, MountIInv, Holding, Fit
<1>3. [NoMount EXCEPT !.holds = {}] = NoMount
  BY <1>1 DEF MountRecord
<1>4. Becomes(m, NoMount)
  BY <1>2, <1>3 DEF umounted, Becomes
<1>5. mnt'[m] = NoMount
  BY <1>1, <1>4, BecomesIs DEF MountIInv
<1>6. Holding(m)'
  BY <1>5 DEF Holding, NoMount, Fit
<1>7. \A s : Uses(m, s)' = Uses(m, s)
  BY <1>1, <1>2, <1>5, NoKeysNoUses
<1>8. module \in {"coming", "live"} /\ parts = Before(9)
  BY <1>2, MountedModule DEF MountIInv
<1>9. UNCHANGED moduleVars /\ refs' = refs /\ delayed' \in BOOLEAN
  BY DEF umounted, MountIInv, MountTyped
<1> QED BY <1>1, <1>4, <1>6, <1>7, <1>8, <1>9, MountStepKeys

(* The keys are let go at once.                                            *)
LEMMA DropsKeeps ==
  ASSUME MountIInv, NEW m \in Mounts, NEW r \in MountRecord, Becomes(m, r),
         mnt[m].at # "none", UNCHANGED moduleVars, delayed' \in BOOLEAN,
         r.keys = 0, Drops(m, mnt[m].keys), Holding(m)'
  PROVE  MountIInv'
<1>1. mnt'[m] = r
  BY BecomesIs DEF MountIInv
<1>2. RefsExact'
  <2>1. \A s \in Sigs : Uses(m, s)' = {}
    BY <1>1, NoKeysNoUses
  <2> QED BY <2>1, BecomesIs, RefsDropped DEF MountIInv
<1>3. refs' \in [Sigs -> Int]
  <2>1. \A s \in Sigs : Cardinality(Uses(m, s)) \in Nat /\ refs[s] \in Int
    BY UsesFinite, FS_CardinalityType DEF MountIInv, MountTyped
  <2>2. refs' = [s \in Sigs |-> refs[s] - Cardinality(Uses(m, s))]
    BY DEF Drops, Uses
  <2> QED BY <2>1, <2>2
<1>4. module \in {"coming", "live"} /\ parts = Before(9)
  BY MountedModule DEF MountIInv
<1> QED BY <1>2, <1>3, <1>4, MountStep

LEMMA FindKeysKeeps ==
  ASSUME MountIInv, NEW m \in Mounts, find_keys(m)
  PROVE  MountIInv'
<1> DEFINE k == mnt[m].keys + 1
           tokens == mnt[m].stat.tokens
           r == [mnt[m] EXCEPT !.keys = k]
<1>1. mnt[m] \in MountRecord /\ mnt[m].at = "keys" /\ mnt[m].holds = {"sbi"}
  BY DEF MountIInv, MountTyped, find_keys, At_stage, Holding, Fit
<1>2. UNCHANGED moduleVars /\ delayed' \in BOOLEAN
  BY DEF find_keys, MountIInv, MountTyped
<1>3. CASE /\ mnt' = [mnt EXCEPT ![m].keys = k]
           /\ refs' = [refs EXCEPT ![tokens[k].sig] = @ + 1]
  <2>1. r \in MountRecord /\ r.at = "keys" /\ r.holds = {"sbi"} /\ r.keys = k /\ r.stat = mnt[m].stat
    BY <1>1 DEF MountRecord
  <2>2. Becomes(m, r)
    BY <1>3 DEF Becomes, MountIInv, MountTyped
  <2>3. mnt'[m] = r
    BY <2>1, <2>2, BecomesIs DEF MountIInv
  <2>4. Holding(m)'
    BY <2>1, <2>3 DEF Holding, Fit
  <2>5. mnt[m].keys \in Nat
    BY <1>1 DEF MountRecord
  <2>6. k \notin Uses(m, tokens[k].sig)
    BY <2>5 DEF Uses
  <2>7. \A s : Uses(m, s)' = IF s = tokens[k].sig THEN Uses(m, s) \cup {k} ELSE Uses(m, s)
    <3>1. 1..k = (1..mnt[m].keys) \cup {k}
      BY <2>5
    <3>2. \A s : Uses(m, s)' = {i \in 1..k : tokens[i].sig = s}
      BY <2>1, <2>3 DEF Uses
    <3> QED BY <3>1, <3>2 DEF Uses
  <2>8. \A x \in Mounts \ {m}, s \in Sigs : Uses(x, s)' = Uses(x, s)
    BY <2>1, <2>2, BecomesIs DEF MountIInv
  <2>9. RefsExact'
    <3> HIDE DEF k, tokens
    <3>1. MountTyped /\ RefsExact
      BY DEF MountIInv
    <3>2. PICK sig : sig = tokens[k].sig
      OBVIOUS
    <3> QED BY <1>3, <2>6, <2>7, <2>8, <3>1, <3>2, RefsAdded
  <2>10. refs' \in [Sigs -> Int]
    <3> HIDE DEF k, tokens
    <3>1. PICK sig : sig = tokens[k].sig
      OBVIOUS
    <3>2. refs \in [Sigs -> Int]
      BY DEF MountIInv, MountTyped
    <3>3. refs' = [s \in Sigs |-> IF s = sig THEN refs[s] + 1 ELSE refs[s]]
      BY <1>3, <3>1, <3>2
    <3> QED BY <3>2, <3>3
  <2>11. module \in {"coming", "live"} /\ parts = Before(9)
    BY <1>1, MountedModule DEF MountIInv
  <2> HIDE DEF r
  <2> QED BY <1>2, <2>1, <2>2, <2>4, <2>9, <2>10, <2>11, MountStep
<1>4. CASE Goes(m, "out", mnt[m].holds) /\ refs' = refs
  <2>1. "out" \in Stages \ {"none", "options", "umounted"} /\ {"sbi"} \in SUBSET Things
        /\ Fit("out", {"sbi"}) /\ {"sbi"} # {}
    BY DEF Stages, Things, Fit
  <2> QED BY <1>1, <1>2, <1>4, <2>1, GoesKeeps
<1>5. CASE Goes(m, "sget", mnt[m].holds) /\ refs' = refs
  <2>1. "sget" \in Stages \ {"none", "options", "umounted"} /\ {"sbi"} \in SUBSET Things
        /\ Fit("sget", {"sbi"}) /\ "sget" # "out"
    BY DEF Stages, Things, Fit
  <2> QED BY <1>1, <1>2, <1>5, <2>1, GoesKeeps
<1> QED BY <1>3, <1>4, <1>5, Zenon DEF find_keys

LEMMA KillKeeps ==
  ASSUME MountIInv, NEW m \in Mounts, NEW next, UNCHANGED moduleVars, kill_sb(m, next),
         \/ mnt[m].at = "out1" /\ next = "out"
         \/ mnt[m].at = "mounted" /\ next = "umounted"
  PROVE  MountIInv'
<1> DEFINE h == mnt[m].holds
           r == [mnt[m] EXCEPT !.at = next, !.holds = Killed(h), !.keys = IF "private" \in h THEN 0 ELSE @]
<1>1. mnt[m] \in MountRecord /\ Holding(m)
  BY DEF MountIInv, MountTyped
<1>2. Killed(h) \in SUBSET Things /\ next \in Stages
  BY <1>1 DEF Killed, MountRecord, Stages
<1>3. /\ r \in MountRecord /\ r.at = next /\ r.holds = Killed(h) /\ r.stat = mnt[m].stat
      /\ r.keys = IF "private" \in h THEN 0 ELSE mnt[m].keys
  BY <1>1, <1>2 DEF MountRecord
<1>4. Becomes(m, r)
  BY DEF kill_sb, Becomes, MountIInv, MountTyped
<1>5. mnt'[m] = r
  BY <1>3, <1>4, BecomesIs DEF MountIInv
<1>6. \/ "private" \notin h /\ Killed(h) = {"sbi"} /\ next = "out"
      \/ "private" \in h /\ Killed(h) = {}
  BY <1>1 DEF Holding, Fit, Killed, Base, Things
<1>7. Holding(m)'
  BY <1>3, <1>5, <1>6 DEF Holding, Fit
<1>8. delayed' \in BOOLEAN
  BY DEF kill_sb, MountIInv, MountTyped
<1> HIDE DEF r
<1>9. CASE "private" \in h
  <2>1. Drops(m, mnt[m].keys)
    BY <1>9 DEF kill_sb
  <2> QED BY <1>3, <1>4, <1>7, <1>8, <1>9, <2>1, DropsKeeps
<1>10. CASE "private" \notin h
  <2>1. refs' = refs
    BY <1>10 DEF kill_sb
  <2>2. \A s : Uses(m, s)' = Uses(m, s)
    BY <1>3, <1>5, <1>10 DEF Uses
  <2>3. module \in {"coming", "live"} /\ parts = Before(9)
    BY MountedModule DEF MountIInv
  <2> QED BY <1>3, <1>4, <1>7, <1>8, <2>1, <2>2, <2>3, MountStepKeys
<1> QED BY <1>9, <1>10

LEMMA OutKeeps ==
  ASSUME MountIInv, NEW m \in Mounts, out(m)
  PROVE  MountIInv'
<1>1. NoMount \in MountRecord /\ NoMount.keys = 0 /\ NoMount.holds = {}
  BY DEF NoMount, MountRecord, Stages, Things, Stats
<1>2. mnt[m].at = "out" /\ \/ mnt[m].holds = {"sbi"}
                           \/ mnt[m].holds = {} /\ mnt[m].keys = 0
  BY DEF out, At_stage, MountIInv, Holding, Fit
<1>3. mnt[m].holds \ {"sbi"} = {}
  BY <1>2
<1>4. [NoMount EXCEPT !.holds = {}] = NoMount
  BY <1>1 DEF MountRecord
<1>5. Becomes(m, NoMount)
  BY <1>3, <1>4 DEF out, Becomes
<1>6. mnt'[m] = NoMount
  BY <1>1, <1>5, BecomesIs DEF MountIInv
<1>7. Holding(m)'
  BY <1>6 DEF Holding, NoMount, Fit
<1>8. UNCHANGED moduleVars /\ delayed' \in BOOLEAN
  BY DEF out, MountIInv, MountTyped
<1>9. CASE mnt[m].holds = {"sbi"}
  <2>1. Drops(m, mnt[m].keys)
    BY <1>9 DEF out
  <2> QED BY <1>1, <1>2, <1>5, <1>7, <1>8, <2>1, DropsKeeps
<1>10. CASE mnt[m].holds = {} /\ mnt[m].keys = 0
  <2>1. refs' = refs
    BY <1>10 DEF out
  <2>2. \A s : Uses(m, s)' = Uses(m, s)
    BY <1>1, <1>6, <1>10, NoKeysNoUses
  <2>3. module \in {"coming", "live"} /\ parts = Before(9)
    BY <1>2, MountedModule DEF MountIInv
  <2> QED BY <1>1, <1>5, <1>7, <1>8, <2>1, <2>2, <2>3, MountStepKeys
<1> QED BY <1>2, <1>9, <1>10

-----------------------------------------------------------------------------
(* The module.  None of its operations touches a mount or a key.           *)
LEMMA ModuleStep ==
  ASSUME MountIInv, mnt' = mnt, refs' = refs, delayed' \in BOOLEAN, in_use' \in BOOLEAN, ModuleAt'
  PROVE  MountIInv'
<1>1. MountTyped'
  BY DEF MountIInv, MountTyped
<1>2. \A m \in Mounts : Holding(m)'
  BY DEF MountIInv, Holding
<1>3. \A m \in Mounts, s \in Sigs : Uses(m, s)' = Uses(m, s)
  BY DEF Uses
<1>4. RefsExact'
  BY <1>3, RefsSame DEF MountIInv
<1> QED BY <1>1, <1>2, <1>4 DEF MountIInv

LEMMA ComingIs ==
  ASSUME NEW n \in 1..9, parts' = Before(n), undo' = << >>, init_failure' = "",
         opens' # {} => n > 6, (\E m \in Mounts : mnt'[m].at # "none") => n = 9
  PROVE  Coming'
BY DEF Coming, Before

LEMMA LoadKeeps ==
  ASSUME MountIInv, load
  PROVE  MountIInv'
<1>1. /\ module' = "coming" /\ undo' = << >> /\ init_failure' = "" /\ parts' = {} /\ opens' = opens /\ mnt' = mnt
      /\ refs' = refs /\ delayed' = delayed /\ in_use' = in_use
  BY DEF load
<1>2. ModuleAt /\ Out /\ \A m \in Mounts : mnt[m].at = "none"
  BY DEF load, MountIInv, ModuleAt
<1>3. in_use = FALSE /\ delayed = FALSE /\ opens = {}
  <2>1. "caches" \notin parts
    BY <1>2 DEF Out, Remains
  <2> QED BY <1>2, <2>1 DEF load, ModuleAt, Out, MountIInv, MountTyped
<1>4. Coming'
  <2>1. parts' = Before(1)
    BY <1>1, BeforeFirst, Zenon
  <2>2. 1 \in 1..9
    OBVIOUS
  <2>3. opens' = {} /\ \A m \in Mounts : mnt'[m].at = "none"
    BY <1>1, <1>2, <1>3
  <2> QED BY <1>1, <2>1, <2>2, <2>3, ComingIs
<1>5. ModuleAt'
  BY <1>1, <1>3, <1>4 DEF ModuleAt
<1> QED BY <1>1, <1>3, <1>5, ModuleStep

LEMMA LoadedKeeps ==
  ASSUME MountIInv, loaded
  PROVE  MountIInv'
<1>1. /\ module' = "live" /\ undo' = undo /\ init_failure' = init_failure /\ parts' = parts /\ opens' = opens
      /\ mnt' = mnt /\ refs' = refs /\ delayed' = delayed /\ in_use' = in_use
  BY DEF loaded
<1>2. module = "coming" /\ Coming /\ ModuleAt /\ in_use = FALSE
  BY DEF loaded, MountIInv, ModuleAt, MountTyped
<1>3. PICK n \in 1..9 : parts = Before(n)
  BY <1>2 DEF Coming
<1>4. n = 9
  <2>1. Next_step = n /\ Next_step > 8
    BY <1>3, NextStepIs, StepsAre DEF loaded
  <2> QED BY <2>1
<1>5. Live'
  BY <1>1, <1>2, <1>3, <1>4 DEF Live, Coming, Before
<1>6. ModuleAt'
  BY <1>1, <1>2, <1>5 DEF ModuleAt
<1> QED BY <1>1, <1>2, <1>6, ModuleStep DEF MountIInv, MountTyped

(* The step that is next, and what is there when it is taken.              *)
LEMMA ComingStep ==
  ASSUME MountIInv, NEW p, module = "coming", undo = << >>, Next_step <= Len(Steps), Steps[Next_step] = p
  PROVE  \E n \in 1..8 : /\ p = Steps[n] /\ parts = Before(n) /\ (opens # {} => n > 6)
                         /\ \A m \in Mounts : mnt[m].at = "none"
<1>1. Coming
  BY DEF MountIInv, ModuleAt
<1>2. PICK n \in 1..9 : /\ parts = Before(n) /\ (opens # {} => n > 6)
                        /\ (\E m \in Mounts : mnt[m].at # "none") => n = 9
  BY <1>1 DEF Coming
<1>3. Next_step = n
  BY <1>2, NextStepIs, Zenon
<1>4. n \in 1..8
  BY <1>3, StepsAre
<1>5. p = Steps[n]
  BY <1>3
<1>6. \A m \in Mounts : mnt[m].at = "none"
  BY <1>2, <1>4
<1> QED BY <1>2, <1>4, <1>5, <1>6

LEMMA SetsUpKeeps ==
  ASSUME MountIInv, NEW p, Sets_up(p)
  PROVE  MountIInv'
<1>1. /\ module' = module /\ undo' = undo /\ init_failure' = init_failure /\ parts' = parts \cup {p}
      /\ opens' = opens /\ mnt' = mnt /\ refs' = refs /\ delayed' = delayed /\ in_use' = in_use
  BY DEF Sets_up
<1>2. module = "coming" /\ undo = << >> /\ Coming /\ ModuleAt /\ in_use = FALSE
  BY DEF Sets_up, MountIInv, ModuleAt, MountTyped
<1>3. PICK n \in 1..8 : /\ p = Steps[n] /\ parts = Before(n) /\ (opens # {} => n > 6)
                        /\ \A m \in Mounts : mnt[m].at = "none"
  BY ComingStep DEF Sets_up
<1>4. parts' = Before(n + 1)
  BY <1>1, <1>3, BeforeNext, Zenon
<1>5. Coming'
  <2>1. n + 1 \in 1..9 /\ (n > 6 => n + 1 > 6)
    OBVIOUS
  <2>4. opens' # {} => n + 1 > 6
    BY <1>1, <1>3, <2>1, Zenon
  <2>2. undo' = << >> /\ init_failure' = ""
    BY <1>1, <1>2 DEF Coming
  <2>3. \A m \in Mounts : mnt'[m].at = "none"
    BY <1>1, <1>3
  <2> QED BY <1>4, <2>1, <2>2, <2>3, <2>4, ComingIs
<1>6. ModuleAt'
  BY <1>1, <1>2, <1>5 DEF ModuleAt
<1> QED BY <1>1, <1>2, <1>6, ModuleStep DEF MountIInv, MountTyped

(* What is set up at each step, by name.                                   *)
LEMMA BeforeNames ==
  /\ Before(1) = {} /\ Before(2) = {"caches"} /\ Before(3) = {"caches", "sysfs"}
  /\ Before(4) = {"caches", "sysfs", "kthread"} /\ Before(5) = {"caches", "sysfs", "kthread", "hash"}
  /\ Before(6) = {"caches", "sysfs", "kthread", "hash", "contexts"}
  /\ Before(7) = {"caches", "sysfs", "kthread", "hash", "contexts", "miscdev"}
  /\ Before(8) = {"caches", "sysfs", "kthread", "hash", "contexts", "miscdev", "tfms"}
  /\ Before(9) = {"caches", "sysfs", "kthread", "hash", "contexts", "miscdev", "tfms", "fs"}
<1>1. Before(1) = {}
  BY BeforeFirst
<1>2. Before(2) = {"caches"}
  BY <1>1, BeforeNext, StepsAre
<1>3. Before(3) = {"caches", "sysfs"}
  BY <1>2, BeforeNext, StepsAre
<1>4. Before(4) = {"caches", "sysfs", "kthread"}
  BY <1>3, BeforeNext, StepsAre
<1>5. Before(5) = {"caches", "sysfs", "kthread", "hash"}
  BY <1>4, BeforeNext, StepsAre
<1>6. Before(6) = {"caches", "sysfs", "kthread", "hash", "contexts"}
  BY <1>5, BeforeNext, StepsAre
<1>7. Before(7) = {"caches", "sysfs", "kthread", "hash", "contexts", "miscdev"}
  BY <1>6, BeforeNext, StepsAre
<1>8. Before(8) = {"caches", "sysfs", "kthread", "hash", "contexts", "miscdev", "tfms"}
  BY <1>7, BeforeNext, StepsAre
<1>9. Before(9) = {"caches", "sysfs", "kthread", "hash", "contexts", "miscdev", "tfms", "fs"}
  BY <1>8, BeforeNext, StepsAre
<1> QED BY <1>1, <1>2, <1>3, <1>4, <1>5, <1>6, <1>7, <1>8, <1>9

(* A list of things to take down covers what there is to take down.        *)
Covers(list, ps, left) ==
  /\ list \in Seq(Downs) /\ list # << >> /\ list[Len(list)] = "caches"
  /\ \A p \in ps : p \in left \/ \E i \in DOMAIN list : p \in Removes(list[i])

LEMMA UnwindingCovers ==
  ASSUME NEW n \in {1, 2, 3, 4, 5, 6, 8}
  PROVE  /\ Covers(Unwinding(Steps[n]), Before(n), IF Steps[n] = "contexts" THEN {"hash"} ELSE {})
         /\ (IF Steps[n] = "contexts" THEN {"hash"} ELSE {}) \subseteq Before(n)
         /\ Steps[n] = "contexts" =>
               \A i \in DOMAIN Unwinding(Steps[n]) : Unwinding(Steps[n])[i] # "messaging"
<1>1. CASE n \in {1, 2}
  <2>1. Unwinding(Steps[n]) = <<"caches">> /\ Steps[n] # "contexts"
    BY <1>1, StepsAre DEF Unwinding
  <2>2. Covers(<<"caches">>, Before(n), {})
    BY <1>1, BeforeNames DEF Covers, Downs, Removes
  <2> QED BY <2>1, <2>2
<1>2. CASE n = 3
  <2>1. Unwinding(Steps[n]) = <<"sysfs", "caches">> /\ Steps[n] # "contexts"
    BY <1>2, StepsAre DEF Unwinding
  <2>2. Covers(<<"sysfs", "caches">>, Before(3), {})
    BY BeforeNames DEF Covers, Downs, Removes
  <2> QED BY <1>2, <2>1, <2>2
<1>3. CASE n = 4
  <2>1. Unwinding(Steps[n]) = <<"kthread", "sysfs", "caches">> /\ Steps[n] # "contexts"
    BY <1>3, StepsAre DEF Unwinding
  <2>2. Covers(<<"kthread", "sysfs", "caches">>, Before(4), {})
    BY BeforeNames DEF Covers, Downs, Removes
  <2> QED BY <1>3, <2>1, <2>2
<1>4. CASE n = 5
  <2>1. Unwinding(Steps[n]) = <<"kthread", "sysfs", "caches">> /\ Steps[n] = "contexts"
    BY <1>4, StepsAre DEF Unwinding
  <2>2. Covers(<<"kthread", "sysfs", "caches">>, Before(5), {"hash"})
    BY BeforeNames DEF Covers, Downs, Removes
  <2>3. "hash" \in Before(5)
    BY BeforeNames
  <2> QED BY <1>4, <2>1, <2>2, <2>3
<1>5. CASE n = 6
  <2>1. Unwinding(Steps[n]) = <<"messaging", "kthread", "sysfs", "caches">> /\ Steps[n] # "contexts"
    BY <1>5, StepsAre DEF Unwinding
  <2>2. Covers(<<"messaging", "kthread", "sysfs", "caches">>, Before(6), {})
    BY BeforeNames DEF Covers, Downs, Removes
  <2> QED BY <1>5, <2>1, <2>2
<1>6. CASE n = 8
  <2>1. Unwinding(Steps[n]) = <<"tfms", "messaging", "kthread", "sysfs", "caches">> /\ Steps[n] # "contexts"
    BY <1>6, StepsAre DEF Unwinding
  <2>2. Covers(<<"tfms", "messaging", "kthread", "sysfs", "caches">>, Before(8), {})
    BY BeforeNames DEF Covers, Downs, Removes
  <2> QED BY <1>6, <2>1, <2>2
<1> QED BY <1>1, <1>2, <1>3, <1>4, <1>5, <1>6

LEMMA FailsKeeps ==
  ASSUME MountIInv, NEW p \in ToSet(Steps) \ {"tfms"}, Fails(p)
  PROVE  MountIInv'
<1>1. /\ module' = "going" /\ undo' = Unwinding(p) /\ init_failure' = p /\ parts' = parts
      /\ opens' = opens /\ mnt' = mnt /\ refs' = refs /\ delayed' = delayed /\ in_use' = in_use
  BY DEF Fails
<1>2. module = "coming" /\ ModuleAt /\ in_use = FALSE
  BY DEF Fails, MountIInv, ModuleAt, MountTyped
<1>3. PICK n \in 1..8 : /\ p = Steps[n] /\ parts = Before(n) /\ (opens # {} => n > 6)
                        /\ \A m \in Mounts : mnt[m].at = "none"
  BY ComingStep DEF Fails
<1>4. n # 7
  BY <1>3, StepsAre
<1>5. n \in {1, 2, 3, 4, 5, 6, 8}
  BY <1>4
<1>6. Covers(undo', parts', Remains') /\ Remains' \subseteq parts'
  BY <1>1, <1>3, <1>5, UnwindingCovers, Zenon DEF Remains
<1>7. init_failure' = "contexts" => \A i \in DOMAIN undo' : undo'[i] # "messaging"
  BY <1>1, <1>3, <1>5, UnwindingCovers, Zenon
<1>8. opens' # {} => init_failure' = "fs" /\ Messaging \subseteq parts'
  <2>1. opens # {} => n = 8
    BY <1>3, <1>5
  <2>2. Messaging \subseteq Before(8) /\ Steps[8] = "fs"
    BY BeforeNames, StepsAre DEF Messaging
  <2> QED BY <1>1, <1>3, <2>1, <2>2
<1>9. Going'
  BY <1>6, <1>7, <1>8, Zenon DEF Going, Covers, Messaging
<1>10. ModuleAt'
  BY <1>1, <1>2, <1>3, <1>9 DEF ModuleAt
<1> QED BY <1>1, <1>2, <1>10, ModuleStep DEF MountIInv, MountTyped

LEMMA UnloadKeeps ==
  ASSUME MountIInv, unload
  PROVE  MountIInv'
<1> DEFINE down == <<"tfms", "messaging", "kthread", "sysfs", "fs", "caches">>
<1>1. /\ module' = "going" /\ undo' = down /\ init_failure' = init_failure /\ parts' = parts
      /\ opens' = opens /\ mnt' = mnt /\ refs' = refs /\ delayed' = delayed /\ in_use' = in_use
  BY DEF unload
<1>2. module = "live" /\ ModuleAt /\ Live /\ in_use = FALSE
  BY DEF unload, MountIInv, ModuleAt, MountTyped
<1>3. opens = {} /\ \A m \in Mounts : mnt[m].at = "none"
  BY DEF unload, Referenced
<1>4. Covers(down, Before(9), {})
  BY BeforeNames DEF Covers, Downs, Removes
<1>5. Remains' = {} /\ parts' = Before(9) /\ init_failure' # "contexts"
  BY <1>1, <1>2 DEF Remains, Live
<1> HIDE DEF down
<1>6. Going'
  BY <1>1, <1>3, <1>4, <1>5 DEF Going, Covers
<1>7. ModuleAt'
  BY <1>1, <1>2, <1>3, <1>6 DEF ModuleAt
<1> QED BY <1>1, <1>2, <1>7, ModuleStep DEF MountIInv, MountTyped

LEMMA TailIs ==
  ASSUME NEW s \in Seq(Downs), s # << >>
  PROVE  /\ Tail(s) \in Seq(Downs) /\ Len(Tail(s)) = Len(s) - 1
         /\ \A i \in DOMAIN Tail(s) : Tail(s)[i] = s[i + 1]
         /\ \A i \in DOMAIN s : i = 1 \/ (i - 1 \in DOMAIN Tail(s) /\ s[i] = Tail(s)[i - 1])
         /\ Head(s) = s[1] /\ Len(s) \in Nat \ {0} /\ DOMAIN s = 1..Len(s)
<1>1. Len(s) \in Nat /\ Len(s) # 0 /\ DOMAIN s = 1..Len(s) /\ Head(s) = s[1]
  OBVIOUS
<1>2. Tail(s) \in Seq(Downs) /\ Len(Tail(s)) = Len(s) - 1
  OBVIOUS
<1>3. DOMAIN Tail(s) = 1..Len(s)-1 /\ \A i \in 1..Len(s)-1 : Tail(s)[i] = s[i + 1]
  BY <1>1, <1>2
<1> QED BY <1>1, <1>2, <1>3

(* One thing taken down.                                                   *)
LEMMA TakesDownKeeps ==
  ASSUME MountIInv, NEW what, Takes_down(what, Removes(what)),
         in_use' \in BOOLEAN, delayed' \in BOOLEAN,
         delayed' => delayed /\ what # "caches",
         in_use' => what = "messaging" /\ opens # {},
         what = "messaging" /\ opens # {} => in_use'
  PROVE  MountIInv'
<1>1. /\ undo # << >> /\ Head(undo) = what /\ ~in_use
      /\ undo' = Tail(undo) /\ init_failure' = init_failure /\ parts' = parts \ Removes(what)
      /\ opens' = opens /\ mnt' = mnt /\ refs' = refs
      /\ module' = IF undo' = << >> THEN "out" ELSE module
  BY DEF Takes_down
<1>2. module = "going" /\ ModuleAt /\ Going
  BY <1>1 DEF MountIInv, ModuleAt, Out, Coming, Live
<1>3. /\ undo \in Seq(Downs) /\ undo[Len(undo)] = "caches"
      /\ \A p \in parts : p \in Remains \/ \E i \in DOMAIN undo : p \in Removes(undo[i])
      /\ Remains \subseteq parts
      /\ init_failure = "contexts" => \A i \in DOMAIN undo : undo[i] # "messaging"
      /\ opens # {} => init_failure = "fs" /\ (in_use \/ Messaging \subseteq parts)
  BY <1>2 DEF Going
<1>4. what = undo[1] /\ what \in Downs /\ DOMAIN undo = 1..Len(undo) /\ Len(undo) \in Nat \ {0}
  BY <1>1, <1>3, TailIs
<1>5. Remains' = Remains /\ Remains \subseteq parts'
  <2>1. Remains' = Remains
    BY <1>1 DEF Remains
  <2>2. CASE init_failure = "contexts"
    <3>1. what # "messaging"
      BY <1>3, <1>4, <2>2
    <3>2. "hash" \notin Removes(what)
      BY <1>4, <3>1 DEF Removes, Downs
    <3> QED BY <1>1, <1>3, <2>1, <2>2, <3>2 DEF Remains
  <2>3. CASE init_failure # "contexts"
    BY <2>1, <2>3 DEF Remains
  <2> QED BY <2>1, <2>2, <2>3
<1>6. CASE undo' = << >>
  <2>1. Len(undo) = 1
    <3>1. Len(undo) - 1 = Len(undo')
      BY <1>1, <1>3, TailIs
    <3>2. Len(undo) - 1 = 0
      BY <1>6, <3>1
    <3>3. PICK n \in Nat : n = Len(undo)
      BY <1>4
    <3> QED BY <3>2, <3>3
  <2>2. what = "caches" /\ \A i \in DOMAIN undo : undo[i] = "caches"
    BY <1>3, <1>4, <2>1
  <2>3. \A p \in parts : p \in Remains \/ p = "caches"
    BY <1>3, <2>2 DEF Removes
  <2>4. parts' = Remains'
    BY <1>1, <1>5, <2>2, <2>3 DEF Removes
  <2>5. opens = {}
    <3>1. "contexts" \in parts => FALSE
      BY <2>3 DEF Remains
    <3> QED BY <1>1, <1>3, <3>1 DEF Messaging
  <2>6. Out'
    BY <1>1, <1>6, <2>4, <2>5 DEF Out
  <2> QED BY <1>1, <1>2, <1>6, <2>2, <2>6, ModuleStep DEF ModuleAt
<1>7. CASE undo' # << >>
  <2>1. undo' \in Seq(Downs) /\ DOMAIN undo' = 1..Len(undo') /\ Len(undo') = Len(undo) - 1 /\ Len(undo') \in Nat \ {0}
    <3>1. undo' \in Seq(Downs) /\ Len(undo') = Len(undo) - 1
      BY <1>1, <1>3, TailIs
    <3> QED BY <1>7, <3>1
  <2>2. \A i \in DOMAIN undo' : undo'[i] = undo[i + 1] /\ i + 1 \in DOMAIN undo
    <3>1. \A i \in DOMAIN Tail(undo) : Tail(undo)[i] = undo[i + 1]
      BY <1>1, <1>3, TailIs
    <3> QED BY <1>1, <1>4, <2>1, <3>1
  <2>3. undo'[Len(undo')] = "caches"
    <3>1. Len(undo') \in DOMAIN undo' /\ Len(undo') + 1 = Len(undo)
      BY <1>4, <2>1
    <3> QED BY <1>3, <2>2, <3>1
  <2>4. \A p \in parts' : p \in Remains' \/ \E i \in DOMAIN undo' : p \in Removes(undo'[i])
    <3> SUFFICES ASSUME NEW p \in parts', p \notin Remains
                 PROVE  \E i \in DOMAIN undo' : p \in Removes(undo'[i])
      BY <1>5
    <3>1. PICK i \in DOMAIN undo : p \in Removes(undo[i])
      BY <1>1, <1>3
    <3>2. i # 1
      BY <1>1, <1>4, <3>1
    <3>3. i - 1 \in DOMAIN undo' /\ undo[i] = undo'[i - 1]
      <4>1. \A j \in DOMAIN undo : j = 1 \/ (j - 1 \in DOMAIN Tail(undo) /\ undo[j] = Tail(undo)[j - 1])
        BY <1>1, <1>3, TailIs
      <4> QED BY <1>1, <3>2, <4>1
    <3> QED BY <3>1, <3>3
  <2>5. init_failure' = "contexts" => \A i \in DOMAIN undo' : undo'[i] # "messaging"
    BY <1>1, <1>3, <2>2
  <2>6. opens' # {} => init_failure' = "fs" /\ (in_use' \/ Messaging \subseteq parts')
    <3>1. what # "messaging" => Removes(what) \cap Messaging = {}
      BY <1>4 DEF Removes, Messaging, Downs
    <3> QED BY <1>1, <1>3, <3>1
  <2>7. Going'
    BY <1>5, <1>7, <2>1, <2>3, <2>4, <2>5, <2>6, Zenon DEF Going, Messaging
  <2>8. delayed' => "caches" \in parts'
    <3>1. what # "caches" => "caches" \notin Removes(what)
      BY DEF Removes
    <3> QED BY <1>1, <1>2, <3>1 DEF ModuleAt
  <2>9. in_use' => init_failure' = "fs"
    BY <1>1, <1>3
  <2>10. ModuleAt'
    BY <1>1, <1>2, <1>7, <2>7, <2>8, <2>9 DEF ModuleAt
  <2> QED BY <1>1, <2>10, ModuleStep
<1> QED BY <1>6, <1>7

LEMMA DownKeeps ==
  ASSUME MountIInv,
         \/ \E p \in {"tfms", "kthread", "sysfs", "fs"} : take_down(p)
         \/ release_messaging \/ free_kmem_caches
  PROVE  MountIInv'
<1> USE DEF Removes
<1>1. delayed \in BOOLEAN /\ in_use \in BOOLEAN
  BY DEF MountIInv, MountTyped
<1>2. ASSUME NEW p \in {"tfms", "kthread", "sysfs", "fs"}, take_down(p) PROVE MountIInv'
  <2>1. Takes_down(p, Removes(p)) /\ ~in_use /\ in_use' = in_use /\ delayed' = delayed
    BY <1>2 DEF take_down, Takes_down
  <2>2. p # "caches" /\ p # "messaging"
    OBVIOUS
  <2> HIDE DEF Removes
  <2> QED BY <1>1, <2>1, <2>2, TakesDownKeeps
<1>3. CASE release_messaging
  <2>1. Takes_down("messaging", Removes("messaging")) /\ in_use' = (opens # {}) /\ delayed' = delayed
    BY <1>3 DEF release_messaging
  <2> HIDE DEF Removes
  <2> QED BY <1>1, <2>1, TakesDownKeeps
<1>4. CASE free_kmem_caches
  <2>1. Takes_down("caches", Removes("caches")) /\ ~in_use /\ in_use' = in_use /\ delayed' = FALSE
    BY <1>4 DEF free_kmem_caches, Takes_down
  <2> HIDE DEF Removes
  <2> QED BY <1>1, <2>1, TakesDownKeeps
<1> QED BY <1>2, <1>3, <1>4

LEMMA RcuKeeps ==
  ASSUME MountIInv, rcu
  PROVE  MountIInv'
<1>1. /\ module' = module /\ undo' = undo /\ init_failure' = init_failure /\ parts' = parts /\ opens' = opens
      /\ mnt' = mnt /\ refs' = refs /\ delayed' = FALSE /\ in_use' = in_use
  BY DEF rcu, moduleVars
<1>2. ModuleAt'
  <2>1. (Out <=> Out') /\ (Coming <=> Coming') /\ (Live <=> Live') /\ (Going <=> Going')
    BY <1>1 DEF Out, Coming, Live, Going, Remains, Before
  <2> QED BY <1>1, <2>1 DEF MountIInv, ModuleAt
<1> QED BY <1>1, <1>2, ModuleStep DEF MountIInv, MountTyped

LEMMA DeviceKeeps ==
  ASSUME MountIInv, NEW d \in Daemons, miscdev_opened(d) \/ miscdev_closed(d)
  PROVE  MountIInv'
<1>1. /\ module' = module /\ undo' = undo /\ init_failure' = init_failure /\ parts' = parts
      /\ mnt' = mnt /\ refs' = refs /\ delayed' = delayed /\ in_use' = in_use
      /\ opens' \subseteq opens \/ (Entered /\ "miscdev" \in parts)
  BY DEF miscdev_opened, miscdev_closed
<1>2. opens' \subseteq opens \/ module \in {"coming", "live"}
  BY <1>1 DEF Entered
<1>3. ModuleAt
  BY DEF MountIInv
<1>4. ASSUME module = "out" PROVE Out'
  <2>1. Out /\ opens' = {}
    BY <1>1, <1>2, <1>3, <1>4 DEF ModuleAt, Out
  <2> QED BY <1>1, <2>1 DEF Out, Remains
<1>5. ASSUME module = "coming" PROVE Coming'
  <2>1. Coming
    BY <1>3, <1>5 DEF ModuleAt
  <2>2. PICK n \in 1..9 : /\ parts = Before(n) /\ (opens # {} => n > 6)
                          /\ (\E m \in Mounts : mnt[m].at # "none") => n = 9
    BY <2>1 DEF Coming
  <2>3. "miscdev" \in parts => n > 6
    BY <2>2, BeforeMembers
  <2>4. opens' # {} => n > 6
    BY <1>1, <2>2, <2>3
  <2>5. undo' = << >> /\ init_failure' = "" /\ parts' = Before(n)
    BY <1>1, <2>1, <2>2, Zenon DEF Coming
  <2>6. (\E m \in Mounts : mnt'[m].at # "none") => n = 9
    BY <1>1, <2>2, Zenon
  <2> QED BY <2>4, <2>5, <2>6, ComingIs
<1>6. ASSUME module = "live" PROVE Live'
  <2>1. Live
    BY <1>3, <1>6 DEF ModuleAt
  <2> QED BY <1>1, <2>1, Zenon DEF Live, Before
<1>7. ASSUME module = "going" PROVE Going'
  <2>1. opens' \subseteq opens
    BY <1>2, <1>7
  <2>2. Going
    BY <1>3, <1>7 DEF ModuleAt
  <2>3. Remains' = Remains
    BY <1>1 DEF Remains
  <2> QED BY <1>1, <2>1, <2>2, <2>3 DEF Going
<1>8. ModuleAt'
  <2> USE <1>1, <1>3 DEF ModuleAt
  <2>1. module' = "out" => Out'
    BY <1>4
  <2>2. module' = "coming" => Coming'
    BY <1>5
  <2>3. module' = "live" => Live'
    BY <1>6
  <2>4. module' = "going" => Going'
    BY <1>7
  <2>5. module' \in {"out", "going"} => \A m \in Mounts : mnt'[m].at = "none"
    OBVIOUS
  <2>6. in_use' => module' = "going" /\ init_failure' = "fs"
    OBVIOUS
  <2>7. delayed' => "caches" \in parts'
    OBVIOUS
  <2> QED BY <2>1, <2>2, <2>3, <2>4, <2>5, <2>6, <2>7
<1> QED BY <1>1, <1>8, ModuleStep DEF MountIInv, MountTyped

-----------------------------------------------------------------------------
LEMMA MountInitOk == MountInit => MountIInv
<1> SUFFICES ASSUME MountInit PROVE MountIInv
  OBVIOUS
<1>1. NoMount \in MountRecord /\ NoMount.keys = 0 /\ NoMount.at = "none"
  BY DEF NoMount, MountRecord, Stages, Things, Stats
<1>2. MountTyped
  <2>1. mnt \in [Mounts -> MountRecord]
    BY <1>1 DEF MountInit
  <2>2. refs \in [Sigs -> Int]
    <3>1. refs = [s \in Sigs |-> 0]
      BY Zenon DEF MountInit
    <3> QED BY <3>1
  <2>3. delayed \in BOOLEAN /\ in_use \in BOOLEAN
    BY Zenon DEF MountInit
  <2> QED BY <2>1, <2>2, <2>3, Zenon DEF MountTyped
<1>3. \A m \in Mounts : mnt[m] = NoMount
  BY DEF MountInit
<1>4. \A m \in Mounts : Holding(m)
  BY <1>1, <1>3 DEF Holding, Fit
<1>5. RefsExact
  <2> SUFFICES ASSUME NEW s \in Sigs PROVE refs[s] = Cardinality(AllUses(s))
    BY DEF RefsExact
  <2>1. \A m \in Mounts : Uses(m, s) = {}
    BY <1>1, <1>3, NoKeysNoUses
  <2>2. AllUses(s) = {}
    BY <2>1 DEF AllUses
  <2> QED BY <2>2, FS_EmptySet DEF MountInit
<1>6. ModuleAt
  BY <1>1, <1>3 DEF MountInit, ModuleAt, Out, Remains
<1> QED BY <1>2, <1>4, <1>5, <1>6 DEF MountIInv

LEMMA MountNextKeeps == MountIInv /\ [MountNext]_mountVars => MountIInv'
<1> SUFFICES ASSUME MountIInv, [MountNext]_mountVars PROVE MountIInv'
  OBVIOUS
<1>1. CASE load \/ loaded \/ unload \/ rcu
  BY <1>1, LoadKeeps, LoadedKeeps, UnloadKeeps, RcuKeeps
<1>2. CASE ecryptfs_init
  <2>1. PICK p \in ToSet(Steps) : Sets_up(p) \/ (p # "tfms" /\ Fails(p))
    <3>1. ToSet(Steps) = {"caches", "sysfs", "kthread", "hash", "contexts", "miscdev", "tfms", "fs"}
      BY BeforeWhole, BeforeNames
    <3> QED BY <1>2, <3>1 DEF ecryptfs_init, init_kmem_caches, do_sysfs_registration, init_kthread,
                               init_messaging, init_miscdev, init_crypto, register_filesystem
  <2> QED BY <2>1, SetsUpKeeps, FailsKeeps
<1>3. CASE \/ \E p \in {"tfms", "kthread", "sysfs", "fs"} : take_down(p)
           \/ release_messaging \/ free_kmem_caches
  BY <1>3, DownKeeps
<1>4. CASE \E d \in Daemons : miscdev_opened(d) \/ miscdev_closed(d)
  BY <1>4, DeviceKeeps
<1>5. ASSUME NEW m \in Mounts,
             \/ \E opts \in MountOptions : mount_begin(m, opts)
             \/ parse_options(m) \/ find_keys(m) \/ mount_step(m) \/ d_make_root_fails(m)
             \/ out_free(m) \/ out(m) \/ umounted(m)
      PROVE  MountIInv'
  BY <1>5, BeginKeeps, ParseKeeps, FindKeysKeeps, StepKeeps, MakeRootFailsKeeps, OutFreeKeeps, OutKeeps,
     UmountedKeeps
<1>6. ASSUME NEW m \in Mounts, out1(m) \/ umount(m) PROVE MountIInv'
  BY <1>6, KillKeeps DEF out1, umount, At_stage
<1>7. CASE UNCHANGED mountVars
  <2>1. /\ module' = module /\ undo' = undo /\ init_failure' = init_failure /\ parts' = parts /\ opens' = opens
        /\ mnt' = mnt /\ refs' = refs /\ delayed' = delayed /\ in_use' = in_use
    BY <1>7 DEF mountVars
  <2>2. (Out <=> Out') /\ (Coming <=> Coming') /\ (Live <=> Live') /\ (Going <=> Going')
    BY <2>1 DEF Out, Coming, Live, Going, Remains, Before
  <2>3. ModuleAt'
    BY <2>1, <2>2 DEF MountIInv, ModuleAt
  <2> QED BY <2>1, <2>3, ModuleStep DEF MountIInv, MountTyped
<1> QED BY <1>1, <1>2, <1>3, <1>4, <1>5, <1>6, <1>7, Zenon DEF MountNext

(* Where the module is and what each mount holds, through every error path *)
(* of ecryptfs_init and ecryptfs_mount.                                    *)
THEOREM MountIInvAlways == MountSpec => []MountIInv
<1> QED BY MountInitOk, MountNextKeeps, PTL DEF MountSpec

(* Nothing is taken down under an open device or a mount, and what RCU     *)
(* frees late finds its cache.                                             *)
THEOREM UsedAlwaysStays == MountSpec => []UsedStays
<1>1. MountIInv => UsedStays
  <2> SUFFICES ASSUME MountIInv, ~in_use PROVE UsedStays
    BY DEF UsedStays, MountIInv, ModuleAt
  <2>1. ModuleAt
    BY DEF MountIInv
  <2>2. ASSUME opens # {} PROVE Messaging \subseteq parts
    <3>1. module \in {"coming", "live", "going"}
      BY <2>1, <2>2 DEF ModuleAt, Out
    <3>2. CASE module = "coming"
      <4>1. PICK n \in 1..9 : parts = Before(n) /\ n > 6
        BY <2>1, <2>2, <3>2 DEF ModuleAt, Coming
      <4> QED BY <4>1, BeforeMembers DEF Messaging
    <3>3. CASE module = "live"
      BY <2>1, <3>3, BeforeNames DEF ModuleAt, Live, Messaging
    <3>4. CASE module = "going"
      BY <2>1, <2>2, <3>4 DEF ModuleAt, Going
    <3> QED BY <3>1, <3>2, <3>3, <3>4
  <2>3. ASSUME NEW m \in Mounts, mnt[m].at # "none" PROVE ToSet(Steps) \subseteq parts
    BY <2>1, <2>3, MountedModule, BeforeWhole
  <2> QED BY <2>1, <2>2, <2>3 DEF UsedStays, ModuleAt, Messaging
<1> QED BY <1>1, MountIInvAlways, PTL

(* Every error path gives back what was acquired, keys included.           *)
THEOREM NothingEverLeaks == MountSpec => []NothingLeaks
<1>1. MountIInv => NothingLeaks
  BY DEF MountIInv, NothingLeaks, Holding, RefsExact, AllUses, ModuleAt, Out, Remains
<1> QED BY <1>1, MountIInvAlways, PTL
=============================================================================
