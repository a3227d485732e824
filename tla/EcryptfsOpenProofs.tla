-------------------------- MODULE EcryptfsOpenProofs --------------------------
(***************************************************************************)
(* Proofs about EcryptfsOpen and EcryptfsKeys: the life of a file, and the *)
(* keys, locks and the lower file that its calls take and give back.       *)
(***************************************************************************)
EXTENDS EcryptfsOpen, Integers, FiniteSetTheorems, SequenceTheorems, TLAPS

(* Where a task may be in each call.                                       *)
PlacesOf(c) ==
  CASE c = "create" -> {"context", "get", "kthread", "header"}
    [] c = "lookup" -> {"get", "kthread", "stat", "stat xattr", "stat set", "stat set xattr", "stat end"}
    [] c = "open" -> {"get", "kthread", "metadata", "contents", "parse contents", "xattr", "parse xattr",
                      "no metadata", "context", "get2", "header", "opened", "size", "size store", "put"}
    [] c = "setattr" -> {"attr", "get", "kthread", "metadata", "contents", "parse contents", "xattr",
                         "parse xattr", "no metadata", "attr read", "attr fails"}
    [] OTHER -> {}
Calls == {"none", "create", "lookup", "open", "setattr"}
Places == {"idle", "mount"} \cup UNION {PlacesOf(c) : c \in Calls}

(* Where it holds cs_mutex.                                                *)
Section(p, c) ==
  \/ p \in {"contents", "parse contents", "xattr", "parse xattr", "no metadata", "attr read", "attr fails"}
  \/ c = "open" /\ p \in {"context", "get2", "header"}
  \/ c = "setattr" /\ p \in {"get", "kthread", "metadata"}

Inode == [cached : BOOLEAN, new : Tasks \cup {None}, policy : BOOLEAN, valid : BOOLEAN, encrypted : BOOLEAN,
          inXattr : BOOLEAN, fek : Nat, sigs : Seq(Sigs), size : Nat, sized : BOOLEAN, stray : BOOLEAN,
          bad : BOOLEAN]

FileTyped ==
  /\ mnt \in Mounts /\ mounted \in {"no", "yes", "over"}
  /\ lower \in LowerFile /\ inode \in Inode
  /\ csMutex \in Tasks \cup {None} /\ fileMutex \in Tasks \cup {None}
  /\ file \in BOOLEAN
  /\ pc \in [Tasks -> Places] /\ call \in [Tasks -> Calls] /\ seen \in [Tasks -> Nat]
  /\ feks \in Nat /\ stale \in BOOLEAN

(* What follows for the rest of the state from where a task is.            *)
Busy(t) == pc[t] \notin {"idle", "mount"}
PlaceOf(t) ==
  /\ Busy(t) => pc[t] \in PlacesOf(call[t]) /\ mounted = "yes" /\ inode.cached
  /\ Busy(t) /\ call[t] = "create" => inode.new = t
  /\ inode.new = t => Busy(t) /\ call[t] \in {"create", "lookup"}
  /\ pc[t] = "mount" => mounted = "no"
  /\ csMutex = t <=> Section(pc[t], call[t]) /\ Busy(t)
  /\ fileMutex = t <=> pc[t] = "kthread"

(* A task that mounts or makes the inode is alone.                         *)
Alone == \A t \in Tasks : pc[t] = "mount" \/ inode.new = t => \A u \in Tasks \ {t} : pc[u] = "idle"

Control == FileTyped /\ (\A t \in Tasks : PlaceOf(t)) /\ Alone

(* The lower file.                                                         *)
LowerCounted ==
  /\ IsFiniteSet(AllUses) /\ count = Cardinality(AllUses)
  /\ fileMutex = None => (file <=> count > 0)
  /\ fileMutex # None => count = 1 /\ ~file

(* The keys.                                                               *)
Phases == {"idle", "find", "lock", "hold", "ask", "done"}
Work == [phase : Phases, for : {"none", "mount", "read", "write"}, list : Seq(Sigs), at : Nat, ok : BOOLEAN]
Works == {"mount", "header", "parse contents", "parse xattr"}

KeysTyped ==
  /\ key \in [Sigs -> {"ok", "garbled", "expired", "revoked"}]
  /\ refs \in [Sigs -> Int] /\ sem \in [Sigs -> Tasks \cup {None}]
  /\ tok \in [Sigs -> {"none", "valid", "invalid"}] /\ listMutex \in Tasks \cup {None}
  /\ work \in [Tasks -> Work] /\ oops \in BOOLEAN

Current(t) == work[t].list[work[t].at]
Takes(t, k) == /\ work[t].phase = "hold" \/ (work[t].phase = "lock" /\ listMutex # t)
               /\ k = Current(t)
Takers(k) == {t \in Tasks : Takes(t, k)}

WorkOf(t) ==
  /\ work[t] # Idle => pc[t] \in Works
  /\ work[t].phase \in {"find", "lock", "hold", "ask"} => work[t].at \in DOMAIN work[t].list
  /\ work[t].for = "mount" <=> pc[t] = "mount"
  /\ listMutex = t => work[t].phase = "lock" /\ work[t].for # "mount" /\ tok[Current(t)] = "valid"
  /\ pc[t] = "mount" =>
       \/ work[t].phase = "done"
       \/ /\ work[t].phase \in {"find", "lock", "hold"} /\ work[t].at \in DOMAIN work[t].list
          /\ \A i, j \in DOMAIN work[t].list : work[t].list[i] = work[t].list[j] => i = j
          /\ \A i \in DOMAIN work[t].list : i >= work[t].at => tok[work[t].list[i]] = "none"

Locked == \A k \in Sigs : sem[k] # None => ~oops /\ work[sem[k]].phase = "hold" /\ k = Current(sem[k])
Unmounted == mounted = "no" /\ (\A t \in Tasks : pc[t] # "mount") => \A k \in Sigs : tok[k] = "none"
RefsTaken == \A k \in Sigs : refs[k] = 1 + (IF tok[k] = "valid" THEN 1 ELSE 0) + Cardinality(Takers(k))

KeysHeld == KeysTyped /\ (\A t \in Tasks : WorkOf(t)) /\ Locked /\ Unmounted /\ RefsTaken

OpenIInv == Control /\ LowerCounted /\ KeysHeld

-----------------------------------------------------------------------------
(* Sets with a counted element more or less, and of one element at most.   *)
UsesOf(f) == UNION {{t} \X (1..f[t]) : t \in Tasks}

LEMMA UsesMore ==
    ASSUME NEW f \in [Tasks -> Nat], NEW g \in [Tasks -> Nat], NEW t \in Tasks,
           g = [f EXCEPT ![t] = f[t] + 1], IsFiniteSet(UsesOf(f))
    PROVE  IsFiniteSet(UsesOf(g)) /\ Cardinality(UsesOf(g)) = Cardinality(UsesOf(f)) + 1
<1>1. UsesOf(g) = UsesOf(f) \cup {<<t, g[t]>>}
  <2>1. g[t] \in Nat /\ f[t] \in Nat /\ g[t] = f[t] + 1 /\ \A u \in Tasks \ {t} : g[u] = f[u]
    OBVIOUS
  <2>2. 1..g[t] = (1..f[t]) \cup {g[t]}
    BY <2>1
  <2>3. ASSUME NEW x PROVE x \in UsesOf(g) <=> \E u \in Tasks : x \in {u} \X (1..g[u])
    BY DEF UsesOf
  <2>4. ASSUME NEW x PROVE x \in UsesOf(f) <=> \E u \in Tasks : x \in {u} \X (1..f[u])
    BY DEF UsesOf
  <2>5. {t} \X (1..g[t]) = ({t} \X (1..f[t])) \cup {<<t, g[t]>>}
    BY <2>2
  <2>. QED  BY <2>1, <2>3, <2>4, <2>5
<1>2. <<t, g[t]>> \notin UsesOf(f)
  <2>1. g[t] \in Nat /\ f[t] \in Nat /\ g[t] = f[t] + 1
    OBVIOUS
  <2>2. g[t] \notin 1..f[t]
    BY <2>1
  <2>3. ASSUME NEW u \in Tasks PROVE <<t, g[t]>> \notin {u} \X (1..f[u])
    BY <2>2
  <2>4. ASSUME NEW x PROVE x \in UsesOf(f) <=> \E u \in Tasks : x \in {u} \X (1..f[u])
    BY DEF UsesOf
  <2>5. <<t, g[t]>> \in UsesOf(f) <=> \E u \in Tasks : <<t, g[t]>> \in {u} \X (1..f[u])
    BY <2>4, Zenon
  <2>. QED  BY <2>3, <2>5, Zenon
<1>3. Cardinality(UsesOf(f) \cup {<<t, g[t]>>}) = Cardinality(UsesOf(f)) + 1 /\ IsFiniteSet(UsesOf(f) \cup {<<t, g[t]>>})
  BY <1>2, FS_AddElement
<1>. QED  BY <1>1, <1>3

LEMMA UsesSame ==
    ASSUME NEW f, NEW g, \A t \in Tasks : g[t] = f[t]
    PROVE  UsesOf(g) = UsesOf(f)
<1>. QED  BY DEF UsesOf

LEMMA UsesPositive ==
    ASSUME NEW f \in [Tasks -> Nat], NEW t \in Tasks, f[t] > 0, IsFiniteSet(UsesOf(f))
    PROVE  Cardinality(UsesOf(f)) \in Nat /\ Cardinality(UsesOf(f)) > 0
<1>1. <<t, 1>> \in UsesOf(f)
  BY DEF UsesOf
<1>. QED  BY <1>1, FS_EmptySet, FS_CardinalityType

LEMMA OneAtMost ==
    ASSUME NEW S, NEW t, S \subseteq {t}
    PROVE  Cardinality(S) = IF t \in S THEN 1 ELSE 0
<1>1. S = {} \/ S = {t}
  OBVIOUS
<1>. QED  BY <1>1, FS_EmptySet, FS_Singleton

-----------------------------------------------------------------------------
(* What a step of a task in a call, to a place of a call, does with the    *)
(* mutexes and the inode: it holds what it must hold there and no more,    *)
(* and takes no inode from another.                                        *)
Others(t) == Tasks \ {t}
Holds(m, n, t, holds) ==
  IF holds THEN m \in {None, t} /\ n = t ELSE n = IF m = t THEN None ELSE m

Moved(t, p, c) ==
  /\ p \in {"idle"} \cup PlacesOf(c) /\ c \in Calls
  /\ pc' = [pc EXCEPT ![t] = p] /\ call' = [call EXCEPT ![t] = c]
  /\ mounted = "yes" /\ mounted' = "yes"
  /\ p # "idle" => inode'.cached /\ (c = "create" => inode'.new = t)
  /\ Holds(csMutex, csMutex', t, p # "idle" /\ Section(p, c))
  /\ Holds(fileMutex, fileMutex', t, p = "kthread")
  /\ inode'.new = t => p # "idle" /\ c \in {"create", "lookup"} /\ \A u \in Others(t) : pc[u] = "idle"
  /\ \A u \in Others(t) : /\ inode'.new = u <=> inode.new = u
                          /\ inode.new = u => p = "idle"
                          /\ pc[u] # "idle" => inode'.cached

LEMMA NoTask == None \notin Tasks
<1>. QED  BY KeysAssumption

LEMMA PlacesTyped ==
    ASSUME NEW c \in Calls
    PROVE  PlacesOf(c) \subseteq Places /\ "idle" \in Places /\ "mount" \in Places
           /\ "idle" \notin PlacesOf(c) /\ "mount" \notin PlacesOf(c)
<1>1. "idle" \notin PlacesOf(c) /\ "mount" \notin PlacesOf(c)
  BY DEF PlacesOf, Calls
<1>. QED  BY <1>1 DEF Places

LEMMA MovedKeepsControl ==
    ASSUME Control, FileTyped', NEW t \in Tasks, NEW p, NEW c, Moved(t, p, c)
    PROVE  Control'
<1>. USE NoTask DEF Others
<1>1. /\ pc' \in [Tasks -> Places] /\ call' \in [Tasks -> Calls] /\ pc \in [Tasks -> Places] /\ call \in [Tasks -> Calls]
      /\ csMutex \in Tasks \cup {None} /\ fileMutex \in Tasks \cup {None}
      /\ pc'[t] = p /\ call'[t] = c
      /\ \A u \in Others(t) : pc'[u] = pc[u] /\ call'[u] = call[u]
  BY DEF Control, FileTyped, Moved
<1>2. c \in Calls /\ p # "mount" /\ (p # "idle" => p \in PlacesOf(c))
  BY PlacesTyped DEF Moved
<1>3. ASSUME NEW u \in Tasks PROVE PlaceOf(u)'
  <2>1. CASE u = t
    <3>1. Busy(t)' <=> p # "idle"
      BY <1>1, <1>2, <2>1 DEF Busy
    <3>2. /\ Busy(t)' => pc'[t] \in PlacesOf(call'[t]) /\ mounted' = "yes" /\ inode'.cached
          /\ Busy(t)' /\ call'[t] = "create" => inode'.new = t
          /\ inode'.new = t => Busy(t)' /\ call'[t] \in {"create", "lookup"}
          /\ pc'[t] = "mount" => mounted' = "no"
      BY <1>1, <1>2, <3>1 DEF Moved
    <3>3. csMutex' = t <=> Section(pc'[t], call'[t]) /\ Busy(t)'
      BY <1>1, <1>2, <3>1 DEF Moved, Holds
    <3>4. fileMutex' = t <=> pc'[t] = "kthread"
      BY <1>1, <1>2, <3>1 DEF Moved, Holds
    <3>. QED  BY <2>1, <3>2, <3>3, <3>4 DEF PlaceOf
  <2>2. CASE u # t
    <3>0. PlaceOf(u) /\ u \in Others(t) /\ u # None
      BY <2>2 DEF Control
    <3>1. (Busy(u)' <=> Busy(u)) /\ pc'[u] = pc[u] /\ call'[u] = call[u]
      BY <1>1, <2>2 DEF Busy
    <3>2. /\ Busy(u)' => pc'[u] \in PlacesOf(call'[u]) /\ mounted' = "yes" /\ inode'.cached
          /\ pc'[u] = "mount" => mounted' = "no"
      BY <3>0, <3>1 DEF Moved, PlaceOf, Busy
    <3>3. /\ Busy(u)' /\ call'[u] = "create" => inode'.new = u
          /\ inode'.new = u => Busy(u)' /\ call'[u] \in {"create", "lookup"}
      BY <3>0, <3>1 DEF Moved, PlaceOf
    <3>4. (csMutex' = u <=> csMutex = u) /\ (fileMutex' = u <=> fileMutex = u)
      BY <3>0, <1>1, <2>2 DEF Moved, Holds
    <3>. QED  BY <3>0, <3>1, <3>2, <3>3, <3>4 DEF PlaceOf
  <2>. QED  BY <2>1, <2>2
<1>4. ASSUME NEW x \in Tasks, pc'[x] = "mount" \/ inode'.new = x, NEW u \in Tasks \ {x} PROVE pc'[u] = "idle"
  <2>0. pc'[x] # "mount"
    <3>1. PlaceOf(x)' /\ mounted' = "yes"
      BY <1>3 DEF Moved
    <3>. QED  BY <3>1 DEF PlaceOf
  <2>1. CASE x = t
    BY <1>1, <1>4, <2>0, <2>1 DEF Moved
  <2>2. CASE x # t
    <3>1. inode.new = x /\ p = "idle"
      BY <1>4, <2>0, <2>2 DEF Moved
    <3>2. pc[u] = "idle"
      BY <3>1 DEF Control, Alone
    <3>. QED  BY <1>1, <3>1, <3>2
  <2>. QED  BY <2>1, <2>2
<1>. QED  BY <1>3, <1>4 DEF Control, Alone

LEMMA GoesOn ==
    ASSUME Control, NEW t \in Tasks, Busy(t), NEW p \in PlacesOf(call[t]),
           pc' = [pc EXCEPT ![t] = p], UNCHANGED <<call, mounted>>,
           inode'.cached = inode.cached, inode'.new = inode.new,
           Holds(csMutex, csMutex', t, Section(p, call[t])), Holds(fileMutex, fileMutex', t, p = "kthread")
    PROVE  Moved(t, p, call[t])
<1>1. PlaceOf(t) /\ call[t] \in Calls /\ call' = [call EXCEPT ![t] = call[t]] /\ p # "idle"
  BY PlacesTyped DEF Control, FileTyped
<1>2. \A u \in Others(t) : PlaceOf(u) /\ (inode.new = t => pc[u] = "idle") /\ (inode.new = u => pc[t] = "idle")
  BY DEF Control, Alone, Others
<1>3. Holds(csMutex, csMutex', t, p # "idle" /\ Section(p, call[t]))
  BY <1>1 DEF Holds
<1>4. /\ mounted = "yes" /\ mounted' = "yes" /\ inode'.cached
      /\ call[t] = "create" => inode'.new = t
      /\ inode'.new = t => call[t] \in {"create", "lookup"} /\ \A u \in Others(t) : pc[u] = "idle"
  BY <1>1, <1>2 DEF PlaceOf
<1>5. \A u \in Others(t) : inode.new # u
  BY <1>2 DEF Busy
<1>. QED  BY <1>1, <1>3, <1>4, <1>5 DEF Moved

LEMMA Leaves ==
    ASSUME Control, NEW t \in Tasks, Busy(t),
           pc' = [pc EXCEPT ![t] = "idle"], UNCHANGED <<call, mounted>>,
           csMutex' = (IF csMutex = t THEN None ELSE csMutex),
           fileMutex' = (IF fileMutex = t THEN None ELSE fileMutex),
           \/ inode'.cached = inode.cached /\ inode'.new = inode.new /\ inode.new # t
           \/ inode.new = t /\ inode'.new = None
    PROVE  Moved(t, "idle", call[t])
<1>1. PlaceOf(t) /\ call[t] \in Calls /\ call' = [call EXCEPT ![t] = call[t]]
  BY DEF Control, FileTyped
<1>2. \A u \in Others(t) : PlaceOf(u) /\ (inode.new = t => pc[u] = "idle") /\ (inode.new = u => pc[t] = "idle")
  BY DEF Control, Alone, Others
<1>. QED  BY <1>1, <1>2, NoTask DEF Moved, PlaceOf, Busy, Holds, Others

(* Records and their fields.                                               *)
LEMMA InodeFields ==
    ASSUME NEW i \in Inode
    PROVE  /\ i.cached \in BOOLEAN /\ i.new \in Tasks \cup {None} /\ i.policy \in BOOLEAN
           /\ i.valid \in BOOLEAN /\ i.encrypted \in BOOLEAN /\ i.inXattr \in BOOLEAN
           /\ i.fek \in Nat /\ i.sigs \in Seq(Sigs) /\ i.size \in Nat /\ i.sized \in BOOLEAN
           /\ i.stray \in BOOLEAN /\ i.bad \in BOOLEAN
<1>. QED  BY DEF Inode

LEMMA LowerFields ==
    ASSUME NEW l \in LowerFile
    PROVE  /\ l.exists \in BOOLEAN /\ l.nonempty \in BOOLEAN /\ l.contents \in Meta /\ l.xattr \in Meta
           /\ \A m \in Meta : m.fek \in Nat /\ m.sigs \in Seq(Sigs) /\ m.size \in Nat
<1>. QED  BY DEF LowerFile, Meta

LEMMA Records ==
  /\ NoMeta \in Meta /\ NoFile \in LowerFile /\ [NoFile EXCEPT !.exists = TRUE] \in LowerFile
  /\ Gone \in Inode /\ \A t \in Tasks : Fresh(t) \in Inode /\ Fresh(t).new = t /\ Fresh(t).cached
  /\ Gone.new = None /\ ~Gone.cached
<1>1. << >> \in Seq(Sigs)
  OBVIOUS
<1>2. NoMeta \in Meta
  BY <1>1 DEF NoMeta, Meta
<1>3. NoFile \in LowerFile
  BY <1>2 DEF NoFile, LowerFile
<1>4. [NoFile EXCEPT !.exists = TRUE] \in LowerFile
  BY <1>3 DEF LowerFile
<1>5. Gone \in Inode
  BY <1>1 DEF Gone, Inode
<1>6. \A t \in Tasks : Fresh(t) \in Inode /\ Fresh(t).new = t /\ Fresh(t).cached
  BY <1>5 DEF Fresh, Inode
<1>. QED  BY <1>2, <1>3, <1>4, <1>5, <1>6 DEF Gone

LEMMA Typed ==
    ASSUME FileTyped, NEW t \in Tasks
    PROVE  /\ pc[t] \in Places /\ call[t] \in Calls /\ seen[t] \in Nat
           /\ \A p \in Places : [pc EXCEPT ![t] = p] \in [Tasks -> Places]
           /\ \A c \in Calls : [call EXCEPT ![t] = c] \in [Tasks -> Calls]
           /\ \A n \in Nat : [seen EXCEPT ![t] = n] \in [Tasks -> Nat]
<1>. QED  BY DEF FileTyped

LEMMA PutTyped ==
    ASSUME Put
    PROVE  file' \in BOOLEAN /\ fileMutex' = fileMutex
<1>. QED  BY DEF Put

(* Every step of a call leaves the places, the mutexes and the inode as    *)
(* the invariant has them: first those to do with the lower file.          *)
LEMMA AfterGets ==
    ASSUME Control, NEW t \in Tasks, pc[t] \in {"get", "kthread", "get2"}
    PROVE  /\ AfterGet(t) \in PlacesOf(call[t]) /\ AfterGet(t) # "kthread"
           /\ Section(AfterGet(t), call[t]) <=> Section(pc[t], call[t])
<1>1. PlaceOf(t) /\ Busy(t) /\ call[t] \in Calls
  BY DEF Control, FileTyped, Busy
<1>. QED  BY <1>1 DEF AfterGet, PlaceOf, PlacesOf, Calls, Section

LEMMA GetsAndPutsControl ==
    ASSUME Control, NEW t \in Tasks, GetsAndPuts(t)
    PROVE  Control'
<1>. USE DEF At, To
<1>0. PlaceOf(t) /\ FileTyped /\ call[t] \in Calls /\ csMutex \in Tasks \cup {None} /\ fileMutex \in Tasks \cup {None} /\ t # None
  BY NoTask DEF Control, FileTyped
<1>1. CASE get_lower_file(t)
  <2>0. PICK p \in {AfterGet(t), "kthread"} :
           pc' = [pc EXCEPT ![t] = p] /\ Holds(fileMutex, fileMutex', t, p = "kthread")
    BY <1>0, <1>1, AfterGets DEF get_lower_file, Holds, PlaceOf
  <2>1. p \in PlacesOf(call[t]) /\ Busy(t) /\ (Section(p, call[t]) <=> Section(pc[t], call[t]))
    BY <1>0, <1>1, AfterGets DEF get_lower_file, PlaceOf, Busy, PlacesOf, Section, Calls
  <2>2. Holds(csMutex, csMutex', t, Section(p, call[t]))
    BY <1>0, <1>1, <2>1 DEF get_lower_file, PlaceOf, Holds
  <2>3. Moved(t, p, call[t])
    BY <1>1, <2>0, <2>1, <2>2, GoesOn DEF get_lower_file
  <2>4. FileTyped'
    BY <1>0, <1>1, <2>0, <2>1, PlacesTyped DEF FileTyped, get_lower_file
  <2>. QED  BY <2>3, <2>4, MovedKeepsControl
<1>2. CASE ecryptfs_threadfn(t)
  <2>1. AfterGet(t) \in PlacesOf(call[t]) /\ Busy(t) /\ fileMutex = t
    BY <1>0, <1>2, AfterGets DEF ecryptfs_threadfn, PlaceOf, Busy
  <2>2. Holds(csMutex, csMutex', t, Section(AfterGet(t), call[t])) /\ Holds(fileMutex, fileMutex', t, AfterGet(t) = "kthread")
    BY <1>0, <1>2, <2>1, AfterGets DEF ecryptfs_threadfn, PlaceOf, Holds
  <2>3. Moved(t, AfterGet(t), call[t])
    BY <1>2, <2>1, <2>2, GoesOn DEF ecryptfs_threadfn
  <2>4. FileTyped'
    BY <1>0, <1>2, <2>1, PlacesTyped DEF FileTyped, ecryptfs_threadfn
  <2>. QED  BY <2>3, <2>4, MovedKeepsControl
<1>3. CASE get_lower_file_fails(t)
  <2>1. Busy(t) /\ fileMutex = t
    BY <1>0, <1>3 DEF get_lower_file_fails, PlaceOf, Busy
  <2>2. inode' \in Inode
    BY <1>0, <1>3, Records DEF get_lower_file_fails, AfterFailedGet, FileTyped, Inode
  <2>3. \/ inode'.cached = inode.cached /\ inode'.new = inode.new /\ inode.new # t
        \/ inode.new = t /\ inode'.new = None
    <3>1. CASE call[t] = "create" \/ inode.new = t
      BY <1>0, <1>3, <2>1, <3>1, Records DEF get_lower_file_fails, AfterFailedGet, PlaceOf
    <3>2. CASE call[t] = "lookup" /\ inode.new # t
      BY <1>0, <1>3, <3>2 DEF get_lower_file_fails, AfterFailedGet, FileTyped, Inode
    <3>3. CASE call[t] \notin {"create", "lookup"}
      BY <1>0, <1>3, <3>3 DEF get_lower_file_fails, AfterFailedGet, PlaceOf
    <3>. QED  BY <3>1, <3>2, <3>3
  <2>4. Moved(t, "idle", call[t])
    BY <1>3, <2>1, <2>3, Leaves DEF get_lower_file_fails
  <2>5. FileTyped'
    BY <1>0, <1>3, <2>2, Typed, PlacesTyped, Records, NoTask DEF FileTyped, get_lower_file_fails
  <2>. QED  BY <2>4, <2>5, MovedKeepsControl
<1>4. CASE get_lower_file_again(t)
  <2>1. AfterGet(t) \in PlacesOf(call[t]) /\ Busy(t) /\ fileMutex # t
    BY <1>0, <1>4, AfterGets DEF get_lower_file_again, PlaceOf, Busy
  <2>2. Holds(csMutex, csMutex', t, Section(AfterGet(t), call[t])) /\ Holds(fileMutex, fileMutex', t, AfterGet(t) = "kthread")
    BY <1>0, <1>4, <2>1, AfterGets DEF get_lower_file_again, PlaceOf, Holds
  <2>3. Moved(t, AfterGet(t), call[t])
    BY <1>4, <2>1, <2>2, GoesOn DEF get_lower_file_again
  <2>4. FileTyped'
    BY <1>0, <1>4, <2>1, PlacesTyped DEF FileTyped, get_lower_file_again
  <2>. QED  BY <2>3, <2>4, MovedKeepsControl
<1>5. CASE ecryptfs_put_lower_file(t)
  <2>1. Busy(t) /\ call[t] = "open" /\ csMutex # t /\ fileMutex # t /\ inode.new # t
    BY <1>0, <1>5 DEF ecryptfs_put_lower_file, PlaceOf, Busy, Section, PlacesOf, Calls
  <2>2. Moved(t, "idle", call[t])
    BY <1>5, <2>1, Leaves DEF ecryptfs_put_lower_file, Put
  <2>3. FileTyped'
    BY <1>0, <1>5, Typed, PlacesTyped DEF FileTyped, ecryptfs_put_lower_file, Put
  <2>. QED  BY <2>2, <2>3, MovedKeepsControl
<1>. QED  BY <1>1, <1>2, <1>3, <1>4, <1>5 DEF GetsAndPuts

LEMMA UnmovedControl ==
    ASSUME Control,
           UNCHANGED <<mnt, mounted, lower, inode, csMutex, file, fileMutex, pc, call, seen, feks, stale>>
    PROVE  Control'
<1>1. FileTyped'
  BY DEF Control, FileTyped
<1>2. \A t \in Tasks : PlaceOf(t)'
  BY DEF Control, PlaceOf, Busy
<1>3. Alone'
  BY DEF Control, Alone
<1>. QED  BY <1>1, <1>2, <1>3 DEF Control

(* A new context is one of the inode's, in the cache and as new as it was. *)
LEMMA NewContextTyped ==
    ASSUME FileTyped, NEW n \in 0..Len(mnt.sigs), NEW fek \in Nat
    PROVE  /\ Len(mnt.sigs) \in Nat /\ Len(mnt.sigs) > 0
           /\ NewContext(n, fek) \in Inode
           /\ NewContext(n, fek).cached = inode.cached /\ NewContext(n, fek).new = inode.new
<1>1. mnt \in Mounts /\ mnt.sigs \in Seq(Sigs) /\ mnt.sigs # << >> /\ mnt.xattr \in BOOLEAN /\ inode \in Inode
  BY OpenAssumption DEF FileTyped
<1>2. Len(mnt.sigs) \in Nat /\ Len(mnt.sigs) > 0
  BY <1>1, EmptySeq
<1>3. SubSeq(mnt.sigs, Len(mnt.sigs) - n + 1, Len(mnt.sigs)) \in Seq(Sigs)
  <2>1. \A i \in (Len(mnt.sigs) - n + 1)..Len(mnt.sigs) : i \in 1..Len(mnt.sigs)
    BY <1>2
  <2>2. \A i \in (Len(mnt.sigs) - n + 1)..Len(mnt.sigs) : mnt.sigs[i] \in Sigs
    BY <2>1, <1>1, ElementOfSeq
  <2>. QED  BY <1>2, <2>2, SubSeqProperties
<1>4. SubSeq(mnt.sigs, Len(mnt.sigs) - n + 1, Len(mnt.sigs)) \o inode.sigs \in Seq(Sigs)
  BY <1>1, <1>3, InodeFields, ConcatProperties
<1>5. NewContext(n, fek) \in Inode
  BY <1>1, <1>4, InodeFields DEF NewContext, Inode
<1>6. NewContext(n, fek).cached = inode.cached /\ NewContext(n, fek).new = inode.new
  BY <1>1 DEF NewContext, Inode
<1>. QED  BY <1>2, <1>5, <1>6

LEMMA GiveUpControl ==
    ASSUME Control, NEW t \in Tasks, pc[t] \in {"context", "header"}, NEW i \in Inode,
           i.cached = inode.cached, i.new = inode.new, GiveUp(t, i),
           UNCHANGED <<mnt, mounted, fileMutex, seen, stale>>, file' \in BOOLEAN, feks' \in Nat
    PROVE  Control'
<1>. USE DEF GiveUp, To
<1>0. /\ PlaceOf(t) /\ FileTyped /\ t # None /\ Busy(t) /\ call[t] \in {"create", "open"} /\ fileMutex # t
  BY NoTask DEF Control, FileTyped, PlaceOf, Busy, PlacesOf, Calls
<1>1. FileTyped'
  <2>1. [i EXCEPT !.stray = TRUE] \in Inode
    BY DEF Inode
  <2>2. inode' \in Inode /\ lower' \in LowerFile
    BY <1>0, <2>1, Records DEF FileTyped
  <2>3. "idle" \in Places /\ "put" \in Places
    BY DEF Places, PlacesOf, Calls
  <2>4. pc' \in [Tasks -> Places] /\ call' = call
    BY <1>0, <2>3, Typed
  <2>5. csMutex' \in Tasks \cup {None}
    BY <1>0 DEF FileTyped
  <2>. QED  BY <1>0, <2>2, <2>4, <2>5 DEF FileTyped
<1>2. CASE call[t] = "create"
  <2>1. inode.new = t /\ inode'.new = None /\ csMutex # t
    BY <1>0, <1>2, Records DEF PlaceOf, Section
  <2>2. Moved(t, "idle", call[t])
    BY <1>0, <1>2, <2>1, Leaves
  <2>. QED  BY <1>1, <2>2, MovedKeepsControl
<1>3. CASE call[t] = "open"
  <2>1. "put" \in PlacesOf(call[t]) /\ ~Section("put", call[t]) /\ Section(pc[t], call[t]) /\ csMutex = t
    BY <1>0, <1>3 DEF PlaceOf, PlacesOf, Section
  <2>2. Holds(csMutex, csMutex', t, Section("put", call[t])) /\ Holds(fileMutex, fileMutex', t, "put" = "kthread")
    BY <1>0, <1>3, <2>1 DEF Holds
  <2>3. inode'.cached = inode.cached /\ inode'.new = inode.new
    BY <1>3 DEF Inode
  <2>4. Moved(t, "put", call[t])
    BY <1>0, <1>3, <2>1, <2>2, <2>3, GoesOn
  <2>. QED  BY <1>1, <2>4, MovedKeepsControl
<1>. QED  BY <1>0, <1>2, <1>3

LEMMA InitializeControl ==
    ASSUME Control, NEW t \in Tasks, Initialize(t)
    PROVE  Control'
<1>. USE DEF At, To
<1>0. PlaceOf(t) /\ FileTyped /\ call[t] \in Calls /\ t # None /\ inode \in Inode /\ feks \in Nat /\ lower \in LowerFile
  BY NoTask DEF Control, FileTyped
<1>1. CASE new_file_context(t)
  <2>0. Len(mnt.sigs) \in 0..Len(mnt.sigs)
    BY <1>0, OpenAssumption, EmptySeq DEF FileTyped
  <2>1. Busy(t) /\ call[t] \in {"create", "open"} /\ csMutex \in {None, t} \cup Tasks /\ fileMutex # t
    BY <1>0, <1>1 DEF new_file_context, Busy, PlaceOf, PlacesOf, Calls, Control, FileTyped
  <2>2. inode' \in Inode /\ inode'.cached = inode.cached /\ inode'.new = inode.new
    BY <1>0, <1>1, <2>0, NewContextTyped DEF new_file_context
  <2>3. PICK p \in {"get", "get2"} : pc' = [pc EXCEPT ![t] = p] /\ p = IF call[t] = "create" THEN "get" ELSE "get2"
    BY <1>1 DEF new_file_context
  <2>4. p \in PlacesOf(call[t]) /\ (Section(p, call[t]) <=> Section("context", call[t]))
    BY <2>1, <2>3 DEF PlacesOf, Section
  <2>5. Holds(csMutex, csMutex', t, Section(p, call[t])) /\ Holds(fileMutex, fileMutex', t, p = "kthread")
    BY <1>0, <1>1, <2>1, <2>3, <2>4 DEF new_file_context, PlaceOf, Holds, fileVars
  <2>6. Moved(t, p, call[t])
    BY <1>1, <2>1, <2>2, <2>3, <2>4, <2>5, GoesOn DEF new_file_context
  <2>7. FileTyped'
    BY <1>0, <1>1, <2>2, <2>3, <2>4, Typed, PlacesTyped DEF FileTyped, new_file_context, fileVars
  <2>. QED  BY <2>6, <2>7, MovedKeepsControl
<1>2. CASE new_file_context_fails(t)
  <2>1. PICK n \in 0..Len(mnt.sigs), fek \in Nat : GiveUp(t, NewContext(n, fek))
    <3>1. mnt.sigs \in Seq(Sigs) /\ Len(mnt.sigs) \in Nat /\ inode.fek \in Nat /\ feks + 1 \in Nat
      BY <1>0, OpenAssumption, EmptySeq, InodeFields DEF FileTyped
    <3>2. 0..(Len(mnt.sigs) - 1) \subseteq 0..Len(mnt.sigs) /\ Len(mnt.sigs) \in 0..Len(mnt.sigs)
      BY <3>1
    <3>. QED  BY <1>2, <3>1, <3>2, Zenon DEF new_file_context_fails
  <2>2. NewContext(n, fek) \in Inode /\ NewContext(n, fek).cached = inode.cached /\ NewContext(n, fek).new = inode.new
    BY <1>0, NewContextTyped
  <2>3. UNCHANGED <<mnt, mounted, fileMutex, seen, stale>> /\ file' \in BOOLEAN /\ feks' \in Nat /\ pc[t] = "context"
    BY <1>0, <1>2, <2>1 DEF new_file_context_fails, fileVars, FileTyped, GiveUp
  <2>. QED  BY <2>1, <2>2, <2>3, GiveUpControl
<1>3. CASE generate_key_packet_set(t)
  BY <1>3, UnmovedControl DEF generate_key_packet_set, fileVars, taskVars
<1>4. CASE write_metadata(t)
  <2>1. Busy(t) /\ call[t] \in {"create", "open"} /\ fileMutex # t
    BY <1>0, <1>4 DEF write_metadata, Busy, PlaceOf, PlacesOf, Calls
  <2>2. Written \in Meta
    BY <1>0, InodeFields DEF Written, Meta
  <2>3. lower' \in LowerFile
    BY <1>0, <1>4, <2>2 DEF write_metadata, LowerFile
  <2>4. inode' \in Inode
    BY <1>0, <1>4 DEF write_metadata, Inode
  <2>5. FileTyped'
    <3>1. "idle" \in Places /\ "opened" \in Places
      BY DEF Places, PlacesOf, Calls
    <3>2. pc' \in [Tasks -> Places] /\ UNCHANGED <<call, seen>>
      BY <1>0, <1>4, <3>1, Typed DEF write_metadata
    <3>3. csMutex' \in Tasks \cup {None} /\ fileMutex' = fileMutex /\ file' \in BOOLEAN
      BY <1>0, <1>4 DEF write_metadata, Put, FileTyped
    <3>. QED  BY <1>0, <1>4, <2>3, <2>4, <3>2, <3>3 DEF FileTyped, write_metadata
  <2>6. CASE call[t] = "create"
    <3>1. inode.new = t /\ inode'.new = None /\ csMutex # t
      BY <1>0, <1>4, <2>1, <2>6 DEF write_metadata, PlaceOf, Section, Inode
    <3>2. Moved(t, "idle", call[t])
      BY <1>4, <2>1, <2>6, <3>1, Leaves DEF write_metadata, Put
    <3>. QED  BY <2>5, <3>2, MovedKeepsControl
  <2>7. CASE call[t] = "open"
    <3>1. "opened" \in PlacesOf(call[t]) /\ ~Section("opened", call[t]) /\ csMutex = t
      BY <1>0, <1>4, <2>1, <2>7 DEF write_metadata, PlaceOf, PlacesOf, Section
    <3>2. Holds(csMutex, csMutex', t, Section("opened", call[t])) /\ Holds(fileMutex, fileMutex', t, "opened" = "kthread")
      BY <1>4, <2>1, <2>7, <3>1 DEF write_metadata, Put, Holds
    <3>3. inode'.cached = inode.cached /\ inode'.new = inode.new
      BY <1>0, <1>4, <2>7 DEF write_metadata, Inode
    <3>4. Moved(t, "opened", call[t])
      BY <1>4, <2>1, <2>7, <3>1, <3>2, <3>3, GoesOn DEF write_metadata
    <3>. QED  BY <2>5, <3>4, MovedKeepsControl
  <2>. QED  BY <2>1, <2>6, <2>7
<1>5. CASE write_metadata_fails(t)
  BY <1>0, <1>5, GiveUpControl DEF write_metadata_fails, FileTyped, Put, GiveUp
<1>. QED  BY <1>1, <1>2, <1>3, <1>4, <1>5 DEF Initialize

(* A step within a call that leaves lower_file_mutex alone, and one that   *)
(* ends it.                                                                *)
LEMMA Continues ==
    ASSUME Control, NEW t \in Tasks, Busy(t), pc[t] # "kthread", NEW p \in PlacesOf(call[t]), p # "kthread",
           pc' = [pc EXCEPT ![t] = p], UNCHANGED <<call, mnt, mounted, fileMutex, feks>>,
           lower' \in LowerFile, file' \in BOOLEAN, stale' \in BOOLEAN, seen' \in [Tasks -> Nat],
           inode' \in Inode, inode'.cached = inode.cached, inode'.new = inode.new,
           Holds(csMutex, csMutex', t, Section(p, call[t]))
    PROVE  Control'
<1>1. PlaceOf(t) /\ FileTyped /\ fileMutex # t /\ csMutex' \in Tasks \cup {None}
  BY DEF Control, PlaceOf, FileTyped, Holds
<1>2. Holds(fileMutex, fileMutex', t, p = "kthread")
  BY <1>1 DEF Holds
<1>3. Moved(t, p, call[t])
  BY <1>2, GoesOn
<1>4. FileTyped'
  BY <1>1, Typed, PlacesTyped DEF FileTyped
<1>. QED  BY <1>3, <1>4, MovedKeepsControl

LEMMA Ends ==
    ASSUME Control, NEW t \in Tasks, Busy(t), pc[t] # "kthread",
           pc' = [pc EXCEPT ![t] = "idle"], UNCHANGED <<call, seen, mnt, mounted, fileMutex, feks, lower, stale>>,
           file' \in BOOLEAN, inode' \in Inode, csMutex' = (IF csMutex = t THEN None ELSE csMutex),
           \/ inode'.cached = inode.cached /\ inode'.new = inode.new /\ inode.new # t
           \/ inode.new = t /\ inode'.new = None
    PROVE  Control'
<1>1. PlaceOf(t) /\ FileTyped /\ fileMutex # t /\ csMutex' \in Tasks \cup {None} /\ call[t] \in Calls
  BY DEF Control, PlaceOf, FileTyped
<1>2. Moved(t, "idle", call[t])
  BY <1>1, Leaves
<1>3. FileTyped'
  BY <1>1, Typed, PlacesTyped DEF FileTyped
<1>. QED  BY <1>2, <1>3, MovedKeepsControl

(* Where the calls are that read metadata.                                 *)
Reads == {"contents", "parse contents", "xattr", "parse xattr", "no metadata"}

LEMMA ReadsIn ==
    ASSUME Control, NEW t \in Tasks, pc[t] \in Reads \cup {"metadata"}
    PROVE  /\ Busy(t) /\ call[t] \in {"open", "setattr"} /\ pc[t] # "kthread" /\ inode.new # t
           /\ Reads \subseteq PlacesOf(call[t]) /\ "kthread" \notin Reads
           /\ \A p \in Reads : Section(p, call[t])
           /\ pc[t] \in Reads \/ call[t] = "setattr" => csMutex = t
<1>1. PlaceOf(t) /\ call[t] \in Calls
  BY DEF Control, FileTyped
<1>2. Busy(t)
  BY DEF Busy, Reads
<1>3. call[t] \in {"open", "setattr"}
  BY <1>1, <1>2 DEF PlaceOf, PlacesOf, Calls, Reads
<1>. QED  BY <1>1, <1>2, <1>3 DEF PlaceOf, PlacesOf, Calls, Reads, Section

LEMMA HeadedTyped ==
    ASSUME inode \in Inode, NEW m \in Meta, NEW b \in BOOLEAN
    PROVE  /\ Headed(m, b) \in Inode /\ Headed(m, b).cached = inode.cached /\ Headed(m, b).new = inode.new
           /\ Keyed(m, b) \in Inode /\ Keyed(m, b).cached = inode.cached /\ Keyed(m, b).new = inode.new
<1>1. m.fek \in Nat /\ m.size \in Nat
  BY DEF Meta
<1>2. Headed(m, b) \in Inode /\ Headed(m, b).cached = inode.cached /\ Headed(m, b).new = inode.new
  BY <1>1 DEF Headed, Inode
<1>3. Keyed(m, b) \in Inode /\ Keyed(m, b).cached = inode.cached /\ Keyed(m, b).new = inode.new
  BY <1>1 DEF Keyed, Inode
<1>. QED  BY <1>2, <1>3

LEMMA ReadHeadersControl ==
    ASSUME Control, NEW t \in Tasks, NEW place \in Reads, NEW m \in Meta, NEW b \in BOOLEAN,
           NEW next \in Reads, NEW otherwise \in Reads, read_headers(t, place, m, b, next, otherwise)
    PROVE  Control'
<1>. USE DEF At, To
<1>1. /\ pc[t] = place /\ csMutex' = csMutex
      /\ UNCHANGED <<call, seen, mnt, mounted, fileMutex, file, lower, feks, stale>>
      /\ \E p \in {next, otherwise} : pc' = [pc EXCEPT ![t] = p]
      /\ inode' = Headed(m, b) \/ inode' = inode
  BY DEF read_headers, fileVars
<1>2. PICK p \in Reads : pc' = [pc EXCEPT ![t] = p]
  BY <1>1
<1>3. FileTyped /\ inode \in Inode
  BY DEF Control, FileTyped
<1>4. inode' \in Inode /\ inode'.cached = inode.cached /\ inode'.new = inode.new
  BY <1>1, <1>3, HeadedTyped
<1>5. Busy(t) /\ pc[t] # "kthread" /\ p \in PlacesOf(call[t]) /\ p # "kthread" /\ Section(p, call[t]) /\ csMutex = t
  BY <1>1, <1>2, ReadsIn
<1>6. Holds(csMutex, csMutex', t, Section(p, call[t]))
  BY <1>1, <1>5 DEF Holds
<1>. QED  BY <1>1, <1>2, <1>3, <1>4, <1>5, <1>6, Continues DEF FileTyped

LEMMA OpenedControl ==
    ASSUME Control, NEW t \in Tasks, pc[t] \in Reads, NEW i \in Inode, i.cached = inode.cached, i.new = inode.new,
           Opened(t, i), UNCHANGED <<mnt, mounted, lower, file, fileMutex, feks, stale>>
    PROVE  Control'
<1>. USE DEF Opened, To
<1>1. FileTyped
  BY DEF Control
<1>2. PICK p \in {"attr read", "opened"} :
         /\ pc' = [pc EXCEPT ![t] = p] /\ UNCHANGED <<call, seen>>
         /\ p \in PlacesOf(call[t]) /\ csMutex = t
         /\ csMutex' = IF Section(p, call[t]) THEN t ELSE None
  BY ReadsIn DEF PlacesOf, Section
<1>3. Holds(csMutex, csMutex', t, Section(p, call[t]))
  BY <1>2 DEF Holds
<1>. QED  BY <1>1, <1>2, <1>3, ReadsIn, Continues DEF FileTyped

(* Reading the metadata.                                                   *)
LEMMA ReadsOnControl ==
    ASSUME Control, NEW t \in Tasks, pc[t] \in Reads, NEW p \in Reads, To(t, p),
           inode' \in Inode, inode'.cached = inode.cached, inode'.new = inode.new,
           UNCHANGED <<mnt, mounted, lower, csMutex, file, fileMutex, feks, stale>>
    PROVE  Control'
<1>1. Holds(csMutex, csMutex', t, Section(p, call[t]))
  BY ReadsIn DEF Holds
<1>. QED  BY <1>1, ReadsIn, Continues DEF To, Control, FileTyped

LEMMA MetadataControl ==
    ASSUME Control, NEW t \in Tasks, Metadata(t)
    PROVE  Control'
<1>. USE DEF At
<1>0. /\ PlaceOf(t) /\ FileTyped /\ inode \in Inode /\ lower \in LowerFile /\ t # None
      /\ lower.contents \in Meta /\ lower.xattr \in Meta /\ mnt.xattr \in BOOLEAN /\ csMutex \in Tasks \cup {None}
  BY NoTask, LowerFields, OpenAssumption DEF Control, FileTyped
<1>1. CASE read_or_initialize_metadata(t)
  <2>1. PICK p \in {"contents", "opened"} :
           /\ To(t, p)
           /\ p = "opened" => UNCHANGED <<inode, csMutex>>
           /\ p = "contents" => csMutex' = t /\ inode' = [inode EXCEPT !.inXattr = @ \/ mnt.xattr]
    BY <1>1 DEF read_or_initialize_metadata
  <2>2. call[t] = "open" /\ Busy(t) /\ csMutex = None
    BY <1>0, <1>1, ReadsIn DEF read_or_initialize_metadata
  <2>3. [inode EXCEPT !.inXattr = @ \/ mnt.xattr] \in Inode
    BY <1>0 DEF Inode
  <2>4. inode' \in Inode /\ inode'.cached = inode.cached /\ inode'.new = inode.new
    BY <1>0, <2>1, <2>3 DEF Inode
  <2>5. Holds(csMutex, csMutex', t, Section(p, call[t])) /\ p \in PlacesOf(call[t]) /\ p # "kthread"
    BY <1>0, <2>1, <2>2 DEF Holds, Section, PlacesOf
  <2>. QED  BY <1>0, <1>1, <2>1, <2>2, <2>4, <2>5, Continues DEF read_or_initialize_metadata, To, FileTyped, fileVars
<1>2. CASE open_refused(t)
  <2>1. Busy(t) /\ "put" \in PlacesOf(call[t]) /\ Holds(csMutex, csMutex', t, Section("put", call[t]))
    BY <1>0, <1>2 DEF open_refused, PlaceOf, Section, PlacesOf, Holds, Busy
  <2>. QED  BY <1>0, <1>2, <2>1, Continues DEF open_refused, To, FileTyped, fileVars
<1>3. CASE read_contents(t)
  BY <1>0, <1>3, ReadHeadersControl DEF read_contents, Reads
<1>4. CASE read_xattr(t)
  BY <1>0, <1>4, ReadHeadersControl DEF read_xattr, Reads
<1>5. CASE parse_contents(t)
  <2>0. /\ pc[t] \in Reads /\ "xattr" \in Reads /\ UNCHANGED <<mnt, mounted, lower, file, fileMutex, feks, stale>>
    BY <1>5 DEF parse_contents, fileVars, Reads
  <2>1. CASE Opened(t, Keyed(lower.contents, FALSE))
    BY <1>0, <2>0, <2>1, HeadedTyped, OpenedControl
  <2>2. CASE ~Opened(t, Keyed(lower.contents, FALSE))
    <3>1. To(t, "xattr") /\ csMutex' = csMutex /\ (inode' = inode \/ inode' = Keyed(lower.contents, TRUE))
      BY <1>5, <2>2 DEF parse_contents
    <3>. QED  BY <1>0, <2>0, <3>1, HeadedTyped, ReadsOnControl
  <2>. QED  BY <2>1, <2>2
<1>6. CASE parse_xattr(t)
  <2>0. /\ pc[t] \in Reads /\ "no metadata" \in Reads /\ UNCHANGED <<mnt, mounted, lower, file, fileMutex, feks, stale>>
    BY <1>6 DEF parse_xattr, fileVars, Reads
  <2>1. CASE Opened(t, Keyed(lower.xattr, FALSE))
    BY <1>0, <2>0, <2>1, HeadedTyped, OpenedControl
  <2>2. CASE ~Opened(t, Keyed(lower.xattr, FALSE))
    <3>1. To(t, "no metadata") /\ csMutex' = csMutex /\ (inode' = inode \/ inode' = Keyed(lower.xattr, TRUE))
      BY <1>6, <2>2 DEF parse_xattr
    <3>. QED  BY <1>0, <2>0, <3>1, HeadedTyped, ReadsOnControl
  <2>. QED  BY <2>1, <2>2
<1>7. CASE no_metadata(t)
  <2>0. /\ pc[t] = "no metadata" /\ pc[t] \in Reads /\ UNCHANGED <<mnt, mounted, lower, file, fileMutex, feks, stale>>
    BY <1>7 DEF no_metadata, fileVars, Reads
  <2>1. [inode EXCEPT !.encrypted = FALSE, !.sized = FALSE] \in Inode
        /\ [inode EXCEPT !.encrypted = FALSE, !.sized = FALSE].cached = inode.cached
        /\ [inode EXCEPT !.encrypted = FALSE, !.sized = FALSE].new = inode.new
    BY <1>0 DEF Inode
  <2>2. CASE Opened(t, [inode EXCEPT !.encrypted = FALSE, !.sized = FALSE])
    BY <2>0, <2>1, <2>2, OpenedControl
  <2>3. CASE ~Opened(t, [inode EXCEPT !.encrypted = FALSE, !.sized = FALSE])
    <3>1. PICK p \in {"attr fails", "context", "put"} :
             /\ To(t, p) /\ UNCHANGED inode
             /\ p \in PlacesOf(call[t]) /\ p # "kthread"
             /\ IF p = "put" THEN csMutex' = None ELSE csMutex' = csMutex /\ Section(p, call[t])
      BY <1>7, <2>0, <2>3, ReadsIn DEF no_metadata, PlacesOf, Section
    <3>2. Holds(csMutex, csMutex', t, Section(p, call[t]))
      BY <2>0, <3>1, ReadsIn DEF Holds, Section
    <3>. QED  BY <1>0, <2>0, <3>1, <3>2, ReadsIn, Continues DEF To, FileTyped
  <2>. QED  BY <2>2, <2>3
<1>. QED  BY <1>1, <1>2, <1>3, <1>4, <1>5, <1>6, <1>7 DEF Metadata

LEMMA AttributesControl ==
    ASSUME Control, NEW t \in Tasks, Attributes(t)
    PROVE  Control'
<1>. USE DEF At
<1>0. /\ PlaceOf(t) /\ FileTyped /\ inode \in Inode /\ lower \in LowerFile /\ t # None /\ call[t] \in Calls
      /\ mnt.xattr \in BOOLEAN /\ csMutex \in Tasks \cup {None}
  BY NoTask, OpenAssumption DEF Control, FileTyped
<1>1. CASE setattr_lock(t)
  <2>1. call[t] = "setattr" /\ Busy(t) /\ csMutex = None /\ inode.new # t
    BY <1>0, <1>1 DEF setattr_lock, PlaceOf, PlacesOf, Calls, Busy
  <2>2. CASE To(t, "idle") /\ UNCHANGED csMutex
    BY <1>0, <1>1, <2>1, <2>2, Ends DEF setattr_lock, To, FileTyped, fileVars
  <2>3. CASE To(t, "get") /\ csMutex' = t
    <3>1. "get" \in PlacesOf(call[t]) /\ Holds(csMutex, csMutex', t, Section("get", call[t]))
      BY <2>1, <2>3 DEF PlacesOf, Holds, Section
    <3>. QED  BY <1>0, <1>1, <2>1, <2>3, <3>1, Continues DEF setattr_lock, To, FileTyped, fileVars
  <2>. QED  BY <1>1, <2>2, <2>3 DEF setattr_lock
<1>2. CASE setattr_read_metadata(t)
  <2>1. Busy(t) /\ csMutex = t /\ "contents" \in PlacesOf(call[t]) /\ Section("contents", call[t])
    BY <1>2, ReadsIn DEF setattr_read_metadata, Reads
  <2>2. [inode EXCEPT !.inXattr = @ \/ mnt.xattr] \in Inode
    BY <1>0 DEF Inode
  <2>3. inode' \in Inode /\ inode'.cached = inode.cached /\ inode'.new = inode.new
    BY <1>0, <1>2, <2>2 DEF setattr_read_metadata, Inode
  <2>4. Holds(csMutex, csMutex', t, Section("contents", call[t]))
    BY <1>2, <2>1 DEF setattr_read_metadata, Holds
  <2>. QED  BY <1>0, <1>2, <2>1, <2>3, <2>4, Continues DEF setattr_read_metadata, To, FileTyped, fileVars
<1>3. CASE setattr_end(t)
  <2>1. Busy(t) /\ csMutex = t /\ call[t] = "setattr" /\ inode.new # t /\ pc[t] # "kthread"
    BY <1>0, <1>3 DEF setattr_end, Busy, PlaceOf, PlacesOf, Calls, Section
  <2>2. ASSUME NEW a \in BOOLEAN, NEW b \in BOOLEAN, NEW c \in BOOLEAN,
               inode' = [inode EXCEPT !.stray = a, !.encrypted = b, !.sized = c]
        PROVE  inode' \in Inode /\ inode'.cached = inode.cached /\ inode'.new = inode.new
    BY <1>0, <2>2 DEF Inode
  <2>3. inode' \in Inode /\ inode'.cached = inode.cached /\ inode'.new = inode.new
    <3>1. CASE pc[t] = "attr read"
      BY <1>0, <1>3, <3>1 DEF setattr_end
    <3>2. CASE pc[t] # "attr read"
      <4>1. /\ (inode.stray \/ inode.valid) \in BOOLEAN
            /\ (inode.encrypted /\ ~mnt.passthrough) \in BOOLEAN /\ (inode.sized /\ ~mnt.passthrough) \in BOOLEAN
        OBVIOUS
      <4>2. inode' = [inode EXCEPT !.stray = inode.stray \/ inode.valid, !.encrypted = inode.encrypted /\ ~mnt.passthrough,
                                   !.sized = inode.sized /\ ~mnt.passthrough]
        BY <1>3, <3>2 DEF setattr_end
      <4>. QED  BY <2>2, <4>1, <4>2, Zenon
    <3>. QED  BY <3>1, <3>2
  <2>4. file' \in BOOLEAN /\ UNCHANGED fileMutex
    BY <1>3, PutTyped DEF setattr_end
  <2>. QED  BY <1>0, <1>3, <2>1, <2>3, <2>4, Ends DEF setattr_end, To, FileTyped
<1>. QED  BY <1>1, <1>2, <1>3 DEF Attributes

LEMMA SizeControl ==
    ASSUME Control, NEW t \in Tasks, Size(t)
    PROVE  Control'
<1>. USE DEF At
<1>0. /\ PlaceOf(t) /\ FileTyped /\ inode \in Inode /\ lower \in LowerFile /\ t # None /\ call[t] \in Calls
      /\ mnt.xattr \in BOOLEAN /\ csMutex \in Tasks \cup {None}
      /\ inode.size \in Nat /\ seen[t] \in Nat /\ lower.contents.size \in Nat /\ lower.xattr.size \in Nat
      /\ inode.new \in Tasks \cup {None} /\ \A n \in Nat : [seen EXCEPT ![t] = n] \in [Tasks -> Nat]
  BY NoTask, OpenAssumption, InodeFields, LowerFields, Typed DEF Control, FileTyped
<1>1. CASE ~lookup_end(t)
  <2>1. PICK p \in {"stat set", "stat xattr", "stat set xattr", "stat end", "size store", "opened"} :
           /\ pc' = [pc EXCEPT ![t] = p] /\ UNCHANGED call /\ Busy(t)
           /\ p \in PlacesOf(call[t]) /\ (Section(p, call[t]) <=> Section(pc[t], call[t]))
    BY <1>0, <1>1 DEF Size, To, Sees, PlaceOf, PlacesOf, Section, Calls, Busy, read_and_validate_header_region,
         read_and_validate_xattr_region, i_size_init, write_inode_size_to_metadata, write_inode_size_store
  <2>2. UNCHANGED <<mnt, mounted, csMutex, feks>> /\ pc[t] # "kthread"
    BY <1>0, <1>1 DEF Size, read_and_validate_header_region,
         read_and_validate_xattr_region, i_size_init, write_inode_size_to_metadata, write_inode_size_store
  <2>6. UNCHANGED fileMutex /\ file' \in BOOLEAN
    <3>1. CASE Put
      BY <3>1, PutTyped
    <3>2. CASE UNCHANGED fileVars
      BY <1>0, <3>2 DEF fileVars, FileTyped
    <3>. QED  BY <1>1, <3>1, <3>2 DEF Size, read_and_validate_header_region,
         read_and_validate_xattr_region, i_size_init, write_inode_size_to_metadata, write_inode_size_store
  <2>7. seen' \in [Tasks -> Nat]
    <3>1. CASE UNCHANGED seen
      BY <1>0, <3>1 DEF FileTyped
    <3>2. CASE \E n \in Nat : seen' = [seen EXCEPT ![t] = n]
      BY <1>0, <3>2
    <3>. QED  BY <1>0, <1>1, <3>1, <3>2 DEF Size, To, Sees, read_and_validate_header_region,
         read_and_validate_xattr_region, i_size_init, write_inode_size_to_metadata, write_inode_size_store
  <2>3. inode' \in Inode /\ inode'.cached = inode.cached /\ inode'.new = inode.new /\ stale' \in BOOLEAN
    <3>1. CASE i_size_init(t)
      BY <1>0, <3>1 DEF i_size_init, Inode, FileTyped
    <3>2. CASE ~i_size_init(t)
      BY <1>0, <1>1, <3>2 DEF Size, FileTyped, read_and_validate_header_region,
         read_and_validate_xattr_region, write_inode_size_to_metadata, write_inode_size_store
    <3>. QED  BY <3>1, <3>2
  <2>4. lower' \in LowerFile
    <3>1. CASE write_inode_size_store(t)
      <4>1. /\ [lower EXCEPT !.xattr.size = seen[t]] \in LowerFile
            /\ [lower EXCEPT !.contents.size = seen[t], !.nonempty = TRUE] \in LowerFile
        BY <1>0 DEF LowerFile, Meta
      <4>. QED  BY <3>1, <4>1 DEF write_inode_size_store
    <3>2. CASE ~write_inode_size_store(t)
      BY <1>0, <1>1, <3>2 DEF Size, read_and_validate_header_region,
         read_and_validate_xattr_region, i_size_init, write_inode_size_to_metadata
    <3>. QED  BY <3>1, <3>2
  <2>5. Holds(csMutex, csMutex', t, Section(p, call[t]))
    BY <1>0, <2>1, <2>2 DEF PlaceOf, Holds
  <2>. QED  BY <2>1, <2>2, <2>3, <2>4, <2>5, <2>6, <2>7, Continues
<1>2. CASE lookup_end(t)
  <2>1. Busy(t) /\ call[t] = "lookup" /\ csMutex # t /\ pc[t] # "kthread"
    BY <1>0, <1>2 DEF lookup_end, PlaceOf, PlacesOf, Calls, Busy, Section
  <2>2. inode' \in Inode /\ inode'.cached = inode.cached /\ inode'.new = IF inode.new = t THEN None ELSE inode.new
    BY <1>0, <1>2 DEF lookup_end, Inode
  <2>. QED  BY <1>0, <1>2, <2>1, <2>2, Ends DEF lookup_end, To, FileTyped, fileVars
<1>. QED  BY <1>1, <1>2

(* The calls start from a task that is idle.                               *)
Calling(t) == create(t) \/ lookup(t) \/ open(t) \/ setattr(t)

LEMMA CallingControl ==
    ASSUME Control, NEW t \in Tasks, Calling(t)
    PROVE  Control'
<1>. USE DEF Call
<1>0. /\ PlaceOf(t) /\ FileTyped /\ inode \in Inode /\ t # None /\ ~Busy(t) /\ inode.new # t /\ csMutex # t /\ fileMutex # t
      /\ mounted = "yes" /\ \A u \in Tasks : PlaceOf(u) /\ pc[u] # "mount"
  BY NoTask DEF Control, FileTyped, Calling, create, lookup, open, setattr, PlaceOf, Busy
<1>1. PICK p \in {"context", "get", "attr"}, c \in {"create", "lookup", "open", "setattr"} :
         /\ pc' = [pc EXCEPT ![t] = p] /\ call' = [call EXCEPT ![t] = c]
         /\ p \in PlacesOf(c) /\ ~(Section(p, c) /\ c # "setattr") /\ (p = "get" => c # "setattr")
         /\ c = "create" <=> create(t)
    BY DEF Calling, create, lookup, open, setattr, PlacesOf, Section
<1>2. ~Section(p, c) /\ c \in Calls /\ p \in Places
  BY <1>1, PlacesTyped DEF Section, Calls, PlacesOf
<1>3. /\ UNCHANGED <<mnt, mounted, csMutex, fileMutex, file, seen, feks, stale>>
      /\ inode' \in Inode /\ inode'.cached /\ lower' \in LowerFile
      /\ \/ inode' = Fresh(t) /\ ~inode.cached /\ c \in {"create", "lookup"}
         \/ ~create(t) /\ inode'.new = inode.new /\ inode.new = None
  <2>1. CASE create(t)
    BY <1>0, <1>1, <2>1, Records DEF create, fileVars
  <2>2. CASE lookup(t) /\ ~inode.cached
    BY <1>0, <1>1, <2>2, Records DEF lookup, fileVars, FileTyped, create
  <2>3. CASE lookup(t) /\ inode.cached
    BY <1>0, <2>3 DEF lookup, fileVars, FileTyped, create
  <2>4. CASE open(t)
    <3>1. [inode EXCEPT !.policy = TRUE, !.encrypted = TRUE] \in Inode
      BY <1>0 DEF Inode
    <3>2. inode' \in Inode /\ inode'.cached = inode.cached /\ inode'.new = inode.new
      BY <1>0, <2>4, <3>1 DEF open, Inode
    <3>. QED  BY <1>0, <2>4, <3>2 DEF open, fileVars, FileTyped, create
  <2>5. CASE setattr(t)
    BY <1>0, <2>5 DEF setattr, fileVars, FileTyped, create
  <2>. QED  BY <2>1, <2>2, <2>3, <2>4, <2>5 DEF Calling
<1>4. FileTyped'
  BY <1>0, <1>1, <1>2, <1>3, Typed DEF FileTyped
<1>5. ~inode.cached => \A u \in Tasks : pc[u] = "idle" /\ inode.new # u
  BY <1>0 DEF PlaceOf, Busy
<1>6. /\ inode'.new = t => inode' = Fresh(t) /\ c \in {"create", "lookup"} /\ \A u \in Others(t) : pc[u] = "idle"
      /\ c = "create" => inode'.new = t
      /\ \A u \in Others(t) : inode'.new # u /\ inode.new # u
  BY <1>0, <1>1, <1>3, <1>5, Records, NoTask DEF Others
<1>7. Holds(csMutex, csMutex', t, p # "idle" /\ Section(p, c)) /\ Holds(fileMutex, fileMutex', t, p = "kthread")
  BY <1>0, <1>1, <1>2, <1>3 DEF Holds
<1>8. Moved(t, p, c)
  BY <1>0, <1>1, <1>2, <1>3, <1>6, <1>7 DEF Moved
<1>. QED  BY <1>4, <1>8, MovedKeepsControl

LEMMA WritingControl ==
    ASSUME Control, NEW t \in Tasks, write(t) \/ release(t)
    PROVE  Control'
<1>. USE DEF At, To
<1>0. /\ PlaceOf(t) /\ FileTyped /\ inode \in Inode /\ lower \in LowerFile /\ call[t] \in Calls /\ inode.size \in Nat
  BY InodeFields DEF Control, FileTyped
<1>1. Busy(t) /\ call[t] = "open" /\ csMutex # t
  BY <1>0 DEF write, release, PlaceOf, PlacesOf, Calls, Busy, Section
<1>2. PICK p \in {"size", "put"} : pc' = [pc EXCEPT ![t] = p] /\ p \in PlacesOf(call[t]) /\ ~Section(p, call[t])
  BY <1>1 DEF write, release, PlacesOf, Section
<1>3. inode' \in Inode /\ inode'.cached = inode.cached /\ inode'.new = inode.new /\ lower' \in LowerFile
  <2>1. [inode EXCEPT !.size = @ + 1] \in Inode /\ [lower EXCEPT !.nonempty = TRUE] \in LowerFile
    <3>1. inode.size + 1 \in Nat
      BY <1>0
    <3>2. [inode EXCEPT !.size = @ + 1] \in Inode
      BY <1>0, <3>1 DEF Inode
    <3>. QED  BY <1>0, <3>2 DEF LowerFile
  <2>2. CASE write(t)
    BY <1>0, <2>1, <2>2 DEF write, Inode
  <2>3. CASE release(t)
    BY <1>0, <2>3 DEF release
  <2>. QED  BY <2>2, <2>3
<1>4. Holds(csMutex, csMutex', t, Section(p, call[t]))
  BY <1>1, <1>2 DEF write, release, Holds
<1>. QED  BY <1>0, <1>1, <1>2, <1>3, <1>4, Continues DEF write, release, fileVars, FileTyped

(* Mounting, unmounting and evicting.                                      *)
Mounting(t) == mount(t) \/ mount_end(t)

LEMMA MountingControl ==
    ASSUME Control, NEW t \in Tasks, Mounting(t)
    PROVE  Control'
<1>. USE DEF At, To
<1>0. FileTyped /\ \A u \in Tasks : PlaceOf(u) /\ (u # t => pc[u] = "idle")
  BY DEF Control, Alone, Mounting, mount, mount_end
<1>1. PICK p \in {"idle", "mount"} :
         /\ pc' = [pc EXCEPT ![t] = p] /\ pc[t] \in {"idle", "mount"} /\ mounted' \in {"no", "yes", "over"}
         /\ p = "mount" => mounted' = "no"
         /\ UNCHANGED <<mnt, lower, inode, csMutex, file, fileMutex, call, seen, feks, stale>>
  BY <1>0 DEF Mounting, mount, mount_end, fileVars, FileTyped
<1>2. FileTyped'
  BY <1>0, <1>1, Typed DEF FileTyped, Places
<1>3. pc'[t] = p /\ \A u \in Tasks : u # t => pc'[u] = "idle"
  BY <1>0, <1>1 DEF FileTyped
<1>4. \A u \in Tasks : ~Busy(u) /\ ~Busy(u)'
  BY <1>0, <1>1, <1>3 DEF Busy
<1>5. \A u \in Tasks : PlaceOf(u)'
  BY <1>0, <1>1, <1>3, <1>4 DEF PlaceOf
<1>6. Alone'
  BY <1>3, <1>4, <1>5 DEF Alone, PlaceOf
<1>. QED  BY <1>2, <1>5, <1>6 DEF Control

LEMMA EvictingControl ==
    ASSUME Control, ecryptfs_evict_inode \/ kill_block_super
    PROVE  Control'
<1>0. FileTyped /\ \A u \in Tasks : PlaceOf(u) /\ pc[u] = "idle" /\ ~Busy(u)
  BY DEF Control, ecryptfs_evict_inode, kill_block_super, Busy
<1>1. /\ UNCHANGED <<mnt, lower, csMutex, file, fileMutex, pc, call, seen, feks, stale>>
      /\ mounted' \in {"no", "yes", "over"} /\ (inode' = inode \/ inode' = Gone)
  BY <1>0 DEF ecryptfs_evict_inode, kill_block_super, fileVars, taskVars, FileTyped
<1>2. FileTyped'
  BY <1>0, <1>1, Records DEF FileTyped
<1>3. \A u \in Tasks : inode'.new # u /\ ~Busy(u)'
  BY <1>0, <1>1, Records, NoTask DEF PlaceOf, Busy
<1>4. \A u \in Tasks : PlaceOf(u)'
  BY <1>0, <1>1, <1>3 DEF PlaceOf
<1>5. Alone'
  BY <1>0, <1>1, <1>3 DEF Alone
<1>. QED  BY <1>2, <1>4, <1>5 DEF Control

THEOREM ControlStep == Control /\ [Next]_vars => Control'
<1>. SUFFICES ASSUME Control, [Next]_vars PROVE Control'
  OBVIOUS
<1>1. CASE UNCHANGED vars
  BY <1>1, UnmovedControl DEF vars, fileVars, taskVars
<1>2. CASE \E t \in Tasks : Step(t)
  <2>1. PICK t \in Tasks : Step(t)
    BY <1>2
  <2>2. CASE keys(t)
    BY <2>2, UnmovedControl DEF keys, fileVars, taskVars
  <2>. QED  BY <2>1, <2>2, GetsAndPutsControl, InitializeControl, MetadataControl, SizeControl, AttributesControl,
               MountingControl DEF Step, Mounting
<1>3. CASE \E t \in Tasks : mount(t) \/ create(t) \/ lookup(t) \/ open(t) \/ write(t) \/ release(t) \/ setattr(t)
  BY <1>3, MountingControl, CallingControl, WritingControl DEF Mounting, Calling
<1>4. CASE \E k \in Sigs : user(k)
  BY <1>4, UnmovedControl DEF user, fileVars, taskVars
<1>. QED  BY <1>1, <1>2, <1>3, <1>4, EvictingControl DEF Next

THEOREM ControlInit == Init => Control
<1>. SUFFICES ASSUME Init PROVE Control
  OBVIOUS
<1>1. FileTyped
  BY OpenAssumption, Records DEF Init, FileTyped, Places, Calls
<1>2. \A t \in Tasks : ~Busy(t) /\ inode.new # t /\ pc[t] = "idle"
  BY Records, NoTask DEF Init, Busy
<1>3. \A t \in Tasks : PlaceOf(t)
  BY <1>2, NoTask DEF Init, PlaceOf
<1>. QED  BY <1>1, <1>2, <1>3 DEF Control, Alone

-----------------------------------------------------------------------------
(* The lower file: its uses are counted.                                   *)
UsesNow == [t \in Tasks |-> Uses(t)]

LEMMA UsesTyped ==
  /\ UsesNow \in [Tasks -> Nat] /\ UsesNow' \in [Tasks -> Nat]
  /\ UsesOf(UsesNow) = AllUses /\ UsesOf(UsesNow') = AllUses'
<1>1. \A t \in Tasks : Uses(t) \in Nat /\ Uses(t)' \in Nat
  BY DEF Uses
<1>2. UsesNow \in [Tasks -> Nat] /\ UsesNow' \in [Tasks -> Nat]
  BY <1>1 DEF UsesNow
<1>3. UsesOf(UsesNow) = AllUses
  BY DEF UsesOf, UsesNow, AllUses
<1>4. UsesOf(UsesNow') = AllUses'
  BY DEF UsesOf, UsesNow, AllUses
<1>. QED  BY <1>2, <1>3, <1>4

LEMMA UsesStep ==
    ASSUME FileTyped, IsFiniteSet(AllUses), NEW t \in Tasks, NEW p, NEW c,
           pc' = [pc EXCEPT ![t] = p], call' = [call EXCEPT ![t] = c]
    PROVE  /\ Uses(t)' = Uses(t) => AllUses' = AllUses
           /\ Uses(t)' = Uses(t) + 1 => IsFiniteSet(AllUses') /\ Cardinality(AllUses') = Cardinality(AllUses) + 1
           /\ Uses(t) = Uses(t)' + 1 => IsFiniteSet(AllUses') /\ Cardinality(AllUses) = Cardinality(AllUses') + 1
           /\ Uses(t) > 0 => Cardinality(AllUses) > 0
           /\ Cardinality(AllUses) \in Nat /\ (IsFiniteSet(AllUses') => Cardinality(AllUses') \in Nat)
<1>1. \A u \in Tasks \ {t} : pc'[u] = pc[u] /\ call'[u] = call[u]
  BY DEF FileTyped
<1>2. \A u \in Tasks \ {t} : Uses(u)' = Uses(u)
  BY <1>1 DEF Uses
<1>3. UsesNow[t] = Uses(t) /\ UsesNow'[t] = Uses(t)' /\ \A u \in Tasks \ {t} : UsesNow'[u] = UsesNow[u]
  BY <1>2 DEF UsesNow
<1>4. Uses(t)' = Uses(t) => AllUses' = AllUses
  BY <1>3, UsesTyped, UsesSame
<1>5. ASSUME Uses(t)' = Uses(t) + 1
      PROVE  IsFiniteSet(AllUses') /\ Cardinality(AllUses') = Cardinality(AllUses) + 1
  <2>1. UsesNow' = [UsesNow EXCEPT ![t] = UsesNow[t] + 1]
    BY <1>3, <1>5, UsesTyped
  <2>. QED  BY <2>1, UsesTyped, UsesMore
<1>6. ASSUME Uses(t) = Uses(t)' + 1
      PROVE  IsFiniteSet(AllUses') /\ Cardinality(AllUses) = Cardinality(AllUses') + 1
  <2>1. UsesNow = [UsesNow' EXCEPT ![t] = UsesNow'[t] + 1]
    BY <1>3, <1>6, UsesTyped
  <2>2. \A u \in Tasks : UsesNow'[u] \in Nat /\ UsesNow[u] \in Nat /\ UsesNow'[u] <= UsesNow[u]
    BY <1>3, <1>6, UsesTyped
  <2>3. \A u \in Tasks : 1..UsesNow'[u] \subseteq 1..UsesNow[u]
    BY <2>2
  <2>4. UsesOf(UsesNow') \subseteq UsesOf(UsesNow)
    BY <2>3 DEF UsesOf
  <2>5. IsFiniteSet(AllUses')
    BY <2>4, UsesTyped, FS_Subset
  <2>. QED  BY <2>1, <2>5, UsesTyped, UsesMore
<1>7. Uses(t) > 0 => Cardinality(AllUses) > 0
  BY <1>3, UsesTyped, UsesPositive
<1>. QED  BY <1>4, <1>5, <1>6, <1>7, FS_CardinalityType

LEMMA CountedSame ==
    ASSUME FileTyped, LowerCounted, NEW t \in Tasks, NEW p, NEW c,
           pc' = [pc EXCEPT ![t] = p], call' = [call EXCEPT ![t] = c], Uses(t)' = Uses(t), UNCHANGED fileVars
    PROVE  LowerCounted'
<1>1. AllUses' = AllUses
  BY UsesStep DEF LowerCounted
<1>. QED  BY <1>1 DEF LowerCounted, fileVars

LEMMA CountedPut ==
    ASSUME FileTyped, LowerCounted, NEW t \in Tasks, NEW p, NEW c,
           pc' = [pc EXCEPT ![t] = p], call' = [call EXCEPT ![t] = c], Uses(t) = Uses(t)' + 1, Put
    PROVE  LowerCounted'
<1>1. /\ IsFiniteSet(AllUses) /\ count = Cardinality(AllUses)
      /\ fileMutex = None => (file <=> count > 0)
      /\ fileMutex # None => count = 1 /\ ~file
  BY DEF LowerCounted
<1>2. /\ count = 1 => fileMutex = None
      /\ count' = count - 1 /\ (file' <=> count > 1) /\ fileMutex' = fileMutex
  BY DEF Put
<1>3. IsFiniteSet(AllUses') /\ Cardinality(AllUses) = Cardinality(AllUses') + 1
      /\ Cardinality(AllUses) \in Nat /\ Cardinality(AllUses') \in Nat
  BY <1>1, UsesStep
<1>4. fileMutex' = None /\ count' = Cardinality(AllUses')
  BY <1>1, <1>2, <1>3
<1>5. file' <=> count' > 0
  BY <1>1, <1>2, <1>3
<1>. QED  BY <1>3, <1>4, <1>5 DEF LowerCounted

UsesAt(p, c) == IF \/ p \in {"idle", "mount", "get", "attr", "stat xattr", "stat set", "stat set xattr", "stat end"}
                   \/ p = "context" /\ c = "create" THEN 0
                ELSE IF p = "header" /\ c = "open" THEN 2 ELSE 1

LEMMA UsesByPlace ==
    ASSUME FileTyped, NEW t \in Tasks, NEW p, NEW c, pc' = [pc EXCEPT ![t] = p], call' = [call EXCEPT ![t] = c]
    PROVE  Uses(t) = UsesAt(pc[t], call[t]) /\ Uses(t)' = UsesAt(p, c) /\ UsesAt(p, c) \in Nat
<1>1. pc'[t] = p /\ call'[t] = c
  BY DEF FileTyped
<1>. QED  BY <1>1 DEF Uses, UsesAt

LEMMA CallSame ==
    ASSUME FileTyped, NEW t \in Tasks, call' = call
    PROVE  call' = [call EXCEPT ![t] = call[t]]
<1>. QED  BY DEF FileTyped

LEMMA CountedOn ==
    ASSUME Control, LowerCounted, NEW t \in Tasks, NEW p, pc' = [pc EXCEPT ![t] = p], call' = call,
           \/ UsesAt(p, call[t]) = UsesAt(pc[t], call[t]) /\ UNCHANGED fileVars
           \/ UsesAt(p, call[t]) + 1 = UsesAt(pc[t], call[t]) /\ Put
    PROVE  LowerCounted'
<1>1. FileTyped /\ call' = [call EXCEPT ![t] = call[t]]
  BY CallSame DEF Control
<1>2. Uses(t) = UsesAt(pc[t], call[t]) /\ Uses(t)' = UsesAt(p, call[t])
  BY <1>1, UsesByPlace
<1>3. CASE Uses(t)' = Uses(t) /\ UNCHANGED fileVars
  BY <1>1, <1>3, CountedSame
<1>4. CASE Uses(t)' + 1 = Uses(t) /\ Put
  BY <1>1, <1>4, CountedPut
<1>. QED  BY <1>2, <1>3, <1>4

LEMMA UnmovedCounted ==
    ASSUME LowerCounted, UNCHANGED <<pc, call, fileVars>>
    PROVE  LowerCounted'
<1>1. AllUses' = AllUses
  BY DEF AllUses, Uses
<1>. QED  BY <1>1 DEF LowerCounted, fileVars

LEMMA GetsAndPutsCounted ==
    ASSUME Control, LowerCounted, NEW t \in Tasks, GetsAndPuts(t)
    PROVE  LowerCounted'
<1>. USE DEF At, To
<1>0. /\ PlaceOf(t) /\ FileTyped /\ call[t] \in Calls /\ t # None /\ file \in BOOLEAN
      /\ IsFiniteSet(AllUses) /\ count = Cardinality(AllUses) /\ Cardinality(AllUses) \in Nat
      /\ fileMutex = None => (file <=> count > 0)
      /\ fileMutex # None => count = 1 /\ ~file
  BY NoTask, FS_CardinalityType DEF Control, FileTyped, LowerCounted
<1>1. CASE get_lower_file(t)
  <2>1. PICK p \in {AfterGet(t), "kthread"} :
           /\ pc[t] = "get" /\ pc' = [pc EXCEPT ![t] = p] /\ call' = call /\ fileMutex = None /\ count' = count + 1
           /\ \/ count > 0 /\ fileMutex' = None /\ file' = file
              \/ count = 0 /\ fileMutex' = None /\ file' = TRUE
              \/ count = 0 /\ fileMutex' = t /\ file' = file
    BY <1>1 DEF get_lower_file
  <2>2. UsesAt(p, call[t]) = UsesAt(pc[t], call[t]) + 1
    <3>1. p = "kthread" \/ p = IF call[t] = "create" THEN "header" ELSE IF call[t] \in {"open", "setattr"} THEN "metadata" ELSE "stat"
      BY <2>1 DEF AfterGet
    <3>2. UsesAt(pc[t], call[t]) = 0
      BY <2>1 DEF UsesAt
    <3>3. UsesAt(p, call[t]) = 1
      BY <3>1 DEF UsesAt
    <3>. QED  BY <3>2, <3>3
  <2>3. call' = [call EXCEPT ![t] = call[t]]
    BY <1>0, <2>1, CallSame
  <2>4. Uses(t) = UsesAt(pc[t], call[t]) /\ Uses(t)' = UsesAt(p, call[t])
    BY <1>0, <2>1, <2>3, UsesByPlace
  <2>5. IsFiniteSet(AllUses') /\ Cardinality(AllUses') = Cardinality(AllUses) + 1
    BY <1>0, <2>1, <2>2, <2>3, <2>4, UsesStep
  <2>6. count' = Cardinality(AllUses') /\ count' > 0
    BY <1>0, <2>1, <2>5
  <2>7. CASE count > 0 /\ fileMutex' = None /\ file' = file
    BY <1>0, <2>1, <2>5, <2>6, <2>7 DEF LowerCounted
  <2>8. CASE count = 0 /\ fileMutex' = None /\ file' = TRUE
    BY <2>5, <2>6, <2>8 DEF LowerCounted
  <2>9. CASE count = 0 /\ fileMutex' = t /\ file' = file
    BY <1>0, <2>1, <2>5, <2>6, <2>9 DEF LowerCounted
  <2>. QED  BY <2>1, <2>7, <2>8, <2>9
<1>5. CASE get_lower_file_again(t)
  <2>1. /\ pc[t] = "get2" /\ call[t] = "open" /\ pc' = [pc EXCEPT ![t] = "header"]
        /\ call' = [call EXCEPT ![t] = call[t]] /\ fileMutex = None /\ fileMutex' = None /\ count' = count + 1 /\ file' = file
    BY <1>0, <1>5, CallSame DEF get_lower_file_again, AfterGet, PlaceOf, Busy, PlacesOf, Calls
  <2>2. UsesAt(pc[t], call[t]) = 1 /\ UsesAt("header", call[t]) = 2
    BY <2>1 DEF UsesAt
  <2>3. Uses(t) = 1 /\ Uses(t)' = 2
    BY <1>0, <2>1, <2>2, UsesByPlace
  <2>4. IsFiniteSet(AllUses') /\ Cardinality(AllUses') = Cardinality(AllUses) + 1 /\ Cardinality(AllUses) > 0
    <3>1. Uses(t)' = Uses(t) + 1 /\ Uses(t) > 0
      BY <2>3
    <3>. QED  BY <1>0, <2>1, <3>1, UsesStep
  <2>. QED  BY <1>0, <2>1, <2>4 DEF LowerCounted
<1>2. CASE ecryptfs_threadfn(t)
  <2>1. UsesAt(AfterGet(t), call[t]) = UsesAt(pc[t], call[t]) /\ count = 1
    BY <1>0, <1>2 DEF ecryptfs_threadfn, AfterGet, UsesAt, PlaceOf
  <2>2. call' = [call EXCEPT ![t] = call[t]] /\ pc' = [pc EXCEPT ![t] = AfterGet(t)]
    BY <1>0, <1>2, CallSame DEF ecryptfs_threadfn
  <2>3. AllUses' = AllUses
    BY <1>0, <2>1, <2>2, UsesByPlace, UsesStep
  <2>4. count' = 1 /\ fileMutex' = None /\ file' = TRUE /\ count' > 0
    BY <1>2, <2>1 DEF ecryptfs_threadfn
  <2>5. IsFiniteSet(AllUses') /\ count' = Cardinality(AllUses')
    BY <1>0, <2>1, <2>3, <2>4
  <2>. QED  BY <2>4, <2>5 DEF LowerCounted
<1>3. CASE get_lower_file_fails(t)
  <2>1. UsesAt("idle", call[t]) + 1 = UsesAt(pc[t], call[t]) /\ count = 1 /\ ~file
    BY <1>0, <1>3 DEF get_lower_file_fails, UsesAt, PlaceOf
  <2>2. call' = [call EXCEPT ![t] = call[t]] /\ pc' = [pc EXCEPT ![t] = "idle"]
    BY <1>0, <1>3, CallSame DEF get_lower_file_fails
  <2>3. IsFiniteSet(AllUses') /\ Cardinality(AllUses) = Cardinality(AllUses') + 1 /\ Cardinality(AllUses') \in Nat
    BY <1>0, <2>1, <2>2, UsesByPlace, UsesStep
  <2>4. Cardinality(AllUses') = 0 /\ count' = 0 /\ fileMutex' = None /\ ~file'
    <3>1. count' = 0 /\ fileMutex' = None /\ file' = file
      BY <1>3 DEF get_lower_file_fails
    <3>0. Cardinality(AllUses) = 1
      BY <1>0, <2>1
    <3>2. Cardinality(AllUses') = 0
      BY <2>3, <3>0
    <3>. QED  BY <2>1, <3>1, <3>2
  <2>. QED  BY <2>3, <2>4 DEF LowerCounted
<1>4. CASE ecryptfs_put_lower_file(t)
  <2>1. UsesAt("idle", call[t]) + 1 = UsesAt(pc[t], call[t])
    BY <1>4 DEF ecryptfs_put_lower_file, UsesAt
  <2>. QED  BY <1>4, <2>1, CountedOn DEF ecryptfs_put_lower_file
<1>. QED  BY <1>1, <1>2, <1>3, <1>4, <1>5 DEF GetsAndPuts

LEMMA InitializeCounted ==
    ASSUME Control, LowerCounted, NEW t \in Tasks, Initialize(t)
    PROVE  LowerCounted'
<1>. USE DEF At, To
<1>0. PlaceOf(t) /\ call[t] \in Calls
  BY DEF Control, FileTyped
<1>1. CASE generate_key_packet_set(t)
  BY <1>1, UnmovedCounted DEF generate_key_packet_set, taskVars
<1>2. CASE ~generate_key_packet_set(t)
  <2>1. pc[t] \in {"context", "header"} /\ call[t] \in {"create", "open"}
    BY <1>0, <1>2 DEF Initialize, new_file_context, new_file_context_fails, write_metadata, write_metadata_fails,
         PlaceOf, Busy, PlacesOf, Calls
  <2>2. PICK p \in {"get", "get2", "idle", "put", "opened"} :
           /\ pc' = [pc EXCEPT ![t] = p] /\ call' = call
           /\ p \in {"get", "idle"} <=> call[t] = "create"
           /\ IF pc[t] = "context" THEN UNCHANGED fileVars ELSE Put /\ p \notin {"get", "get2"}
    BY <1>2, <2>1 DEF Initialize, new_file_context, new_file_context_fails, write_metadata, write_metadata_fails, GiveUp
  <2>3. CASE pc[t] = "context"
    <3>1. UsesAt(p, call[t]) = UsesAt(pc[t], call[t])
      BY <2>1, <2>2, <2>3 DEF UsesAt
    <3>. QED  BY <2>2, <2>3, <3>1, CountedOn
  <2>4. CASE pc[t] = "header"
    <3>1. CASE call[t] = "create"
      <4>1. UsesAt(pc[t], call[t]) = 1 /\ UsesAt(p, call[t]) = 0
        BY <2>2, <2>4, <3>1 DEF UsesAt
      <4>2. UsesAt(p, call[t]) + 1 = UsesAt(pc[t], call[t])
        BY <4>1
      <4>. QED  BY <2>2, <2>4, <4>2, CountedOn
    <3>2. CASE call[t] = "open"
      <4>1. UsesAt(pc[t], call[t]) = 2 /\ UsesAt(p, call[t]) = 1
        BY <2>2, <2>4, <3>2 DEF UsesAt
      <4>2. UsesAt(p, call[t]) + 1 = UsesAt(pc[t], call[t])
        BY <4>1
      <4>. QED  BY <2>2, <2>4, <4>2, CountedOn
    <3>. QED  BY <2>1, <3>1, <3>2
  <2>. QED  BY <2>1, <2>3, <2>4
<1>. QED  BY <1>1, <1>2

LEMMA MetadataCounted ==
    ASSUME Control, LowerCounted, NEW t \in Tasks, Metadata(t)
    PROVE  LowerCounted'
<1>. USE DEF At, To
<1>1. PICK p \in Reads \cup {"opened", "put", "attr read", "attr fails", "context"} :
         pc' = [pc EXCEPT ![t] = p] /\ call' = call /\ UNCHANGED fileVars /\ (p = "context" => call[t] # "create")
  BY ReadsIn DEF Metadata, read_or_initialize_metadata, open_refused, read_contents, read_xattr, read_headers,
       parse_contents, parse_xattr, no_metadata, Opened, Reads
<1>2. pc[t] \in Reads \cup {"metadata"}
  BY DEF Metadata, read_or_initialize_metadata, open_refused, read_contents, read_xattr, read_headers,
       parse_contents, parse_xattr, no_metadata, Reads
<1>3. UsesAt(p, call[t]) = 1
  BY <1>1 DEF UsesAt, Reads
<1>4. UsesAt(pc[t], call[t]) = 1
  BY <1>2 DEF UsesAt, Reads
<1>. QED  BY <1>1, <1>3, <1>4, CountedOn

LEMMA AttributesCounted ==
    ASSUME Control, LowerCounted, NEW t \in Tasks, Attributes(t)
    PROVE  LowerCounted'
<1>. USE DEF At, To
<1>1. CASE setattr_lock(t)
  <2>1. PICK p \in {"idle", "get"} : pc' = [pc EXCEPT ![t] = p] /\ call' = call /\ UNCHANGED fileVars /\ pc[t] = "attr"
    BY <1>1 DEF setattr_lock
  <2>2. UsesAt(p, call[t]) = UsesAt(pc[t], call[t])
    BY <2>1 DEF UsesAt
  <2>. QED  BY <2>1, <2>2, CountedOn
<1>2. CASE setattr_read_metadata(t)
  <2>1. UsesAt("contents", call[t]) = UsesAt(pc[t], call[t])
    BY <1>2 DEF setattr_read_metadata, UsesAt
  <2>. QED  BY <1>2, <2>1, CountedOn DEF setattr_read_metadata
<1>3. CASE setattr_end(t)
  <2>1. UsesAt("idle", call[t]) = 0 /\ UsesAt(pc[t], call[t]) = 1
    BY <1>3 DEF setattr_end, UsesAt
  <2>2. UsesAt("idle", call[t]) + 1 = UsesAt(pc[t], call[t])
    BY <2>1
  <2>. QED  BY <1>3, <2>2, CountedOn DEF setattr_end
<1>. QED  BY <1>1, <1>2, <1>3 DEF Attributes

LEMMA HeaderRegionCounted ==
    ASSUME Control, LowerCounted, NEW t \in Tasks, read_and_validate_header_region(t)
    PROVE  LowerCounted'
<1>. USE DEF At, To
<1>1. /\ pc[t] = "stat" /\ call' = call /\ Put
      /\ pc' = [pc EXCEPT ![t] = "stat set"] \/ pc' = [pc EXCEPT ![t] = "stat xattr"]
  BY DEF read_and_validate_header_region, Sees
<1>2. /\ UsesAt("stat set", call[t]) \in {0} /\ UsesAt("stat xattr", call[t]) \in {0}
      /\ UsesAt(pc[t], call[t]) \in {1}
  BY <1>1 DEF UsesAt
<1>3. \A a \in {0}, b \in {1} : a + 1 = b
  OBVIOUS
<1>4. /\ UsesAt("stat set", call[t]) + 1 = UsesAt(pc[t], call[t])
      /\ UsesAt("stat xattr", call[t]) + 1 = UsesAt(pc[t], call[t])
  BY <1>2, <1>3, Zenon
<1>. QED  BY <1>1, <1>4, CountedOn

LEMMA SizeCounted ==
    ASSUME Control, LowerCounted, NEW t \in Tasks, Size(t)
    PROVE  LowerCounted'
<1>. USE DEF At, To
<1>1. CASE read_and_validate_header_region(t)
  BY <1>1, HeaderRegionCounted
<1>2. CASE ~read_and_validate_header_region(t)
  <2>1. PICK p \in {"stat set xattr", "stat end", "idle", "size store", "opened"} :
           /\ pc' = [pc EXCEPT ![t] = p] /\ call' = call /\ UNCHANGED fileVars
           /\ IF pc[t] \in {"size", "size store"} THEN p \in {"size store", "opened"}
              ELSE pc[t] \in {"stat xattr", "stat set", "stat set xattr", "stat end"} /\ p \notin {"size store", "opened"}
    BY <1>2 DEF Size, Sees, read_and_validate_xattr_region, i_size_init, lookup_end,
         write_inode_size_to_metadata, write_inode_size_store
  <2>2. UsesAt(p, call[t]) = UsesAt(pc[t], call[t])
    BY <2>1 DEF UsesAt
  <2>. QED  BY <2>1, <2>2, CountedOn
<1>. QED  BY <1>1, <1>2

LEMMA CallsCounted ==
    ASSUME Control, LowerCounted, NEW t \in Tasks, Calling(t) \/ write(t) \/ release(t) \/ Mounting(t)
    PROVE  LowerCounted'
<1>. USE DEF At, To
<1>0. FileTyped
  BY DEF Control
<1>1. CASE write(t) \/ release(t)
  <2>1. PICK p \in {"size", "put"} : pc' = [pc EXCEPT ![t] = p] /\ call' = call /\ UNCHANGED fileVars /\ pc[t] = "opened"
    BY <1>1 DEF write, release
  <2>2. UsesAt(p, call[t]) = UsesAt(pc[t], call[t])
    BY <2>1 DEF UsesAt
  <2>. QED  BY <2>1, <2>2, CountedOn
<1>2. CASE Mounting(t)
  <2>1. PICK p \in {"idle", "mount"} : pc' = [pc EXCEPT ![t] = p] /\ call' = call /\ UNCHANGED fileVars /\ pc[t] \in {"idle", "mount"}
    BY <1>2 DEF Mounting, mount, mount_end
  <2>2. UsesAt(p, call[t]) = UsesAt(pc[t], call[t])
    BY <2>1 DEF UsesAt
  <2>. QED  BY <2>1, <2>2, CountedOn
<1>3. CASE Calling(t)
  <2>1. PICK p \in {"context", "get", "attr"}, c \in {"create", "lookup", "open", "setattr"} :
           /\ pc' = [pc EXCEPT ![t] = p] /\ call' = [call EXCEPT ![t] = c] /\ UNCHANGED fileVars
           /\ pc[t] = "idle" /\ (p = "context" => c = "create")
    BY <1>3 DEF Calling, Call, create, lookup, open, setattr
  <2>2. UsesAt(p, c) = UsesAt(pc[t], call[t])
    BY <2>1 DEF UsesAt
  <2>3. Uses(t) = UsesAt(pc[t], call[t]) /\ Uses(t)' = UsesAt(p, c)
    BY <1>0, <2>1, UsesByPlace
  <2>. QED  BY <1>0, <2>1, <2>2, <2>3, CountedSame
<1>. QED  BY <1>1, <1>2, <1>3

THEOREM CountedStep == Control /\ LowerCounted /\ [Next]_vars => LowerCounted'
<1>. SUFFICES ASSUME Control, LowerCounted, [Next]_vars PROVE LowerCounted'
  OBVIOUS
<1>1. CASE UNCHANGED vars
  BY <1>1, UnmovedCounted DEF vars, taskVars
<1>2. CASE \E t \in Tasks : Step(t)
  <2>1. PICK t \in Tasks : Step(t)
    BY <1>2
  <2>2. CASE keys(t)
    BY <2>2, UnmovedCounted DEF keys, taskVars
  <2>. QED  BY <2>1, <2>2, GetsAndPutsCounted, InitializeCounted, MetadataCounted, SizeCounted, AttributesCounted,
               CallsCounted DEF Step, Mounting
<1>3. CASE \E t \in Tasks : mount(t) \/ create(t) \/ lookup(t) \/ open(t) \/ write(t) \/ release(t) \/ setattr(t)
  BY <1>3, CallsCounted DEF Mounting, Calling
<1>4. CASE (\E k \in Sigs : user(k)) \/ ecryptfs_evict_inode \/ kill_block_super
  BY <1>4, UnmovedCounted DEF user, ecryptfs_evict_inode, kill_block_super, taskVars
<1>. QED  BY <1>1, <1>2, <1>3, <1>4 DEF Next

THEOREM CountedInit == Init => LowerCounted
<1>. SUFFICES ASSUME Init PROVE LowerCounted
  OBVIOUS
<1>1. \A t \in Tasks : Uses(t) = 0
  BY DEF Init, Uses
<1>2. AllUses = {}
  BY <1>1 DEF AllUses
<1>. QED  BY <1>2, FS_EmptySet DEF Init, LowerCounted

-----------------------------------------------------------------------------
(* The keys.  One task at most works with a list of signatures: it mounts, *)
(* it makes the inode, or it holds cs_mutex.                               *)
LEMMA OneWorks ==
    ASSUME Control, \A u \in Tasks : WorkOf(u), NEW t \in Tasks,
           pc[t] \in Works \/ csMutex = t \/ inode.new = t
    PROVE  \A u \in Tasks \ {t} : work[u] = Idle
<1>. SUFFICES ASSUME NEW u \in Tasks \ {t}, work[u] # Idle PROVE FALSE
  OBVIOUS
<1>1. /\ PlaceOf(t) /\ PlaceOf(u) /\ pc[u] \in Works /\ call[t] \in Calls /\ call[u] \in Calls
  BY DEF Control, FileTyped, WorkOf
<1>2. ASSUME NEW x \in Tasks, PlaceOf(x), call[x] \in Calls, pc[x] \in Works
      PROVE  pc[x] = "mount" \/ inode.new = x \/ csMutex = x
  BY <1>2 DEF PlaceOf, Works, Busy, PlacesOf, Calls, Section
<1>3. pc[t] = "mount" \/ inode.new = t \/ csMutex = t
  BY <1>1, <1>2
<1>4. pc[u] # "idle"
  BY <1>1 DEF Works
<1>5. csMutex = t
  BY <1>3, <1>4 DEF Control, Alone
<1>6. pc[t] # "idle" /\ pc[t] # "mount"
  BY <1>1, <1>5 DEF PlaceOf, Busy
<1>7. pc[u] # "mount" /\ inode.new # u
  BY <1>6 DEF Control, Alone
<1>. QED  BY <1>1, <1>2, <1>5, <1>7

LEMMA IdleTyped == /\ Idle \in Work /\ Idle.phase = "idle" /\ Idle.for = "none" /\ Idle.list = << >> /\ Idle.at = 0
<1>. QED  BY DEF Idle, Work, Phases

LEMMA TakersCount ==
    ASSUME NEW t \in Tasks, NEW k
    PROVE  /\ (\A u \in Tasks \ {t} : work[u] = Idle) => Cardinality(Takers(k)) = IF Takes(t, k) THEN 1 ELSE 0
           /\ (\A u \in Tasks \ {t} : work'[u] = Idle) => Cardinality(Takers(k)') = IF Takes(t, k)' THEN 1 ELSE 0
<1>1. ASSUME \A u \in Tasks \ {t} : work[u] = Idle
      PROVE  Takers(k) \subseteq {t} /\ (t \in Takers(k) <=> Takes(t, k))
  BY <1>1, IdleTyped DEF Takers, Takes
<1>2. ASSUME \A u \in Tasks \ {t} : work'[u] = Idle
      PROVE  Takers(k)' \subseteq {t} /\ (t \in Takers(k)' <=> Takes(t, k)')
  BY <1>2, IdleTyped DEF Takers, Takes
<1>. QED  BY <1>1, <1>2, OneAtMost

(* How a reference, the list's entry and the task's use of a key change    *)
(* together.                                                               *)
Balanced(n, m, listed, listed2, taken, taken2) ==
  \/ m = n /\ (listed2 <=> listed) /\ (taken2 <=> taken)
  \/ m = n + 1 /\ (listed2 <=> listed) /\ ~taken /\ taken2
  \/ m = n - 1 /\ (listed2 <=> listed) /\ taken /\ ~taken2
  \/ m = n - 1 /\ listed /\ ~listed2 /\ (taken2 <=> taken)
  \/ m = n /\ ~listed /\ listed2 /\ taken /\ ~taken2

One(b) == IF b THEN 1 ELSE 0

LEMMA Balance ==
    ASSUME NEW n \in Int, NEW m, NEW a \in {0, 1}, NEW a2 \in {0, 1}, NEW b \in {0, 1}, NEW b2 \in {0, 1},
           \/ m = n /\ a2 = a /\ b2 = b
           \/ m = n + 1 /\ a2 = a /\ b = 0 /\ b2 = 1
           \/ m = n - 1 /\ a2 = a /\ b = 1 /\ b2 = 0
           \/ m = n - 1 /\ a = 1 /\ a2 = 0 /\ b2 = b
           \/ m = n /\ a = 0 /\ a2 = 1 /\ b = 1 /\ b2 = 0,
           n = 1 + a + b
    PROVE  m \in Int /\ m = 1 + a2 + b2
<1>. QED  OBVIOUS

(* A task that works with its list, on its own: what its step must leave.  *)
MountList(w, tokens) ==
  \/ w.phase = "done"
  \/ /\ w.phase \in {"find", "lock", "hold"} /\ w.at \in DOMAIN w.list
     /\ \A i, j \in DOMAIN w.list : w.list[i] = w.list[j] => i = j
     /\ \A i \in DOMAIN w.list : i >= w.at => tokens[w.list[i]] = "none"

TakesOf(w, holder, t, k) ==
  (w.phase = "hold" \/ (w.phase = "lock" /\ holder # t)) /\ k = w.list[w.at]

WorksOn(t, w) ==
  /\ work' = [work EXCEPT ![t] = w] /\ w \in Work /\ w # Idle /\ w.for = work[t].for
  /\ w.phase \in {"find", "lock", "hold", "ask"} => w.at \in DOMAIN w.list
  /\ listMutex' \in {listMutex, t, None}
  /\ listMutex' = t => w.phase = "lock" /\ w.for # "mount" /\ tok'[w.list[w.at]] = "valid"
  /\ w.for = "mount" => MountList(w, tok')
  /\ \A k \in Sigs : sem'[k] # None => sem'[k] = t /\ ~oops' /\ w.phase = "hold" /\ k = w.list[w.at]
  /\ \A k \in Sigs : Balanced(refs[k], refs'[k], tok[k] = "valid", tok'[k] = "valid",
                              TakesOf(work[t], listMutex, t, k), TakesOf(w, listMutex', t, k))
  /\ key' \in [Sigs -> {"ok", "garbled", "expired", "revoked"}] /\ sem' \in [Sigs -> Tasks \cup {None}]
  /\ tok' \in [Sigs -> {"none", "valid", "invalid"}] /\ oops' \in BOOLEAN
  /\ DOMAIN refs' = Sigs /\ refs' = [k \in Sigs |-> refs'[k]]

LEMMA WorksOnKeeps ==
    ASSUME Control, KeysHeld, NEW t \in Tasks, work[t] # Idle, UNCHANGED <<pc, mounted>>, NEW w, WorksOn(t, w)
    PROVE  KeysHeld'
<1>. USE NoTask
<1>1. pc[t] \in Works /\ \A u \in Tasks \ {t} : work[u] = Idle
  <2>1. pc[t] \in Works
    BY DEF KeysHeld, WorkOf
  <2>. QED  BY <2>1, OneWorks DEF KeysHeld
<1>2. work'[t] = w /\ w \in Work /\ \A u \in Tasks \ {t} : work'[u] = Idle
  BY <1>1 DEF WorksOn, KeysHeld, KeysTyped
<1>3. ASSUME NEW u \in Tasks PROVE WorkOf(u)'
  <2>1. CASE u = t
    <3>1. work[t].for = "mount" <=> pc[t] = "mount"
      BY DEF KeysHeld, WorkOf
    <3>. QED  BY <1>1, <1>2, <2>1, <3>1 DEF WorksOn, WorkOf, MountList, Current
  <2>2. CASE u # t
    <3>1. work[u] = Idle /\ work'[u] = Idle
      BY <1>1, <1>2, <2>2
    <3>2. listMutex # u /\ pc[u] # "mount"
      BY <3>1, IdleTyped DEF KeysHeld, WorkOf
    <3>3. listMutex' # u
      BY <2>2, <3>2 DEF WorksOn
    <3>. QED  BY <3>1, <3>2, <3>3, IdleTyped DEF WorkOf
  <2>. QED  BY <2>1, <2>2
<1>4. Locked'
  BY <1>2 DEF Locked, WorksOn, Current
<1>5. Unmounted'
  <2>1. PlaceOf(t)
    BY DEF Control
  <2>2. pc[t] = "mount" \/ mounted = "yes"
    BY <1>1, <2>1 DEF Works, PlaceOf, Busy
  <2>. QED  BY <2>2 DEF Unmounted
<1>6. ASSUME NEW k \in Sigs
      PROVE  refs'[k] \in Int /\ refs'[k] = 1 + (IF tok'[k] = "valid" THEN 1 ELSE 0) + Cardinality(Takers(k)')
  <2>1. Takes(t, k) <=> TakesOf(work[t], listMutex, t, k)
    BY DEF Takes, TakesOf, Current
  <2>2. Takes(t, k)' <=> TakesOf(w, listMutex', t, k)
    BY <1>2 DEF Takes, TakesOf, Current
  <2>3. Cardinality(Takers(k)) = One(TakesOf(work[t], listMutex, t, k))
    BY <1>1, <2>1, TakersCount DEF One
  <2>4. Cardinality(Takers(k)') = One(TakesOf(w, listMutex', t, k))
    BY <1>2, <2>2, TakersCount DEF One
  <2>5. refs[k] \in Int /\ refs[k] = 1 + One(tok[k] = "valid") + One(TakesOf(work[t], listMutex, t, k))
    BY <2>3 DEF KeysHeld, KeysTyped, RefsTaken, One
  <2>6. PICK n, m, a, a2, b, b2 : /\ n = refs[k] /\ m = refs'[k]
                                  /\ a = One(tok[k] = "valid") /\ a2 = One(tok'[k] = "valid")
                                  /\ b = One(TakesOf(work[t], listMutex, t, k)) /\ b2 = One(TakesOf(w, listMutex', t, k))
    OBVIOUS
  <2>7. Balanced(n, m, tok[k] = "valid", tok'[k] = "valid",
                 TakesOf(work[t], listMutex, t, k), TakesOf(w, listMutex', t, k))
    BY <2>6 DEF WorksOn
  <2>8. /\ a \in {0, 1} /\ a2 \in {0, 1} /\ b \in {0, 1} /\ b2 \in {0, 1} /\ n \in Int /\ n = 1 + a + b
        /\ \/ m = n /\ a2 = a /\ b2 = b
           \/ m = n + 1 /\ a2 = a /\ b = 0 /\ b2 = 1
           \/ m = n - 1 /\ a2 = a /\ b = 1 /\ b2 = 0
           \/ m = n - 1 /\ a = 1 /\ a2 = 0 /\ b2 = b
           \/ m = n /\ a = 0 /\ a2 = 1 /\ b = 1 /\ b2 = 0
    BY <2>5, <2>6, <2>7 DEF Balanced, One
  <2>9. m \in Int /\ m = 1 + a2 + b2
    BY <2>8, Balance
  <2>. QED  BY <2>4, <2>6, <2>9 DEF One
<1>7. KeysTyped'
  <2>1. refs' \in [Sigs -> Int]
    BY <1>6 DEF WorksOn
  <2>2. listMutex' \in Tasks \cup {None} /\ work' \in [Tasks -> Work]
    BY <1>2 DEF WorksOn, KeysHeld, KeysTyped
  <2>. QED  BY <2>1, <2>2 DEF KeysTyped, WorksOn
<1>8. RefsTaken'
  BY <1>6 DEF RefsTaken
<1>. QED  BY <1>3, <1>4, <1>5, <1>7, <1>8 DEF KeysHeld

(* What the steps make of a task's list.                                   *)
LEMMA WorkFields ==
    ASSUME NEW w \in Work
    PROVE  /\ w.phase \in Phases /\ w.for \in {"none", "mount", "read", "write"}
           /\ w.list \in Seq(Sigs) /\ w.at \in Nat /\ w.ok \in BOOLEAN
           /\ Len(w.list) \in Nat /\ DOMAIN w.list = 1..Len(w.list) /\ \A i \in DOMAIN w.list : w.list[i] \in Sigs
<1>1. w.list \in Seq(Sigs)
  BY DEF Work
<1>2. Len(w.list) \in Nat /\ DOMAIN w.list = 1..Len(w.list)
  BY <1>1, LenProperties
<1>3. \A i \in DOMAIN w.list : w.list[i] \in Sigs
  BY <1>1, <1>2, ElementOfSeq
<1>. QED  BY <1>1, <1>2, <1>3 DEF Work

LEMMA FinishedTyped ==
    ASSUME NEW w \in Work, NEW b \in BOOLEAN
    PROVE  /\ Finished(w, b) \in Work /\ Finished(w, b).for = w.for /\ Finished(w, b).phase = "done" /\ Finished(w, b) # Idle
<1>1. Finished(w, b) \in Work
  BY DEF Finished, Work, Phases
<1>2. Finished(w, b).for = w.for /\ Finished(w, b).phase = "done"
  BY DEF Finished, Work
<1>. QED  BY <1>1, <1>2, IdleTyped

(* A task at a signature goes on to another, or is done.                   *)
Follows(w, r) ==
  /\ r \in Work /\ r # Idle /\ r.for = w.for /\ r.phase \in {"find", "done"}
  /\ r.phase = "find" => r.at \in DOMAIN r.list

LEMMA OnwardFollows ==
    ASSUME NEW w \in Work, w.at \in DOMAIN w.list
    PROVE  /\ Follows(w, Onward(w))
           /\ Onward(w).phase = "find" => Onward(w).list = w.list /\ Onward(w).at = w.at + 1
<1>1. CASE w.at = Len(w.list)
  <2>1. Onward(w) = Finished(w, w.for # "read")
    BY <1>1 DEF Onward
  <2>2. Finished(w, w.for # "read") \in Work /\ Finished(w, w.for # "read").for = w.for
        /\ Finished(w, w.for # "read").phase = "done" /\ Finished(w, w.for # "read") # Idle
    BY FinishedTyped
  <2>. QED  BY <2>1, <2>2 DEF Follows
<1>2. CASE w.at # Len(w.list)
  <2>1. Onward(w) = [w EXCEPT !.phase = "find", !.at = w.at + 1]
    BY <1>2 DEF Onward
  <2>2. w.at + 1 \in Nat /\ w.at + 1 \in DOMAIN w.list
    BY <1>2, WorkFields
  <2>3. Onward(w) \in Work
    BY <2>1, <2>2 DEF Work, Phases
  <2>4. Onward(w).phase = "find" /\ Onward(w).at = w.at + 1 /\ Onward(w).list = w.list /\ Onward(w).for = w.for
    BY <2>1 DEF Work
  <2>. QED  BY <2>2, <2>3, <2>4, IdleTyped DEF Follows
<1>. QED  BY <1>1, <1>2

LEMMA DiscardedFollows ==
    ASSUME NEW w \in Work, w.at \in DOMAIN w.list
    PROVE  Follows(w, Discarded(w))
<1>1. PICK rest : rest = RemoveAt(w.list, w.at)
  OBVIOUS
<1>2. rest \in Seq(Sigs)
  <2>1. w.at - 1 \in Int /\ w.at + 1 \in Int /\ Len(w.list) \in Int
    BY WorkFields
  <2>2. (\A i \in 1..(w.at - 1) : w.list[i] \in Sigs) /\ (\A i \in (w.at + 1)..Len(w.list) : w.list[i] \in Sigs)
    <3>1. (1..(w.at - 1)) \subseteq DOMAIN w.list /\ ((w.at + 1)..Len(w.list)) \subseteq DOMAIN w.list
      BY WorkFields
    <3>. QED  BY <3>1, WorkFields
  <2>3. SubSeq(w.list, 1, w.at - 1) \in Seq(Sigs) /\ SubSeq(w.list, w.at + 1, Len(w.list)) \in Seq(Sigs)
    BY <2>1, <2>2, SubSeqProperties
  <2>. QED  BY <1>1, <2>3, ConcatProperties DEF RemoveAt
<1>3. CASE rest = << >>
  <2>1. Discarded(w) = Finished(w, FALSE)
    BY <1>1, <1>3 DEF Discarded
  <2>. QED  BY <2>1, FinishedTyped DEF Follows
<1>4. CASE rest # << >>
  <2>1. Discarded(w) = [w EXCEPT !.phase = "find", !.list = rest, !.at = 1]
    BY <1>1, <1>4 DEF Discarded
  <2>2. Discarded(w) \in Work
    <3>1. [w EXCEPT !.list = rest] \in Work
      BY <1>2 DEF Work
    <3>2. [w EXCEPT !.phase = "find", !.list = rest, !.at = 1] = [[w EXCEPT !.list = rest] EXCEPT !.phase = "find", !.at = 1]
      BY DEF Work
    <3>3. [[w EXCEPT !.list = rest] EXCEPT !.phase = "find", !.at = 1] \in Work
      BY <3>1 DEF Work, Phases
    <3>. QED  BY <2>1, <3>2, <3>3
  <2>3. Discarded(w).phase = "find" /\ Discarded(w).at = 1 /\ Discarded(w).list = rest /\ Discarded(w).for = w.for
    BY <2>1 DEF Work
  <2>4. 1 \in DOMAIN rest
    <3>1. Len(rest) \in Nat /\ Len(rest) # 0 /\ DOMAIN rest = 1..Len(rest)
      BY <1>2, <1>4, EmptySeq, LenProperties
    <3>. QED  BY <3>1
  <2>. QED  BY <2>2, <2>3, <2>4, IdleTyped DEF Follows
<1>. QED  BY <1>3, <1>4

LEMMA WorkFollows ==
    ASSUME NEW w \in Work, w.at \in DOMAIN w.list
    PROVE  /\ Follows(w, Onward(w)) /\ Follows(w, NotFound(w)) /\ Follows(w, Succeeded(w)) /\ Follows(w, Failed(w))
           /\ w.for = "mount" => NotFound(w).phase = "done" /\ Failed(w).phase = "done" /\ Succeeded(w) = Onward(w)
<1>1. Follows(w, Finished(w, TRUE)) /\ Follows(w, Finished(w, FALSE)) /\ Finished(w, FALSE).phase = "done"
  BY FinishedTyped DEF Follows
<1>. QED  BY <1>1, OnwardFollows, DiscardedFollows DEF NotFound, Succeeded, Failed

LEMMA PhaseTyped ==
    ASSUME NEW w \in Work, NEW p \in Phases, p # "idle"
    PROVE  /\ [w EXCEPT !.phase = p] \in Work /\ [w EXCEPT !.phase = p] # Idle
           /\ [w EXCEPT !.phase = p].phase = p /\ [w EXCEPT !.phase = p].for = w.for
           /\ [w EXCEPT !.phase = p].list = w.list /\ [w EXCEPT !.phase = p].at = w.at
<1>1. [w EXCEPT !.phase = p] \in Work
  BY DEF Work
<1>2. /\ [w EXCEPT !.phase = p].phase = p /\ [w EXCEPT !.phase = p].for = w.for
      /\ [w EXCEPT !.phase = p].list = w.list /\ [w EXCEPT !.phase = p].at = w.at
  BY DEF Work
<1>. QED  BY <1>1, <1>2, IdleTyped

(* A task at a signature.                                                  *)
LEMMA AtKey ==
    ASSUME Control, KeysHeld, NEW t \in Tasks, NEW k \in Sigs, NEW phase \in {"find", "lock", "hold", "ask"}, Is(t, phase, k)
    PROVE  /\ work[t] \in Work /\ work[t] # Idle /\ work[t].at \in DOMAIN work[t].list /\ k = work[t].list[work[t].at]
           /\ work[t].phase = phase /\ ~oops /\ phase \in Phases
           /\ \A s \in Sigs : sem[s] # None => sem[s] = t /\ phase = "hold" /\ s = k
           /\ listMutex = t => phase = "lock" /\ work[t].for # "mount" /\ tok[k] = "valid"
           /\ work[t].for = "mount" => MountList(work[t], tok) /\ tok[k] = "none"
           /\ t # None
<1>1. WorkOf(t) /\ KeysTyped /\ Locked /\ work[t].phase = phase /\ k = work[t].list[work[t].at] /\ ~oops
  BY DEF KeysHeld, Is
<1>2. work[t] \in Work
  BY <1>1 DEF KeysTyped
<1>3. work[t] # Idle
  BY <1>1, IdleTyped
<1>4. work[t].at \in DOMAIN work[t].list
  BY <1>1 DEF WorkOf
<1>5. pc[t] \in Works /\ \A u \in Tasks \ {t} : work[u] = Idle
  BY <1>1, <1>3, OneWorks DEF KeysHeld, WorkOf
<1>6. ASSUME NEW s \in Sigs, sem[s] # None PROVE sem[s] = t /\ phase = "hold" /\ s = k
  <2>1. sem[s] \in Tasks /\ work[sem[s]].phase = "hold" /\ s = work[sem[s]].list[work[sem[s]].at]
    BY <1>1, <1>6 DEF KeysTyped, Locked, Current
  <2>2. sem[s] = t
    BY <1>5, <2>1, IdleTyped
  <2>. QED  BY <1>1, <2>1, <2>2
<1>7. listMutex = t => phase = "lock" /\ work[t].for # "mount" /\ tok[k] = "valid"
  BY <1>1 DEF WorkOf, Current
<1>8. ASSUME work[t].for = "mount" PROVE MountList(work[t], tok) /\ tok[k] = "none"
  <2>1. pc[t] = "mount"
    BY <1>1, <1>8 DEF WorkOf
  <2>2. MountList(work[t], tok)
    BY <1>1, <2>1 DEF WorkOf, MountList
  <2>3. work[t].at >= work[t].at
    BY <1>2, WorkFields
  <2>. QED  BY <1>1, <1>4, <2>2, <2>3 DEF MountList
<1>. QED  BY <1>1, <1>2, <1>3, <1>4, <1>6, <1>7, <1>8, NoTask DEF Phases

LEMMA MountListKept ==
    ASSUME NEW w \in Work, NEW tokens \in [Sigs -> {"none", "valid", "invalid"}], MountList(w, tokens), w.phase # "done"
    PROVE  /\ \A p \in {"lock", "hold"} : MountList([w EXCEPT !.phase = p], tokens)
           /\ \A x \in {"valid", "invalid"} : MountList(Onward(w), [tokens EXCEPT ![w.list[w.at]] = x])
<1>1. w.phase \in Phases /\ w.list \in Seq(Sigs) /\ w.at \in Nat /\ DOMAIN w.list = 1..Len(w.list) /\ Len(w.list) \in Nat
      /\ \A i \in DOMAIN w.list : w.list[i] \in Sigs
  BY WorkFields
<1>2. /\ w.at \in DOMAIN w.list
      /\ \A i, j \in DOMAIN w.list : w.list[i] = w.list[j] => i = j
      /\ \A i \in DOMAIN w.list : i >= w.at => tokens[w.list[i]] = "none"
  BY DEF MountList
<1>3. ASSUME NEW p \in {"lock", "hold"} PROVE MountList([w EXCEPT !.phase = p], tokens)
  <2>1. [w EXCEPT !.phase = p].phase = p /\ [w EXCEPT !.phase = p].list = w.list /\ [w EXCEPT !.phase = p].at = w.at
    BY PhaseTyped DEF Phases
  <2>. QED  BY <1>2, <2>1 DEF MountList
<1>4. ASSUME NEW x \in {"valid", "invalid"} PROVE MountList(Onward(w), [tokens EXCEPT ![w.list[w.at]] = x])
  <2>1. CASE Onward(w).phase = "done"
    BY <2>1 DEF MountList
  <2>2. CASE Onward(w).phase = "find"
    <3>1. Onward(w).list = w.list /\ Onward(w).at = w.at + 1 /\ Onward(w).at \in DOMAIN w.list
      BY <1>2, <2>2, OnwardFollows DEF Follows
    <3>2. ASSUME NEW i \in DOMAIN w.list, i >= w.at + 1 PROVE [tokens EXCEPT ![w.list[w.at]] = x][w.list[i]] = "none"
      <4>1. i # w.at /\ i >= w.at
        BY <1>1, <3>2
      <4>2. w.list[i] # w.list[w.at] /\ w.list[i] \in Sigs
        BY <1>1, <1>2, <4>1
      <4>. QED  BY <1>2, <4>1, <4>2
    <3>. QED  BY <1>2, <2>2, <3>1, <3>2 DEF MountList
  <2>. QED  BY <1>2, <2>1, <2>2, OnwardFollows DEF Follows
<1>. QED  BY <1>3, <1>4

(* Every step with a key is one that WorksOnKeeps speaks of.  First what   *)
(* they have in common.                                                    *)
LEMMA WorksOnFrom ==
    ASSUME KeysHeld, NEW t \in Tasks, NEW w, work' = [work EXCEPT ![t] = w],
           w \in Work, w # Idle, w.for = work[t].for,
           w.phase \in {"find", "lock", "hold", "ask"} => w.at \in DOMAIN w.list,
           listMutex' = listMutex \/ (listMutex = None /\ listMutex' = t) \/ (listMutex = t /\ listMutex' = None),
           listMutex' = t => w.phase = "lock" /\ w.for # "mount" /\ tok'[w.list[w.at]] = "valid",
           w.for = "mount" => MountList(w, tok'),
           UNCHANGED key, oops' \in BOOLEAN,
           NEW k \in Sigs,
           \/ sem' = sem /\ \A s \in Sigs : sem[s] = None
           \/ (\A s \in Sigs \ {k} : sem[s] = None) /\ sem' = [sem EXCEPT ![k] = None]
           \/ (\A s \in Sigs : sem[s] = None) /\ sem' = [sem EXCEPT ![k] = t] /\ ~oops' /\ w.phase = "hold" /\ k = w.list[w.at],
           tok' = [tok EXCEPT ![k] = tok'[k]], tok'[k] \in {"none", "valid", "invalid"},
           refs' = [refs EXCEPT ![k] = refs'[k]],
           Balanced(refs[k], refs'[k], tok[k] = "valid", tok'[k] = "valid",
                    TakesOf(work[t], listMutex, t, k), TakesOf(w, listMutex', t, k)),
           \A s \in Sigs \ {k} : ~TakesOf(work[t], listMutex, t, s) /\ ~TakesOf(w, listMutex', t, s)
    PROVE  WorksOn(t, w)
<1>. USE NoTask
<1>1. KeysTyped
  BY DEF KeysHeld
<1>2. \A s \in Sigs : Balanced(refs[s], refs'[s], tok[s] = "valid", tok'[s] = "valid",
                              TakesOf(work[t], listMutex, t, s), TakesOf(w, listMutex', t, s))
  <2>1. ASSUME NEW s \in Sigs, s # k
        PROVE  Balanced(refs[s], refs'[s], tok[s] = "valid", tok'[s] = "valid",
                        TakesOf(work[t], listMutex, t, s), TakesOf(w, listMutex', t, s))
    <3>1. refs'[s] = refs[s] /\ tok'[s] = tok[s]
      BY <1>1, <2>1 DEF KeysTyped
    <3>. QED  BY <2>1, <3>1 DEF Balanced
  <2>. QED  BY <2>1
<1>3. \A s \in Sigs : sem'[s] # None => sem'[s] = t /\ ~oops' /\ w.phase = "hold" /\ s = w.list[w.at]
  BY <1>1 DEF KeysTyped
<1>4. sem' \in [Sigs -> Tasks \cup {None}] /\ tok' \in [Sigs -> {"none", "valid", "invalid"}]
      /\ key' \in [Sigs -> {"ok", "garbled", "expired", "revoked"}]
  BY <1>1 DEF KeysTyped
<1>5. DOMAIN refs' = Sigs /\ refs' = [s \in Sigs |-> refs'[s]]
  BY <1>1 DEF KeysTyped
<1>. QED  BY <1>2, <1>3, <1>4, <1>5 DEF WorksOn

(* A task that goes on to another signature, or is done, takes nothing.    *)
LEMMA FollowsFacts ==
    ASSUME NEW w \in Work, NEW r, Follows(w, r)
    PROVE  /\ r \in Work /\ r # Idle /\ r.for = w.for
           /\ r.phase \in {"find", "lock", "hold", "ask"} => r.at \in DOMAIN r.list
           /\ r.phase \notin {"lock", "hold"} /\ \A h, t, s : ~TakesOf(r, h, t, s)
<1>. QED  BY DEF Follows, TakesOf

LEMMA FindWorks ==
    ASSUME Control, KeysHeld, NEW t \in Tasks, NEW k \in Sigs, Find(t, k)
    PROVE  \E w : WorksOn(t, w)
<1>. USE DEF Goes
<1>0. /\ work[t] \in Work /\ work[t] # Idle /\ work[t].at \in DOMAIN work[t].list /\ k = work[t].list[work[t].at]
      /\ work[t].phase = "find" /\ ~oops /\ oops' = oops /\ UNCHANGED <<key, sem>> /\ KeysTyped
      /\ \A s \in Sigs : sem[s] = None
      /\ listMutex # t /\ t # None
      /\ work[t].for = "mount" => MountList(work[t], tok) /\ tok[k] = "none"
      /\ \A s \in Sigs : ~TakesOf(work[t], listMutex, t, s)
  <2>1. Is(t, "find", k)
    BY DEF Find, find_refused, find_revoked, find_valid, find_not_listed, keyring_auth_tok_for_sig
  <2>2. oops' = oops /\ UNCHANGED <<key, sem>>
    BY DEF Find, find_refused, find_revoked, find_valid, find_not_listed, keyring_auth_tok_for_sig
  <2>. QED  BY <2>1, <2>2, AtKey DEF TakesOf, KeysHeld
<1>1. /\ tok = [tok EXCEPT ![k] = tok[k]] /\ refs = [refs EXCEPT ![k] = refs[k]]
      /\ tok[k] \in {"none", "valid", "invalid"} /\ oops \in BOOLEAN
      /\ \A x : [tok EXCEPT ![k] = x][k] = x /\ [refs EXCEPT ![k] = x][k] = x
  BY <1>0 DEF KeysTyped
<1>2. Follows(work[t], NotFound(work[t])) /\ (work[t].for = "mount" => NotFound(work[t]).phase = "done")
  BY <1>0, WorkFollows
<1>a. /\ NotFound(work[t]) \in Work /\ NotFound(work[t]) # Idle /\ NotFound(work[t]).for = work[t].for
      /\ NotFound(work[t]).phase \in {"find", "lock", "hold", "ask"} => NotFound(work[t]).at \in DOMAIN NotFound(work[t]).list
      /\ NotFound(work[t]).phase \notin {"lock", "hold"} /\ \A h, s : ~TakesOf(NotFound(work[t]), h, t, s)
      /\ NotFound(work[t]).for = "mount" => MountList(NotFound(work[t]), tok')
  BY <1>0, <1>2, FollowsFacts DEF MountList
<1>3. CASE find_refused(t, k) \/ find_not_listed(t, k)
  <2>1. work' = [work EXCEPT ![t] = NotFound(work[t])] /\ UNCHANGED <<refs, tok, listMutex>>
    BY <1>3 DEF find_refused, find_not_listed
  <2>2. Balanced(refs[k], refs'[k], tok[k] = "valid", tok'[k] = "valid",
                 TakesOf(work[t], listMutex, t, k), TakesOf(NotFound(work[t]), listMutex', t, k))
    BY <1>0, <1>a, <2>1 DEF Balanced
  <2>3. tok' = [tok EXCEPT ![k] = tok'[k]] /\ tok'[k] \in {"none", "valid", "invalid"} /\ refs' = [refs EXCEPT ![k] = refs'[k]]
    BY <1>1, <2>1
  <2>4. WorksOn(t, NotFound(work[t]))
    BY <1>0, <1>1, <1>a, <2>1, <2>2, <2>3, WorksOnFrom
  <2>. QED  BY <2>4
<1>4. CASE find_revoked(t, k)
  <2>1. /\ work' = [work EXCEPT ![t] = NotFound(work[t])] /\ UNCHANGED listMutex /\ tok[k] = "valid"
        /\ tok' = [tok EXCEPT ![k] = "invalid"] /\ refs' = [refs EXCEPT ![k] = refs[k] - 1]
    BY <1>4 DEF find_revoked
  <2>2. Balanced(refs[k], refs'[k], tok[k] = "valid", tok'[k] = "valid",
                 TakesOf(work[t], listMutex, t, k), TakesOf(NotFound(work[t]), listMutex', t, k))
    BY <1>0, <1>1, <1>a, <2>1 DEF Balanced
  <2>3. tok' = [tok EXCEPT ![k] = tok'[k]] /\ tok'[k] \in {"none", "valid", "invalid"} /\ refs' = [refs EXCEPT ![k] = refs'[k]]
    BY <1>1, <2>1
  <2>4. WorksOn(t, NotFound(work[t]))
    BY <1>0, <1>1, <1>a, <2>1, <2>2, <2>3, WorksOnFrom
  <2>. QED  BY <2>4
<1>5. PICK locking : locking = [work[t] EXCEPT !.phase = "lock"]
  OBVIOUS
<1>6. /\ locking \in Work /\ locking # Idle /\ locking.for = work[t].for /\ locking.phase = "lock"
      /\ locking.at \in DOMAIN locking.list /\ k = locking.list[locking.at]
  BY <1>0, <1>5, PhaseTyped DEF Phases
<1>7. CASE find_valid(t, k)
  <2>1. /\ work' = [work EXCEPT ![t] = locking] /\ UNCHANGED <<refs, tok>> /\ tok[k] = "valid"
        /\ listMutex = None /\ listMutex' = t /\ work[t].for # "mount"
    BY <1>5, <1>7 DEF find_valid
  <2>2. \A s : ~TakesOf(locking, listMutex', t, s)
    BY <1>6, <2>1 DEF TakesOf
  <2>3. Balanced(refs[k], refs'[k], tok[k] = "valid", tok'[k] = "valid",
                 TakesOf(work[t], listMutex, t, k), TakesOf(locking, listMutex', t, k))
    BY <1>0, <2>1, <2>2 DEF Balanced
  <2>4. tok' = [tok EXCEPT ![k] = tok'[k]] /\ tok'[k] \in {"none", "valid", "invalid"} /\ refs' = [refs EXCEPT ![k] = refs'[k]]
    BY <1>1, <2>1
  <2>5. /\ listMutex' = t => locking.phase = "lock" /\ locking.for # "mount" /\ tok'[locking.list[locking.at]] = "valid"
        /\ locking.for = "mount" => MountList(locking, tok')
    BY <1>6, <2>1
  <2>6. WorksOn(t, locking)
    BY <1>0, <1>1, <1>6, <2>1, <2>2, <2>3, <2>4, <2>5, WorksOnFrom
  <2>. QED  BY <2>6
<1>8. CASE keyring_auth_tok_for_sig(t, k)
  <2>1. CASE key[k] \in {"ok", "garbled"}
    <3>1. /\ work' = [work EXCEPT ![t] = locking] /\ UNCHANGED <<tok, listMutex>>
          /\ refs' = [refs EXCEPT ![k] = refs[k] + 1]
      BY <1>5, <1>8, <2>1 DEF keyring_auth_tok_for_sig
    <3>2. TakesOf(locking, listMutex', t, k) /\ \A s : s # k => ~TakesOf(locking, listMutex', t, s)
      BY <1>0, <1>6, <3>1 DEF TakesOf
    <3>3. Balanced(refs[k], refs'[k], tok[k] = "valid", tok'[k] = "valid",
                   TakesOf(work[t], listMutex, t, k), TakesOf(locking, listMutex', t, k))
      BY <1>0, <1>1, <3>1, <3>2 DEF Balanced
    <3>4. locking.for = "mount" => MountList(locking, tok')
      BY <1>0, <1>5, <1>6, <3>1, MountListKept DEF KeysTyped
    <3>5. tok' = [tok EXCEPT ![k] = tok'[k]] /\ tok'[k] \in {"none", "valid", "invalid"} /\ refs' = [refs EXCEPT ![k] = refs'[k]]
      BY <1>1, <3>1
    <3>6. WorksOn(t, locking)
      BY <1>0, <1>1, <1>6, <3>1, <3>2, <3>3, <3>4, <3>5, WorksOnFrom
    <3>. QED  BY <3>6
  <2>2. CASE key[k] \notin {"ok", "garbled"}
    <3>1. /\ work' = [work EXCEPT ![t] = NotFound(work[t])] /\ UNCHANGED <<refs, listMutex>>
          /\ tok' = [tok EXCEPT ![k] = IF work[t].for = "mount" THEN "invalid" ELSE tok[k]]
      BY <1>8, <2>2 DEF keyring_auth_tok_for_sig
    <3>2. tok'[k] = (IF work[t].for = "mount" THEN "invalid" ELSE tok[k]) /\ tok'[k] \in {"none", "valid", "invalid"}
          /\ tok' = [tok EXCEPT ![k] = tok'[k]] /\ (tok'[k] = "valid" <=> tok[k] = "valid")
      BY <1>0, <1>1, <3>1
    <3>3. Balanced(refs[k], refs'[k], tok[k] = "valid", tok'[k] = "valid",
                   TakesOf(work[t], listMutex, t, k), TakesOf(NotFound(work[t]), listMutex', t, k))
      BY <1>0, <1>a, <3>1, <3>2 DEF Balanced
    <3>4. refs' = [refs EXCEPT ![k] = refs'[k]]
      BY <1>1, <3>1
    <3>5. WorksOn(t, NotFound(work[t]))
      BY <1>0, <1>1, <1>a, <3>1, <3>2, <3>3, <3>4, WorksOnFrom
    <3>. QED  BY <3>5
  <2>. QED  BY <2>1, <2>2
<1>. QED  BY <1>3, <1>4, <1>7, <1>8 DEF Find

LEMMA LockWorks ==
    ASSUME Control, KeysHeld, NEW t \in Tasks, NEW k \in Sigs, Lock(t, k)
    PROVE  \E w : WorksOn(t, w)
<1>. USE DEF Goes
<1>0. /\ work[t] \in Work /\ work[t] # Idle /\ work[t].at \in DOMAIN work[t].list /\ k = work[t].list[work[t].at]
      /\ work[t].phase = "lock" /\ ~oops /\ key' = key /\ KeysTyped
      /\ \A s \in Sigs : sem[s] = None
      /\ listMutex = t => work[t].for # "mount" /\ tok[k] = "valid"
      /\ t # None
      /\ work[t].for = "mount" => MountList(work[t], tok) /\ tok[k] = "none"
  <2>1. Is(t, "lock", k) /\ key' = key
    BY DEF Lock, lock_key, lock_garbled, lock_revoked
  <2>. QED  BY <2>1, AtKey DEF KeysHeld
<1>1. /\ tok = [tok EXCEPT ![k] = tok[k]] /\ refs = [refs EXCEPT ![k] = refs[k]]
      /\ tok[k] \in {"none", "valid", "invalid"} /\ oops \in BOOLEAN /\ work = [work EXCEPT ![t] = work[t]]
      /\ \A x : [tok EXCEPT ![k] = x][k] = x /\ [refs EXCEPT ![k] = x][k] = x
  BY <1>0 DEF KeysTyped
<1>2. TakesOf(work[t], listMutex, t, k) <=> listMutex # t
  BY <1>0 DEF TakesOf
<1>3. \A s : s # k => ~TakesOf(work[t], listMutex, t, s)
  BY <1>0 DEF TakesOf
<1>4. CASE lock_key(t, k)
  <2>1. PICK w : w = [work[t] EXCEPT !.phase = "hold"]
    OBVIOUS
  <2>2. /\ w \in Work /\ w # Idle /\ w.for = work[t].for /\ w.phase = "hold"
        /\ w.at \in DOMAIN w.list /\ k = w.list[w.at]
    BY <1>0, <2>1, PhaseTyped DEF Phases
  <2>3. /\ work' = [work EXCEPT ![t] = w] /\ tok' = tok /\ oops' = oops /\ sem' = [sem EXCEPT ![k] = t]
        /\ refs' = [refs EXCEPT ![k] = IF listMutex = t THEN refs[k] + 1 ELSE refs[k]]
        /\ listMutex' = IF listMutex = t THEN None ELSE listMutex
    BY <1>4, <2>1 DEF lock_key
  <2>4. refs'[k] = (IF listMutex = t THEN refs[k] + 1 ELSE refs[k]) /\ refs' = [refs EXCEPT ![k] = refs'[k]]
    BY <1>1, <2>3
  <2>5. TakesOf(w, listMutex', t, k) /\ \A s : s # k => ~TakesOf(w, listMutex', t, s)
    BY <2>2 DEF TakesOf
  <2>6. Balanced(refs[k], refs'[k], tok[k] = "valid", tok'[k] = "valid",
                 TakesOf(work[t], listMutex, t, k), TakesOf(w, listMutex', t, k))
    BY <1>2, <2>3, <2>4, <2>5 DEF Balanced
  <2>7. w.for = "mount" => MountList(w, tok')
    BY <1>0, <2>1, <2>2, <2>3, MountListKept DEF KeysTyped
  <2>8. listMutex' # t /\ (listMutex' = listMutex \/ (listMutex = t /\ listMutex' = None))
    BY <1>0, <2>3
  <2>9. WorksOn(t, w)
    BY <1>0, <1>1, <1>3, <2>2, <2>3, <2>4, <2>5, <2>6, <2>7, <2>8, WorksOnFrom
  <2>. QED  BY <2>9
<1>5. CASE lock_garbled(t, k)
  <2>1. PICK w : w = NotFound(work[t])
    OBVIOUS
  <2>2. Follows(work[t], w) /\ (work[t].for = "mount" => w.phase = "done")
    BY <1>0, <2>1, WorkFollows
  <2>3. /\ w \in Work /\ w # Idle /\ w.for = work[t].for
        /\ w.phase \in {"find", "lock", "hold", "ask"} => w.at \in DOMAIN w.list
        /\ w.phase \notin {"lock", "hold"} /\ \A h, s : ~TakesOf(w, h, t, s)
        /\ w.for = "mount" => MountList(w, tok')
    BY <1>0, <2>2, FollowsFacts DEF MountList
  <2>4. /\ work' = [work EXCEPT ![t] = w] /\ oops' = oops /\ sem' = sem
        /\ tok' = [tok EXCEPT ![k] = IF listMutex = t \/ work[t].for = "mount" THEN "invalid" ELSE tok[k]]
        /\ refs' = [refs EXCEPT ![k] = refs[k] - 1]
        /\ listMutex' = IF listMutex = t THEN None ELSE listMutex
    BY <1>5, <2>1 DEF lock_garbled
  <2>5. /\ tok'[k] = IF listMutex = t \/ work[t].for = "mount" THEN "invalid" ELSE tok[k]
        /\ refs'[k] = refs[k] - 1 /\ refs' = [refs EXCEPT ![k] = refs'[k]] /\ tok' = [tok EXCEPT ![k] = tok'[k]]
        /\ tok'[k] \in {"none", "valid", "invalid"}
    BY <1>1, <2>4
  <2>6. Balanced(refs[k], refs'[k], tok[k] = "valid", tok'[k] = "valid",
                 TakesOf(work[t], listMutex, t, k), TakesOf(w, listMutex', t, k))
    <3>1. CASE listMutex = t
      BY <1>0, <1>2, <2>3, <2>5, <3>1 DEF Balanced
    <3>2. CASE listMutex # t
      BY <1>0, <1>2, <2>3, <2>5, <3>2 DEF Balanced
    <3>. QED  BY <3>1, <3>2
  <2>8. listMutex' # t /\ (listMutex' = listMutex \/ (listMutex = t /\ listMutex' = None))
    BY <1>0, <2>4
  <2>9. /\ \/ sem' = sem /\ \A s \in Sigs : sem[s] = None
           \/ (\A s \in Sigs \ {k} : sem[s] = None) /\ sem' = [sem EXCEPT ![k] = None]
        /\ \A s \in Sigs \ {k} : ~TakesOf(work[t], listMutex, t, s) /\ ~TakesOf(w, listMutex', t, s)
    BY <1>0, <1>3, <2>3, <2>4
  <2>10. /\ work' = [work EXCEPT ![t] = w] /\ w \in Work /\ w # Idle /\ w.for = work[t].for
         /\ w.phase \in {"find", "lock", "hold", "ask"} => w.at \in DOMAIN w.list
         /\ listMutex' = listMutex \/ (listMutex = None /\ listMutex' = t) \/ (listMutex = t /\ listMutex' = None)
         /\ listMutex' # t /\ (w.for = "mount" => MountList(w, tok')) /\ key' = key /\ oops' \in BOOLEAN
    BY <1>0, <1>1, <2>3, <2>4, <2>8
  <2>11. WorksOn(t, w)
    BY <2>5, <2>6, <2>9, <2>10, WorksOnFrom
  <2>. QED  BY <2>11
<1>6. CASE lock_revoked(t, k)
  <2>1. UNCHANGED <<key, refs, sem, tok, listMutex, work>> /\ oops' \in BOOLEAN
    BY <1>6 DEF lock_revoked
  <2>2. work' = [work EXCEPT ![t] = work[t]] /\ tok' = [tok EXCEPT ![k] = tok'[k]] /\ refs' = [refs EXCEPT ![k] = refs'[k]]
        /\ tok'[k] \in {"none", "valid", "invalid"}
    BY <1>1, <2>1
  <2>3. Balanced(refs[k], refs'[k], tok[k] = "valid", tok'[k] = "valid",
                 TakesOf(work[t], listMutex, t, k), TakesOf(work[t], listMutex', t, k))
    BY <2>1 DEF Balanced
  <2>4. \A s : s # k => ~TakesOf(work[t], listMutex', t, s)
    BY <1>3, <2>1
  <2>5. /\ listMutex' = t => work[t].phase = "lock" /\ work[t].for # "mount" /\ tok'[work[t].list[work[t].at]] = "valid"
        /\ work[t].for = "mount" => MountList(work[t], tok')
    BY <1>0, <2>1
  <2>6. WorksOn(t, work[t])
    BY <1>0, <1>1, <1>3, <2>1, <2>2, <2>3, <2>4, <2>5, WorksOnFrom
  <2>. QED  BY <2>6
<1>. QED  BY <1>4, <1>5, <1>6 DEF Lock

(* The same, with the premises as one predicate.                           *)
StepsTo(t, w, k) ==
  /\ work' = [work EXCEPT ![t] = w] /\ w \in Work /\ w # Idle /\ w.for = work[t].for
  /\ w.phase \in {"find", "lock", "hold", "ask"} => w.at \in DOMAIN w.list
  /\ listMutex' = listMutex /\ listMutex # t
  /\ w.for = "mount" => MountList(w, tok')
  /\ key' = key /\ oops' \in BOOLEAN
  /\ \/ sem' = sem /\ \A s \in Sigs : sem[s] = None
     \/ (\A s \in Sigs \ {k} : sem[s] = None) /\ sem' = [sem EXCEPT ![k] = None]
  /\ tok' = [tok EXCEPT ![k] = tok'[k]] /\ tok'[k] \in {"none", "valid", "invalid"}
  /\ refs' = [refs EXCEPT ![k] = refs'[k]]
  /\ Balanced(refs[k], refs'[k], tok[k] = "valid", tok'[k] = "valid",
              TakesOf(work[t], listMutex, t, k), TakesOf(w, listMutex', t, k))
  /\ \A s \in Sigs \ {k} : ~TakesOf(work[t], listMutex, t, s) /\ ~TakesOf(w, listMutex', t, s)

LEMMA StepsToWorksOn ==
    ASSUME KeysHeld, NEW t \in Tasks, NEW w, NEW k \in Sigs, StepsTo(t, w, k)
    PROVE  WorksOn(t, w)
<1>. USE NoTask
<1>1. KeysTyped
  BY DEF KeysHeld
<1>2. \A s \in Sigs : Balanced(refs[s], refs'[s], tok[s] = "valid", tok'[s] = "valid",
                              TakesOf(work[t], listMutex, t, s), TakesOf(w, listMutex', t, s))
  <2>1. ASSUME NEW s \in Sigs, s # k
        PROVE  Balanced(refs[s], refs'[s], tok[s] = "valid", tok'[s] = "valid",
                        TakesOf(work[t], listMutex, t, s), TakesOf(w, listMutex', t, s))
    <3>1. refs'[s] = refs[s] /\ tok'[s] = tok[s]
      BY <1>1, <2>1 DEF KeysTyped, StepsTo
    <3>. QED  BY <2>1, <3>1 DEF Balanced, StepsTo
  <2>. QED  BY <2>1 DEF StepsTo
<1>3. \A s \in Sigs : sem'[s] = None
  BY <1>1 DEF KeysTyped, StepsTo
<1>4. sem' \in [Sigs -> Tasks \cup {None}] /\ tok' \in [Sigs -> {"none", "valid", "invalid"}]
      /\ key' \in [Sigs -> {"ok", "garbled", "expired", "revoked"}]
  BY <1>1 DEF KeysTyped, StepsTo
<1>5. DOMAIN refs' = Sigs /\ refs' = [s \in Sigs |-> refs'[s]]
  BY <1>1 DEF KeysTyped, StepsTo
<1>. QED  BY <1>2, <1>3, <1>4, <1>5 DEF WorksOn, StepsTo

LEMMA UseWorks ==
    ASSUME Control, KeysHeld, NEW t \in Tasks, NEW k \in Sigs, Use(t, k)
    PROVE  \E w : WorksOn(t, w)
<1>. USE DEF Goes
<1>0. PICK phase \in {"hold", "ask"} : Is(t, phase, k)
  BY DEF Use, init_global_auth_tok, use_password, use_private_key, answered, not_answered
<1>1. /\ work[t] \in Work /\ work[t] # Idle /\ work[t].at \in DOMAIN work[t].list /\ k = work[t].list[work[t].at]
      /\ work[t].phase = phase /\ ~oops /\ KeysTyped
      /\ \A s \in Sigs : sem[s] # None => s = k /\ phase = "hold"
      /\ listMutex # t /\ t # None
      /\ work[t].for = "mount" => MountList(work[t], tok) /\ tok[k] = "none"
  BY <1>0, AtKey DEF KeysHeld
<1>2. /\ tok = [tok EXCEPT ![k] = tok[k]] /\ refs = [refs EXCEPT ![k] = refs[k]]
      /\ tok[k] \in {"none", "valid", "invalid"} /\ oops \in BOOLEAN
      /\ \A x : [tok EXCEPT ![k] = x][k] = x /\ [refs EXCEPT ![k] = x][k] = x
  BY <1>1 DEF KeysTyped
<1>3. (TakesOf(work[t], listMutex, t, k) <=> phase = "hold") /\ \A s : s # k => ~TakesOf(work[t], listMutex, t, s)
  BY <1>1 DEF TakesOf
<1>4. UNCHANGED <<key, listMutex, oops>>
  BY DEF Use, init_global_auth_tok, use_password, use_private_key, answered, not_answered
<1>5. CASE init_global_auth_tok(t, k)
  <2>1. PICK w : w = Onward(work[t])
    OBVIOUS
  <2>2. Follows(work[t], w) /\ phase = "hold" /\ work[t].for = "mount"
    BY <1>1, <1>5, <2>1, WorkFollows DEF init_global_auth_tok, Is
  <2>3. /\ w \in Work /\ w # Idle /\ w.for = work[t].for
        /\ w.phase \in {"find", "lock", "hold", "ask"} => w.at \in DOMAIN w.list
        /\ \A h, s : ~TakesOf(w, h, t, s)
    BY <1>1, <2>2, FollowsFacts
  <2>4. /\ work' = [work EXCEPT ![t] = w] /\ sem' = [sem EXCEPT ![k] = None]
        /\ tok' = [tok EXCEPT ![k] = "valid"] /\ refs' = refs
    BY <1>5, <2>1 DEF init_global_auth_tok
  <2>5. /\ tok'[k] = "valid" /\ tok'[k] \in {"none", "valid", "invalid"} /\ tok' = [tok EXCEPT ![k] = tok'[k]] /\ refs' = [refs EXCEPT ![k] = refs'[k]]
    BY <1>2, <2>4
  <2>6. Balanced(refs[k], refs'[k], tok[k] = "valid", tok'[k] = "valid",
                 TakesOf(work[t], listMutex, t, k), TakesOf(w, listMutex', t, k))
    BY <1>1, <1>3, <2>2, <2>3, <2>4, <2>5 DEF Balanced
  <2>7. MountList(w, tok')
    BY <1>1, <2>1, <2>2, <2>4, MountListKept DEF KeysTyped
  <2>8. /\ \/ sem' = sem /\ \A s \in Sigs : sem[s] = None
           \/ (\A s \in Sigs \ {k} : sem[s] = None) /\ sem' = [sem EXCEPT ![k] = None]
        /\ \A s \in Sigs \ {k} : ~TakesOf(work[t], listMutex, t, s) /\ ~TakesOf(w, listMutex', t, s)
    BY <1>1, <1>3, <2>3, <2>4
  <2>9. /\ work' = [work EXCEPT ![t] = w] /\ w \in Work /\ w # Idle /\ w.for = work[t].for
        /\ w.phase \in {"find", "lock", "hold", "ask"} => w.at \in DOMAIN w.list
        /\ listMutex' = listMutex \/ (listMutex = None /\ listMutex' = t) \/ (listMutex = t /\ listMutex' = None)
        /\ listMutex' # t /\ (w.for = "mount" => MountList(w, tok')) /\ key' = key /\ oops' \in BOOLEAN
    BY <1>1, <1>2, <1>4, <2>3, <2>4, <2>7
  <2>10. WorksOn(t, w)
    <3>1. /\ work' = [work EXCEPT ![t] = w] /\ w \in Work /\ w # Idle /\ w.for = work[t].for
          /\ w.phase \in {"find", "lock", "hold", "ask"} => w.at \in DOMAIN w.list
      BY <2>9
    <3>2. /\ listMutex' = listMutex /\ listMutex # t
          /\ w.for = "mount" => MountList(w, tok')
          /\ key' = key /\ oops' \in BOOLEAN
      BY <1>1, <1>4, <2>9
    <3>3. tok' = [tok EXCEPT ![k] = tok'[k]] /\ tok'[k] \in {"none", "valid", "invalid"}
          /\ refs' = [refs EXCEPT ![k] = refs'[k]]
      BY <2>5
    <3>4. StepsTo(t, w, k)
      BY <3>1, <3>2, <3>3, <2>6, <2>8 DEF StepsTo
    <3>. QED  BY <3>4, StepsToWorksOn
  <2>. QED  BY <2>10
<1>6. CASE use_password(t, k) \/ use_private_key(t, k)
  <2>1. PICK w : /\ w \in {Succeeded(work[t]), Failed(work[t]), [work[t] EXCEPT !.phase = "ask"]}
                 /\ work' = [work EXCEPT ![t] = w]
    BY <1>6 DEF use_password, use_private_key
  <2>2. phase = "hold" /\ work[t].for # "mount"
    BY <1>1, <1>6 DEF use_password, use_private_key, Is
  <2>3. /\ w \in Work /\ w # Idle /\ w.for = work[t].for
        /\ w.phase \in {"find", "lock", "hold", "ask"} => w.at \in DOMAIN w.list
        /\ \A h, s : ~TakesOf(w, h, t, s)
    <3>1. CASE w \in {Succeeded(work[t]), Failed(work[t])}
      BY <1>1, <3>1, WorkFollows, FollowsFacts
    <3>2. CASE w = [work[t] EXCEPT !.phase = "ask"]
      BY <1>1, <3>2, PhaseTyped DEF Phases, TakesOf
    <3>. QED  BY <2>1, <3>1, <3>2
  <2>4. sem' = [sem EXCEPT ![k] = None] /\ refs' = [refs EXCEPT ![k] = refs[k] - 1] /\ tok' = tok
    BY <1>6 DEF use_password, use_private_key, Unlock
  <2>5. /\ tok'[k] = tok[k] /\ tok'[k] \in {"none", "valid", "invalid"} /\ tok' = [tok EXCEPT ![k] = tok'[k]]
        /\ refs'[k] = refs[k] - 1 /\ refs' = [refs EXCEPT ![k] = refs'[k]]
    BY <1>2, <2>4
  <2>6. Balanced(refs[k], refs'[k], tok[k] = "valid", tok'[k] = "valid",
                 TakesOf(work[t], listMutex, t, k), TakesOf(w, listMutex', t, k))
    BY <1>3, <2>2, <2>3, <2>5 DEF Balanced
  <2>7. /\ \/ sem' = sem /\ \A s \in Sigs : sem[s] = None
           \/ (\A s \in Sigs \ {k} : sem[s] = None) /\ sem' = [sem EXCEPT ![k] = None]
        /\ \A s \in Sigs \ {k} : ~TakesOf(work[t], listMutex, t, s) /\ ~TakesOf(w, listMutex', t, s)
    BY <1>1, <1>3, <2>3, <2>4
  <2>8. /\ work' = [work EXCEPT ![t] = w] /\ w \in Work /\ w # Idle /\ w.for = work[t].for
        /\ w.phase \in {"find", "lock", "hold", "ask"} => w.at \in DOMAIN w.list
        /\ listMutex' = listMutex \/ (listMutex = None /\ listMutex' = t) \/ (listMutex = t /\ listMutex' = None)
        /\ listMutex' # t /\ (w.for = "mount" => MountList(w, tok')) /\ key' = key /\ oops' \in BOOLEAN
    BY <1>1, <1>2, <1>4, <2>1, <2>2, <2>3
  <2>9. WorksOn(t, w)
    <3>1. /\ work' = [work EXCEPT ![t] = w] /\ w \in Work /\ w # Idle /\ w.for = work[t].for
          /\ w.phase \in {"find", "lock", "hold", "ask"} => w.at \in DOMAIN w.list
      BY <2>8
    <3>2. /\ listMutex' = listMutex /\ listMutex # t
          /\ w.for = "mount" => MountList(w, tok')
          /\ key' = key /\ oops' \in BOOLEAN
      BY <1>1, <1>4, <2>8
    <3>3. tok' = [tok EXCEPT ![k] = tok'[k]] /\ tok'[k] \in {"none", "valid", "invalid"}
          /\ refs' = [refs EXCEPT ![k] = refs'[k]]
      BY <2>5
    <3>4. StepsTo(t, w, k)
      BY <3>1, <3>2, <3>3, <2>6, <2>7 DEF StepsTo
    <3>. QED  BY <3>4, StepsToWorksOn
  <2>. QED  BY <2>9
<1>7. CASE answered(t, k) \/ not_answered(t, k)
  <2>1. PICK w : w \in {Succeeded(work[t]), Failed(work[t])} /\ work' = [work EXCEPT ![t] = w]
    BY <1>7 DEF answered, not_answered
  <2>2. phase = "ask" /\ work[t].for # "mount"
    <3>1. phase = "ask"
      BY <1>1, <1>7 DEF answered, not_answered, Is
    <3>. QED  BY <1>1, <3>1 DEF MountList
  <2>3. /\ w \in Work /\ w # Idle /\ w.for = work[t].for
        /\ w.phase \in {"find", "lock", "hold", "ask"} => w.at \in DOMAIN w.list
        /\ \A h, s : ~TakesOf(w, h, t, s)
    BY <1>1, <2>1, WorkFollows, FollowsFacts
  <2>4. sem' = sem /\ refs' = refs /\ tok' = tok /\ \A s \in Sigs : sem[s] = None
    BY <1>1, <1>7, <2>2 DEF answered, not_answered
  <2>5. tok' = [tok EXCEPT ![k] = tok'[k]] /\ tok'[k] \in {"none", "valid", "invalid"} /\ refs' = [refs EXCEPT ![k] = refs'[k]]
    BY <1>2, <2>4
  <2>6. Balanced(refs[k], refs'[k], tok[k] = "valid", tok'[k] = "valid",
                 TakesOf(work[t], listMutex, t, k), TakesOf(w, listMutex', t, k))
    BY <1>3, <2>2, <2>3, <2>4 DEF Balanced
  <2>7. /\ \/ sem' = sem /\ \A s \in Sigs : sem[s] = None
           \/ (\A s \in Sigs \ {k} : sem[s] = None) /\ sem' = [sem EXCEPT ![k] = None]
        /\ \A s \in Sigs \ {k} : ~TakesOf(work[t], listMutex, t, s) /\ ~TakesOf(w, listMutex', t, s)
    BY <1>1, <1>3, <2>3, <2>4
  <2>8. /\ work' = [work EXCEPT ![t] = w] /\ w \in Work /\ w # Idle /\ w.for = work[t].for
        /\ w.phase \in {"find", "lock", "hold", "ask"} => w.at \in DOMAIN w.list
        /\ listMutex' = listMutex \/ (listMutex = None /\ listMutex' = t) \/ (listMutex = t /\ listMutex' = None)
        /\ listMutex' # t /\ (w.for = "mount" => MountList(w, tok')) /\ key' = key /\ oops' \in BOOLEAN
    BY <1>1, <1>2, <1>4, <2>1, <2>2, <2>3
  <2>9. WorksOn(t, w)
    <3>1. /\ work' = [work EXCEPT ![t] = w] /\ w \in Work /\ w # Idle /\ w.for = work[t].for
          /\ w.phase \in {"find", "lock", "hold", "ask"} => w.at \in DOMAIN w.list
      BY <2>8
    <3>2. /\ listMutex' = listMutex /\ listMutex # t
          /\ w.for = "mount" => MountList(w, tok')
          /\ key' = key /\ oops' \in BOOLEAN
      BY <1>1, <1>4, <2>8
    <3>3. tok' = [tok EXCEPT ![k] = tok'[k]] /\ tok'[k] \in {"none", "valid", "invalid"}
          /\ refs' = [refs EXCEPT ![k] = refs'[k]]
      BY <2>5
    <3>4. StepsTo(t, w, k)
      BY <3>1, <3>2, <3>3, <2>6, <2>7 DEF StepsTo
    <3>. QED  BY <3>4, StepsToWorksOn
  <2>. QED  BY <2>9
<1>. QED  BY <1>5, <1>6, <1>7 DEF Use

LEMMA KeysStep ==
    ASSUME Control, KeysHeld, NEW t \in Tasks, keys(t)
    PROVE  KeysHeld'
<1>1. PICK k \in Sigs : Find(t, k) \/ Lock(t, k) \/ Use(t, k)
  BY DEF keys, KeyStep
<1>2. PICK w : WorksOn(t, w)
  BY <1>1, FindWorks, LockWorks, UseWorks
<1>3. work[t].phase \in {"find", "lock", "hold", "ask"}
  BY <1>1 DEF Find, Lock, Use, Is, find_refused, find_revoked, find_valid, find_not_listed, keyring_auth_tok_for_sig,
       lock_key, lock_garbled, lock_revoked, init_global_auth_tok, use_password, use_private_key, answered, not_answered
<1>4. work[t] # Idle
  BY <1>3, IdleTyped
<1>5. UNCHANGED <<pc, mounted>>
  BY DEF keys, taskVars
<1>. QED  BY <1>2, <1>4, <1>5, WorksOnKeeps

(* A task that has no list at work, or only begins or ends one, takes      *)
(* nothing.                                                                *)
Quiet(w) == w.phase \in {"idle", "find", "done"}

LEMMA Settled ==
    ASSUME KeysHeld, \A u \in Tasks : Quiet(work[u]), \A u \in Tasks : Quiet(work'[u]), work' \in [Tasks -> Work],
           UNCHANGED <<key, sem, listMutex, oops>>, UNCHANGED <<refs, tok>> \/ destroy_mount_crypt_stat,
           Unmounted', \A u \in Tasks : WorkOf(u)'
    PROVE  KeysHeld'
<1>1. KeysTyped /\ Locked /\ RefsTaken
  BY DEF KeysHeld
<1>2. \A k \in Sigs : Takers(k) = {} /\ Takers(k)' = {}
  BY DEF Takers, Takes, Quiet
<1>3. \A k \in Sigs : sem[k] = None
  BY <1>1, NoTask DEF KeysTyped, Locked, Quiet
<1>4. \A k \in Sigs : refs[k] \in Int /\ refs[k] = 1 + (IF tok[k] = "valid" THEN 1 ELSE 0)
  <2>1. \A k \in Sigs : Cardinality(Takers(k)) = 0
    BY <1>2, FS_EmptySet
  <2>2. \A k \in Sigs : refs[k] \in Int /\ refs[k] = 1 + (IF tok[k] = "valid" THEN 1 ELSE 0) + 0
    BY <1>1, <2>1 DEF RefsTaken, KeysTyped
  <2>. QED  BY <2>2
<1>5. KeysTyped' /\ \A k \in Sigs : refs'[k] = 1 + (IF tok'[k] = "valid" THEN 1 ELSE 0)
  <2>1. CASE UNCHANGED <<refs, tok>>
    BY <1>1, <1>4, <2>1 DEF KeysTyped
  <2>2. CASE destroy_mount_crypt_stat
    <3>1. \A k \in Sigs : refs'[k] = (IF tok[k] = "valid" THEN refs[k] - 1 ELSE refs[k]) /\ tok'[k] = "none"
      BY <2>2 DEF destroy_mount_crypt_stat
    <3>2. \A k \in Sigs : refs'[k] = 1
      BY <1>4, <3>1
    <3>3. refs' \in [Sigs -> Int] /\ tok' \in [Sigs -> {"none", "valid", "invalid"}]
      BY <2>2, <3>2 DEF destroy_mount_crypt_stat
    <3>. QED  BY <1>1, <3>1, <3>2, <3>3 DEF KeysTyped
  <2>. QED  BY <2>1, <2>2
<1>6. RefsTaken'
  BY <1>2, <1>5, FS_EmptySet DEF RefsTaken
<1>7. Locked'
  BY <1>3 DEF Locked
<1>. QED  BY <1>5, <1>6, <1>7 DEF KeysHeld

(* A step of one task that takes up a list or leaves it.                   *)
LEMMA Rework ==
    ASSUME KeysHeld, NEW t \in Tasks, NEW p, NEW w \in Work,
           work' = [work EXCEPT ![t] = w], pc \in [Tasks -> Places], pc' = [pc EXCEPT ![t] = p],
           Quiet(work[t]), Quiet(w), \A u \in Tasks \ {t} : work[u] = Idle,
           UNCHANGED <<key, sem, listMutex, oops>>, UNCHANGED <<refs, tok>> \/ destroy_mount_crypt_stat,
           w # Idle => p \in Works,
           w.phase = "find" => w.at \in DOMAIN w.list,
           w.for = "mount" <=> p = "mount",
           p = "mount" => MountList(w, tok'),
           Unmounted'
    PROVE  KeysHeld'
<1>1. KeysTyped /\ \A u \in Tasks : WorkOf(u)
  BY DEF KeysHeld
<1>2. work' \in [Tasks -> Work] /\ work'[t] = w /\ \A u \in Tasks \ {t} : work'[u] = Idle
  BY <1>1 DEF KeysTyped
<1>3. \A u \in Tasks : Quiet(work[u]) /\ Quiet(work'[u])
  BY <1>2, IdleTyped DEF Quiet
<1>4. \A u \in Tasks : listMutex # u
  BY <1>1, <1>3 DEF WorkOf, Quiet
<1>5. WorkOf(t)'
  <2>1. pc'[t] = p
    OBVIOUS
  <2>. QED  BY <1>2, <1>4, <2>1 DEF WorkOf, MountList, Quiet
<1>6. ASSUME NEW u \in Tasks \ {t} PROVE WorkOf(u)'
  <2>1. work[u] = Idle /\ work'[u] = Idle /\ pc'[u] = pc[u] /\ pc[u] # "mount"
    BY <1>1, <1>2, IdleTyped DEF WorkOf
  <2>. QED  BY <1>4, <2>1, IdleTyped DEF WorkOf
<1>. QED  BY <1>2, <1>3, <1>5, <1>6, Settled

(* A step of a task outside its lists.                                     *)
LEMMA KeysSame ==
    ASSUME Control, KeysHeld, NEW t \in Tasks, NEW p, p # "mount", pc[t] \notin Works, pc' = [pc EXCEPT ![t] = p],
           UNCHANGED <<key, refs, sem, tok, listMutex, work, oops>>, mounted' = "yes"
    PROVE  KeysHeld'
<1>1. KeysTyped /\ \A u \in Tasks : WorkOf(u)
  BY DEF KeysHeld
<1>2. work[t] = Idle
  BY <1>1 DEF WorkOf
<1>3. pc'[t] = p /\ \A u \in Tasks \ {t} : pc'[u] = pc[u]
  BY DEF Control, FileTyped
<1>4. WorkOf(t)'
  <2>1. listMutex # t
    BY <1>1, <1>2, IdleTyped DEF WorkOf
  <2>. QED  BY <1>2, <1>3, <2>1, IdleTyped DEF WorkOf
<1>5. ASSUME NEW u \in Tasks \ {t} PROVE WorkOf(u)'
  <2>1. WorkOf(u) /\ pc'[u] = pc[u] /\ work'[u] = work[u] /\ (Current(u)' = Current(u))
    BY <1>1, <1>3 DEF Current
  <2>. QED  BY <2>1 DEF WorkOf
<1>6. \A k \in Sigs : Takers(k)' = Takers(k)
  BY DEF Takers, Takes, Current
<1>. QED  BY <1>4, <1>5, <1>6 DEF KeysHeld, KeysTyped, Locked, Unmounted, RefsTaken, Current

LEMMA UnmovedKeys ==
    ASSUME KeysHeld, UNCHANGED <<refs, sem, tok, listMutex, work, oops, pc, mounted>>,
           key' \in [Sigs -> {"ok", "garbled", "expired", "revoked"}]
    PROVE  KeysHeld'
<1>1. \A k \in Sigs : Takers(k)' = Takers(k)
  BY DEF Takers, Takes, Current
<1>2. \A u \in Tasks : WorkOf(u)'
  BY DEF KeysHeld, WorkOf, Current
<1>. QED  BY <1>1, <1>2 DEF KeysHeld, KeysTyped, Locked, Unmounted, RefsTaken, Current

LEMMA BeginTyped ==
    ASSUME NEW f \in {"mount", "read", "write"}, NEW list \in Seq(Sigs)
    PROVE  /\ Begin(f, list) \in Work /\ Begin(f, list) # Idle /\ Begin(f, list).for = f /\ Quiet(Begin(f, list))
           /\ Begin(f, list).phase = "find" => Begin(f, list).at \in DOMAIN Begin(f, list).list
           /\ list # << >> => Begin(f, list).phase = "find" /\ Begin(f, list).list = list /\ Begin(f, list).at = 1
           /\ list # << >> => 1 \in DOMAIN list
<1>1. PICK w : w = [Idle EXCEPT !.phase = "find", !.for = f, !.list = list, !.at = 1]
  OBVIOUS
<1>2. w = [phase |-> "find", for |-> f, list |-> list, at |-> 1, ok |-> FALSE]
  BY <1>1 DEF Idle
<1>3. w \in Work /\ w.phase = "find" /\ w.for = f /\ w.list = list /\ w.at = 1 /\ w # Idle
  BY <1>2, IdleTyped DEF Work, Phases
<1>4. CASE list = << >>
  <2>1. Begin(f, list) = Finished(w, f # "read")
    BY <1>1, <1>4 DEF Begin
  <2>2. Finished(w, f # "read") \in Work /\ Finished(w, f # "read").for = w.for
        /\ Finished(w, f # "read").phase = "done" /\ Finished(w, f # "read") # Idle
    BY <1>3, FinishedTyped
  <2>. QED  BY <1>3, <1>4, <2>1, <2>2 DEF Quiet
<1>5. CASE list # << >>
  <2>1. Begin(f, list) = w
    BY <1>1, <1>5 DEF Begin
  <2>2. 1 \in DOMAIN list
    <3>1. Len(list) \in Nat /\ Len(list) # 0 /\ DOMAIN list = 1..Len(list)
      BY <1>5, EmptySeq, LenProperties
    <3>. QED  BY <3>1
  <2>. QED  BY <1>3, <2>1, <2>2 DEF Quiet
<1>. QED  BY <1>4, <1>5

LEMMA ReverseFacts ==
    ASSUME NEW list \in Seq(Sigs)
    PROVE  /\ Reverse(list) \in Seq(Sigs) /\ (list # << >> => Reverse(list) # << >>)
           /\ (\A i, j \in DOMAIN list : list[i] = list[j] => i = j)
                => \A i, j \in DOMAIN Reverse(list) : Reverse(list)[i] = Reverse(list)[j] => i = j
<1>1. PICK n : n = Len(list)
  OBVIOUS
<1>2. n \in Nat /\ DOMAIN list = 1..n /\ \A i \in 1..n : list[i] \in Sigs
  BY <1>1, LenProperties, ElementOfSeq
<1>3. Reverse(list) = [i \in 1..n |-> list[(n - i) + 1]]
  BY <1>1 DEF Reverse
<1>4. \A i \in 1..n : (n - i) + 1 \in 1..n
  BY <1>2
<1>5. Reverse(list) \in [1..n -> Sigs]
  BY <1>2, <1>3, <1>4
<1>6. Reverse(list) \in Seq(Sigs) /\ Len(Reverse(list)) = n /\ DOMAIN Reverse(list) = 1..n
  <2>1. Reverse(list) \in Seq(Sigs)
    BY <1>2, <1>5, SeqDef
  <2>2. DOMAIN Reverse(list) = 1..n
    BY <1>5
  <2>. QED  BY <1>2, <2>1, <2>2, LenProperties
<1>7. list # << >> => Reverse(list) # << >>
  BY <1>1, <1>6, EmptySeq
<1>8. ASSUME \A i, j \in DOMAIN list : list[i] = list[j] => i = j, NEW i \in 1..n, NEW j \in 1..n,
             Reverse(list)[i] = Reverse(list)[j]
      PROVE  i = j
  <2>1. list[(n - i) + 1] = list[(n - j) + 1]
    BY <1>3, <1>8
  <2>2. (n - i) + 1 = (n - j) + 1
    BY <1>2, <1>4, <1>8, <2>1
  <2>. QED  BY <1>2, <2>2
<1>. QED  BY <1>6, <1>7, <1>8

LEMMA MountingKeys ==
    ASSUME Control, KeysHeld, NEW t \in Tasks, Mounting(t)
    PROVE  KeysHeld'
<1>. USE DEF At, To, Goes
<1>0. FileTyped /\ pc \in [Tasks -> Places] /\ \A u \in Tasks : WorkOf(u) /\ PlaceOf(u)
  BY DEF Control, FileTyped, KeysHeld
<1>1. CASE mount(t)
  <2>1. \A u \in Tasks : pc[u] = "idle" /\ work[u] = Idle
    BY <1>0, <1>1 DEF mount, WorkOf, Works
  <2>2. \A k \in Sigs : tok[k] = "none"
    BY <1>1, <2>1 DEF mount, KeysHeld, Unmounted
  <2>3. /\ mnt.sigs \in Seq(Sigs) /\ mnt.sigs # << >>
        /\ \A i, j \in DOMAIN mnt.sigs : mnt.sigs[i] = mnt.sigs[j] => i = j
    BY <1>0, OpenAssumption DEF FileTyped
  <2>4. PICK list, w : list = Reverse(mnt.sigs) /\ w = Begin("mount", list)
    OBVIOUS
  <2>5. list \in Seq(Sigs) /\ list # << >> /\ \A i, j \in DOMAIN list : list[i] = list[j] => i = j
    BY <2>3, <2>4, ReverseFacts
  <2>6. /\ w \in Work /\ w # Idle /\ w.for = "mount" /\ Quiet(w) /\ w.phase = "find" /\ w.at \in DOMAIN w.list
        /\ w.list = list
    BY <2>4, <2>5, BeginTyped
  <2>7. /\ work' = [work EXCEPT ![t] = w] /\ pc' = [pc EXCEPT ![t] = "mount"]
        /\ UNCHANGED <<key, refs, sem, tok, listMutex, oops, mounted>>
    BY <1>1, <2>4 DEF mount
  <2>8. MountList(w, tok')
    <3>1. \A i \in DOMAIN list : list[i] \in Sigs
      BY <2>5, ElementOfSeq, LenProperties
    <3>. QED  BY <2>2, <2>5, <2>6, <2>7, <3>1 DEF MountList
  <2>9. Unmounted'
    BY <1>0, <2>7 DEF Unmounted
  <2>10. Quiet(work[t]) /\ \A u \in Tasks \ {t} : work[u] = Idle
    BY <2>1, IdleTyped DEF Quiet
  <2>. QED  BY <1>0, <2>6, <2>7, <2>8, <2>9, <2>10, Rework DEF Works
<1>2. CASE mount_end(t)
  <2>1. Quiet(work[t]) /\ \A u \in Tasks \ {t} : work[u] = Idle
    <3>1. pc[t] \in Works /\ work[t].phase = "done"
      BY <1>2 DEF mount_end, Works
    <3>. QED  BY <1>0, <3>1, OneWorks DEF Quiet
  <2>2. /\ work' = [work EXCEPT ![t] = Idle] /\ pc' = [pc EXCEPT ![t] = "idle"]
        /\ UNCHANGED <<key, sem, listMutex, oops>> /\ (UNCHANGED <<refs, tok>> \/ destroy_mount_crypt_stat)
        /\ mounted' # "no"
    BY <1>2 DEF mount_end
  <2>3. Unmounted'
    BY <2>2 DEF Unmounted
  <2>4. Idle \in Work /\ Quiet(Idle) /\ Idle.phase # "find" /\ Idle.for # "mount"
    BY IdleTyped DEF Quiet
  <2>. QED  BY <1>0, <2>1, <2>2, <2>3, <2>4, Rework
<1>. QED  BY <1>1, <1>2 DEF Mounting

LEMMA EvictingKeys ==
    ASSUME Control, KeysHeld, ecryptfs_evict_inode \/ kill_block_super
    PROVE  KeysHeld'
<1>1. CASE ecryptfs_evict_inode
  BY <1>1, UnmovedKeys DEF ecryptfs_evict_inode, keyVars, taskVars, KeysHeld, KeysTyped
<1>2. CASE kill_block_super
  <2>1. \A u \in Tasks : work[u] = Idle /\ pc[u] = "idle" /\ WorkOf(u) /\ listMutex # u
    BY <1>2, IdleTyped DEF kill_block_super, KeysHeld, WorkOf, Works
  <2>2. /\ UNCHANGED <<key, sem, listMutex, oops, work, pc>> /\ destroy_mount_crypt_stat /\ mounted' # "no"
    BY <1>2 DEF kill_block_super, taskVars
  <2>3. Unmounted' /\ \A u \in Tasks : Quiet(work[u]) /\ Quiet(work'[u]) /\ WorkOf(u)'
    BY <2>1, <2>2, IdleTyped DEF Unmounted, Quiet, WorkOf
  <2>4. work' \in [Tasks -> Work]
    BY <2>2 DEF KeysHeld, KeysTyped
  <2>. QED  BY <2>2, <2>3, <2>4, Settled
<1>. QED  BY <1>1, <1>2

LEMMA GetsAndPutsKeys ==
    ASSUME Control, KeysHeld, NEW t \in Tasks, GetsAndPuts(t)
    PROVE  KeysHeld'
<1>. USE DEF At, To
<1>1. pc[t] \in {"get", "kthread", "get2", "put"} /\ PlaceOf(t) /\ call[t] \in Calls
  BY DEF GetsAndPuts, get_lower_file, ecryptfs_threadfn, get_lower_file_fails, get_lower_file_again,
         ecryptfs_put_lower_file, Control, FileTyped
<1>2. pc[t] # "put" => AfterGet(t) # "mount"
  BY DEF AfterGet
<1>3. mounted = "yes" /\ pc[t] \notin Works
  BY <1>1 DEF PlaceOf, Busy, Works
<1>4. PICK p \in {AfterGet(t), "kthread", "idle"} :
         /\ pc' = [pc EXCEPT ![t] = p] /\ p # "mount" /\ UNCHANGED mounted
         /\ UNCHANGED <<key, refs, sem, tok, listMutex, work, oops>>
  BY <1>2 DEF GetsAndPuts, get_lower_file, ecryptfs_threadfn, get_lower_file_fails, get_lower_file_again,
         ecryptfs_put_lower_file, keyVars
<1>. QED  BY <1>3, <1>4, KeysSame

LEMMA CallingKeys ==
    ASSUME Control, KeysHeld, NEW t \in Tasks, Calling(t) \/ write(t) \/ release(t)
    PROVE  KeysHeld'
<1>. USE DEF At, To, Call
<1>1. PICK p \in {"context", "get", "attr", "size", "put"} :
         /\ pc' = [pc EXCEPT ![t] = p] /\ UNCHANGED mounted /\ pc[t] \in {"idle", "opened"}
         /\ pc[t] = "idle" => mounted = "yes"
         /\ UNCHANGED <<key, refs, sem, tok, listMutex, work, oops>>
  BY DEF Calling, create, lookup, open, setattr, write, release, keyVars
<1>2. PlaceOf(t)
  BY DEF Control
<1>3. mounted = "yes" /\ pc[t] \notin Works
  BY <1>1, <1>2 DEF PlaceOf, Busy, Works
<1>. QED  BY <1>1, <1>3, KeysSame

LEMMA SizeKeys ==
    ASSUME Control, KeysHeld, NEW t \in Tasks, Size(t) \/ Attributes(t)
    PROVE  KeysHeld'
<1>. USE DEF At, To, Sees
<1>0. PlaceOf(t)
  BY DEF Control
<1>1. CASE Size(t)
  <2>1. PICK p \in {"stat xattr", "stat set", "stat set xattr", "stat end", "idle", "size store", "opened"} :
           /\ pc' = [pc EXCEPT ![t] = p] /\ UNCHANGED mounted
           /\ pc[t] \in {"stat", "stat xattr", "stat set", "stat set xattr", "stat end", "size", "size store"}
           /\ UNCHANGED <<key, refs, sem, tok, listMutex, work, oops>>
    BY <1>1 DEF Size, read_and_validate_header_region, read_and_validate_xattr_region, i_size_init, lookup_end,
         write_inode_size_to_metadata, write_inode_size_store, keyVars
  <2>2. mounted = "yes" /\ pc[t] \notin Works
    BY <1>0, <2>1 DEF PlaceOf, Busy, Works
  <2>. QED  BY <2>1, <2>2, KeysSame
<1>2. CASE Attributes(t)
  <2>1. PICK p \in {"idle", "get", "contents"} :
           /\ pc' = [pc EXCEPT ![t] = p] /\ UNCHANGED mounted
           /\ pc[t] \in {"attr", "metadata", "attr read", "attr fails"}
           /\ UNCHANGED <<key, refs, sem, tok, listMutex, work, oops>>
    BY <1>2 DEF Attributes, setattr_lock, setattr_read_metadata, setattr_end, keyVars
  <2>2. mounted = "yes" /\ pc[t] \notin Works
    BY <1>0, <2>1 DEF PlaceOf, Busy, Works
  <2>. QED  BY <2>1, <2>2, KeysSame
<1>. QED  BY <1>1, <1>2

(* A task of a call that takes up a list, or leaves one.                   *)
LEMMA CallRework ==
    ASSUME Control, KeysHeld, NEW t \in Tasks, NEW p, NEW w \in Work, Busy(t), p # "mount",
           work' = [work EXCEPT ![t] = w], pc' = [pc EXCEPT ![t] = p],
           Quiet(work[t]), Quiet(w), pc[t] \in Works \/ csMutex = t,
           UNCHANGED <<key, refs, sem, tok, listMutex, oops, mounted>>,
           w # Idle => p \in Works,
           w.phase = "find" => w.at \in DOMAIN w.list,
           w.for # "mount"
    PROVE  KeysHeld'
<1>1. PlaceOf(t) /\ pc \in [Tasks -> Places]
  BY DEF Control, FileTyped
<1>2. \A u \in Tasks \ {t} : work[u] = Idle
  BY OneWorks DEF KeysHeld
<1>3. Unmounted'
  BY <1>1 DEF PlaceOf, Unmounted
<1>. QED  BY <1>1, <1>2, <1>3, Rework

LEMMA InitializeKeys ==
    ASSUME Control, KeysHeld, NEW t \in Tasks, Initialize(t)
    PROVE  KeysHeld'
<1>. USE DEF At, To, Goes
<1>0. PlaceOf(t) /\ inode \in Inode
  BY DEF Control, FileTyped
<1>1. CASE new_file_context(t) \/ new_file_context_fails(t)
  <2>1. PICK p \in {"get", "get2", "idle", "put"} :
           /\ pc' = [pc EXCEPT ![t] = p] /\ UNCHANGED mounted /\ pc[t] = "context"
           /\ UNCHANGED <<key, refs, sem, tok, listMutex, work, oops>>
    BY <1>1 DEF new_file_context, new_file_context_fails, GiveUp, keyVars
  <2>2. mounted = "yes" /\ pc[t] \notin Works
    BY <1>0, <2>1 DEF PlaceOf, Busy, Works
  <2>. QED  BY <2>1, <2>2, KeysSame
<1>2. CASE generate_key_packet_set(t)
  <2>1. inode.sigs \in Seq(Sigs)
    BY <1>0, InodeFields
  <2>2. PICK w : w = Begin("write", inode.sigs)
    OBVIOUS
  <2>3. w \in Work /\ w.for = "write" /\ Quiet(w) /\ (w.phase = "find" => w.at \in DOMAIN w.list)
    BY <2>1, <2>2, BeginTyped
  <2>4. /\ work' = [work EXCEPT ![t] = w] /\ pc[t] = "header" /\ Quiet(work[t]) /\ pc' = pc
        /\ UNCHANGED <<key, refs, sem, tok, listMutex, oops, mounted>>
    BY <1>2, <2>2 DEF generate_key_packet_set, taskVars, Quiet
  <2>5. pc' = [pc EXCEPT ![t] = "header"]
    BY <2>4 DEF Control, FileTyped
  <2>. QED  BY <2>3, <2>4, <2>5, CallRework DEF Works, Busy
<1>3. CASE write_metadata(t) \/ write_metadata_fails(t)
  <2>1. PICK p \in {"idle", "opened", "put"} : pc' = [pc EXCEPT ![t] = p]
    BY <1>3 DEF write_metadata, write_metadata_fails, GiveUp
  <2>2. /\ work' = [work EXCEPT ![t] = Idle] /\ pc[t] = "header" /\ work[t].phase = "done"
        /\ UNCHANGED <<key, refs, sem, tok, listMutex, oops, mounted>>
    BY <1>3 DEF write_metadata, write_metadata_fails
  <2>3. Busy(t) /\ pc[t] \in Works /\ Quiet(work[t]) /\ Quiet(Idle) /\ Idle \in Work /\ Idle.for # "mount" /\ Idle.phase # "find"
    BY <2>2, IdleTyped DEF Busy, Works, Quiet
  <2>. QED  BY <2>1, <2>2, <2>3, CallRework
<1>. QED  BY <1>1, <1>2, <1>3 DEF Initialize

LEMMA HeadersKeys ==
    ASSUME Control, KeysHeld, NEW t \in Tasks, NEW place \in {"contents", "xattr"}, NEW meta \in Meta, NEW b,
           NEW next \in {"parse contents", "parse xattr"}, NEW otherwise \in {"xattr", "no metadata"},
           read_headers(t, place, meta, b, next, otherwise)
    PROVE  KeysHeld'
<1>. USE DEF At, To, Goes
<1>1. PlaceOf(t) /\ pc[t] = place /\ Busy(t) /\ pc[t] \notin Works
  BY DEF Control, read_headers, Busy, Works
<1>2. csMutex = t /\ mounted = "yes"
  BY <1>1 DEF PlaceOf, Section
<1>3. UNCHANGED <<key, refs, sem, tok, listMutex, oops, mounted>>
  BY DEF read_headers
<1>4. CASE work' = [work EXCEPT ![t] = Begin("read", Reverse(meta.sigs))] /\ pc' = [pc EXCEPT ![t] = next]
  <2>1. meta.sigs \in Seq(Sigs)
    BY DEF Meta
  <2>2. PICK w : w = Begin("read", Reverse(meta.sigs))
    OBVIOUS
  <2>3. w \in Work /\ w.for = "read" /\ Quiet(w) /\ (w.phase = "find" => w.at \in DOMAIN w.list)
    BY <2>1, <2>2, ReverseFacts, BeginTyped
  <2>4. Quiet(work[t])
    BY <1>1, IdleTyped DEF KeysHeld, WorkOf, Quiet
  <2>. QED  BY <1>1, <1>2, <1>3, <1>4, <2>2, <2>3, <2>4, CallRework DEF Works
<1>5. CASE UNCHANGED work /\ pc' = [pc EXCEPT ![t] = otherwise]
  BY <1>1, <1>2, <1>3, <1>5, KeysSame
<1>. QED  BY <1>4, <1>5 DEF read_headers

LEMMA MetadataKeys ==
    ASSUME Control, KeysHeld, NEW t \in Tasks, Metadata(t)
    PROVE  KeysHeld'
<1>. USE DEF At, To, Goes
<1>0. PlaceOf(t) /\ lower \in LowerFile
  BY DEF Control, FileTyped
<1>1. CASE read_or_initialize_metadata(t) \/ open_refused(t) \/ no_metadata(t)
  <2>1. PICK p \in {"opened", "contents", "put", "attr fails", "attr read", "context"} :
           /\ pc' = [pc EXCEPT ![t] = p] /\ UNCHANGED mounted /\ pc[t] \in {"metadata", "no metadata"}
           /\ UNCHANGED <<key, refs, sem, tok, listMutex, work, oops>>
    BY <1>1 DEF read_or_initialize_metadata, open_refused, no_metadata, Opened, keyVars
  <2>2. mounted = "yes" /\ pc[t] \notin Works
    BY <1>0, <2>1 DEF PlaceOf, Busy, Works
  <2>. QED  BY <2>1, <2>2, KeysSame
<1>2. CASE read_contents(t) \/ read_xattr(t)
  BY <1>0, <1>2, LowerFields, HeadersKeys DEF read_contents, read_xattr
<1>3. CASE parse_contents(t) \/ parse_xattr(t)
  <2>1. PICK p \in {"opened", "attr read", "xattr", "no metadata"} : pc' = [pc EXCEPT ![t] = p]
    BY <1>3 DEF parse_contents, parse_xattr, Opened
  <2>2. /\ work' = [work EXCEPT ![t] = Idle] /\ pc[t] \in {"parse contents", "parse xattr"} /\ work[t].phase = "done"
        /\ UNCHANGED <<key, refs, sem, tok, listMutex, oops, mounted>>
    BY <1>3 DEF parse_contents, parse_xattr
  <2>3. Busy(t) /\ pc[t] \in Works /\ Quiet(work[t]) /\ Quiet(Idle) /\ Idle \in Work /\ Idle.for # "mount" /\ Idle.phase # "find"
    BY <2>2, IdleTyped DEF Busy, Works, Quiet
  <2>. QED  BY <2>1, <2>2, <2>3, CallRework
<1>. QED  BY <1>1, <1>2, <1>3 DEF Metadata

THEOREM KeysHeldStep == Control /\ KeysHeld /\ [Next]_vars => KeysHeld'
<1>. SUFFICES ASSUME Control, KeysHeld, [Next]_vars PROVE KeysHeld'
  OBVIOUS
<1>0. key \in [Sigs -> {"ok", "garbled", "expired", "revoked"}]
  BY DEF KeysHeld, KeysTyped
<1>1. CASE UNCHANGED vars
  BY <1>0, <1>1, UnmovedKeys DEF vars, keyVars, taskVars
<1>2. CASE \E t \in Tasks : Step(t)
  BY <1>2, KeysStep, GetsAndPutsKeys, InitializeKeys, MetadataKeys, SizeKeys, MountingKeys DEF Step, Mounting
<1>3. CASE \E t \in Tasks : mount(t) \/ create(t) \/ lookup(t) \/ open(t) \/ write(t) \/ release(t) \/ setattr(t)
  BY <1>3, MountingKeys, CallingKeys DEF Mounting, Calling
<1>4. CASE \E k \in Sigs : user(k)
  <2>1. PICK k \in Sigs : user(k)
    BY <1>4
  <2>2. key' \in [Sigs -> {"ok", "garbled", "expired", "revoked"}]
    BY <1>0, <2>1 DEF user, key_changes
  <2>3. UNCHANGED <<refs, sem, tok, listMutex, work, oops, pc, mounted>>
    BY <2>1 DEF user, key_changes, taskVars
  <2>. QED  BY <2>2, <2>3, UnmovedKeys
<1>. QED  BY <1>1, <1>2, <1>3, <1>4, EvictingKeys DEF Next

THEOREM KeysHeldInit == Init => KeysHeld
<1>. SUFFICES ASSUME Init PROVE KeysHeld
  OBVIOUS
<1>1. KeysTyped
  <2>1. work \in [Tasks -> Work] /\ listMutex \in Tasks \cup {None} /\ oops \in BOOLEAN
    BY IdleTyped DEF Init, KeysInit
  <2>2. key \in [Sigs -> {"ok", "garbled", "expired", "revoked"}] /\ tok \in [Sigs -> {"none", "valid", "invalid"}]
    BY DEF Init, KeysInit
  <2>3. sem \in [Sigs -> Tasks \cup {None}]
    BY DEF Init, KeysInit
  <2>4. refs \in [Sigs -> Int]
    BY DEF Init, KeysInit
  <2>. QED  BY <2>1, <2>2, <2>3, <2>4 DEF KeysTyped
<1>2. \A t \in Tasks : WorkOf(t)
  BY IdleTyped, NoTask DEF Init, KeysInit, WorkOf
<1>3. \A k \in Sigs : Takers(k) = {}
  BY IdleTyped DEF Init, KeysInit, Takers, Takes
<1>4. RefsTaken
  <2>1. \A k \in Sigs : Cardinality(Takers(k)) = 0 /\ refs[k] = 1 /\ tok[k] = "none"
    BY <1>3, FS_EmptySet DEF Init, KeysInit
  <2>. QED  BY <2>1 DEF RefsTaken
<1>5. Locked /\ Unmounted
  BY DEF Init, KeysInit, Locked, Unmounted
<1>. QED  BY <1>1, <1>2, <1>4, <1>5 DEF KeysHeld

(* The invariant holds in every state that the file and its keys reach.    *)
THEOREM OpenIInvAlways == Spec => []OpenIInv
<1>1. Init => OpenIInv
  BY ControlInit, CountedInit, KeysHeldInit DEF OpenIInv
<1>2. OpenIInv /\ [Next]_vars => OpenIInv'
  BY ControlStep, CountedStep, KeysHeldStep DEF OpenIInv
<1>. QED  BY <1>1, <1>2, PTL DEF Spec

(* What is taken is given back on every path: the references of a key are  *)
(* those of the keyring, the list and the tasks at work, its semaphore is  *)
(* held by a task that copies its token, and the lower file is open        *)
(* exactly while it has users, each counted once.                          *)
THEOREM AllAlwaysReturned == Spec => []AllReturned
<1>1. OpenIInv => AllReturned
  <2>. SUFFICES ASSUME OpenIInv PROVE AllReturned
    OBVIOUS
  <2>1. RefsExact
    <3>. SUFFICES ASSUME ~oops, NEW k \in Sigs
                  PROVE  refs[k] = 1 + (IF tok[k] = "valid" THEN 1 ELSE 0) + Cardinality(Users(k))
      BY DEF RefsExact
    <3>1. Users(k) = Takers(k)
      BY DEF Users, Takers, Takes, Is, Current
    <3>. QED  BY <3>1 DEF OpenIInv, KeysHeld, RefsTaken
  <2>2. ASSUME NEW k \in Sigs, sem[k] # None PROVE Is(sem[k], "hold", k)
    BY <2>2 DEF OpenIInv, KeysHeld, Locked, Is, Current
  <2>. QED  BY <2>1, <2>2 DEF AllReturned, OpenIInv, LowerCounted
<1>. QED  BY <1>1, OpenIInvAlways, PTL

-----------------------------------------------------------------------------
(* The key of a file and its metadata.                                     *)
InContents == IsMeta(lower.contents)
InXattr == IsMeta(lower.xattr)
InUse(t) == pc[t] \in {"opened", "size", "size store"}
Reading(t) == \/ pc[t] \in {"contents", "parse contents", "xattr", "parse xattr", "no metadata", "attr fails"}
              \/ pc[t] = "context" /\ call[t] = "open"
Making(t) == \/ pc[t] \in {"get2", "header"}
             \/ pc[t] \in {"get", "kthread"} /\ call[t] = "create"
LooksUpNew(t) == inode.new = t /\ call[t] = "lookup"

OneMeta == ~(InContents /\ InXattr) /\ (InContents => lower.nonempty)

(* The flag is set once the inode is known to the other calls.             *)
Flagged == /\ inode.cached /\ InXattr
           /\ \A t \in Tasks : LooksUpNew(t) => pc[t] = "stat end"
           => inode.inXattr

(* What a task needs nobody to keep away for ...                           *)
Free(t) ==
  /\ pc[t] = "stat set" => InContents
  /\ pc[t] = "stat set xattr" => InXattr
  /\ LooksUpNew(t) => ~inode.valid
  /\ call[t] = "create" /\ Busy(t) => ~InContents /\ ~InXattr
  /\ call[t] = "create" /\ pc[t] = "context" => ~inode.valid
  /\ Making(t) => inode.valid /\ IsMeta(inode)
  /\ call[t] = "open" /\ Busy(t) => inode.policy
  /\ InUse(t) => inode.valid \/ mnt.passthrough

(* ... and what holds because it has cs_mutex.                             *)
Kept(t) ==
  /\ pc[t] = "parse contents" => InContents /\ ~inode.inXattr
  /\ pc[t] = "parse xattr" => InXattr
  /\ call[t] = "open" /\ pc[t] \in {"context", "get2", "header"} => ~lower.nonempty /\ ~mnt.passthrough
  /\ call[t] = "setattr" /\ pc[t] \in {"get", "kthread", "metadata"} => ~inode.policy \/ ~inode.valid
  /\ Reading(t) /\ call[t] = "open" => ~inode.valid \/ inode.stray
  /\ Reading(t) \/ (Making(t) /\ call[t] = "open") =>
       \A u \in Tasks : InUse(u) => mnt.passthrough /\ (~inode.valid \/ inode.stray)

(* Nobody is about to store the key, or to find that there is none.        *)
Settling(t) == Making(t) \/ (Reading(t) /\ call[t] = "setattr")
KeyGiven == /\ inode.cached /\ inode.valid /\ ~inode.stray
            /\ \A t \in Tasks : ~Settling(t)
            => IsMeta(Stored) /\ Stored.fek = inode.fek

KeyInv == OneMeta /\ Flagged /\ (\A t \in Tasks : Free(t) /\ Kept(t)) /\ KeyGiven

(* A step of one task that leaves the others what they rely on.            *)
Calm(t) ==
  /\ mnt' = mnt
  /\ \A u \in Others(t) : pc'[u] = pc[u] /\ call'[u] = call[u] /\ inode.new # u /\ inode'.new # u
  /\ InContents => InContents'
  /\ InXattr => InXattr'
  /\ inode.valid => inode'.valid
  /\ inode.policy => inode'.policy
  /\ csMutex \in Others(t) =>
       /\ (inode'.valid <=> inode.valid) /\ (inode'.stray <=> inode.stray) /\ (inode'.policy <=> inode.policy)
       /\ inode'.sigs = inode.sigs
       /\ inode'.inXattr => inode.inXattr \/ InXattr
       /\ lower'.nonempty => lower.nonempty \/ InUse(t)
       /\ InUse(t)' => InUse(t)

LEMMA OthersKeep ==
    ASSUME Control, KeyInv, NEW t \in Tasks, Calm(t), NEW u \in Others(t)
    PROVE  Free(u)' /\ Kept(u)'
<1>0. /\ u \in Tasks /\ u # t /\ pc'[u] = pc[u] /\ call'[u] = call[u] /\ mnt' = mnt /\ inode.new # u /\ inode'.new # u
      /\ PlaceOf(u) /\ Free(u) /\ Kept(u) /\ OneMeta /\ call[u] \in Calls
  BY DEF Calm, Others, Control, FileTyped, KeyInv
<1>1. ~LooksUpNew(u) /\ ~LooksUpNew(u)' /\ (Busy(u)' <=> Busy(u)) /\ ~(call[u] = "create" /\ Busy(u))
  BY <1>0 DEF LooksUpNew, PlaceOf, Busy
<1>2. (InUse(u)' <=> InUse(u)) /\ (Reading(u)' <=> Reading(u)) /\ (Making(u)' <=> Making(u))
  BY <1>0 DEF InUse, Reading, Making
<1>3. Making(u) => csMutex = u /\ Busy(u) /\ call[u] = "open"
  BY <1>0, <1>1 DEF Making, PlaceOf, PlacesOf, Calls, Busy, Section
<1>4. Reading(u) \/ pc[u] \in {"context", "get2", "header"} \/ (call[u] = "setattr" /\ pc[u] \in {"get", "kthread", "metadata"})
      => csMutex \in Others(t)
  BY <1>0, <1>1, <1>3 DEF Reading, Making, PlaceOf, PlacesOf, Calls, Busy, Section
<1>5. Free(u)'
  <2>1. (pc'[u] = "stat set" => InContents') /\ (pc'[u] = "stat set xattr" => InXattr')
    BY <1>0 DEF Free, Calm
  <2>2. Making(u)' => inode'.valid /\ IsMeta(inode')
    BY <1>0, <1>2, <1>3, <1>4 DEF Free, Calm, IsMeta, Making
  <2>3. call'[u] = "open" /\ Busy(u)' => inode'.policy
    BY <1>0, <1>1 DEF Free, Calm
  <2>4. InUse(u)' => inode'.valid \/ mnt'.passthrough
    BY <1>0, <1>2 DEF Free, Calm
  <2>. QED  BY <1>0, <1>1, <2>1, <2>2, <2>3, <2>4 DEF Free, Busy
<1>6. Kept(u)'
  <2>1. pc'[u] = "parse contents" => InContents' /\ ~inode'.inXattr
    BY <1>0, <1>4 DEF Kept, Calm, Reading, OneMeta
  <2>2. pc'[u] = "parse xattr" => InXattr'
    BY <1>0, <1>4 DEF Kept, Calm
  <2>3. call'[u] = "open" /\ pc'[u] \in {"context", "get2", "header"} => ~lower'.nonempty /\ ~mnt'.passthrough
    <3>. SUFFICES ASSUME call[u] = "open", pc[u] \in {"context", "get2", "header"}
                  PROVE  ~lower'.nonempty /\ ~mnt'.passthrough
      BY <1>0
    <3>1. ~lower.nonempty /\ ~mnt.passthrough /\ ~InUse(t)
      BY <1>0 DEF Kept, Reading, Making
    <3>. QED  BY <1>0, <1>4, <3>1 DEF Calm
  <2>4. call'[u] = "setattr" /\ pc'[u] \in {"get", "kthread", "metadata"} => ~inode'.policy \/ ~inode'.valid
    BY <1>0, <1>4 DEF Kept, Calm
  <2>5. Reading(u)' /\ call'[u] = "open" => ~inode'.valid \/ inode'.stray
    BY <1>0, <1>2, <1>4 DEF Kept, Calm
  <2>6. ASSUME Reading(u)' \/ (Making(u)' /\ call'[u] = "open"), NEW v \in Tasks, InUse(v)'
        PROVE  mnt'.passthrough /\ (~inode'.valid \/ inode'.stray)
    <3>1. (Reading(u) \/ (Making(u) /\ call[u] = "open")) /\ csMutex \in Others(t)
      BY <1>0, <1>2, <1>3, <1>4, <2>6 DEF Others
    <3>2. InUse(v)
      BY <2>6, <3>1 DEF Calm, Others, InUse
    <3>. QED  BY <1>0, <3>1, <3>2 DEF Kept, Calm
  <2>. QED  BY <2>1, <2>2, <2>3, <2>4, <2>5, <2>6 DEF Kept
<1>. QED  BY <1>5, <1>6

LEMMA CalmKeeps ==
    ASSUME Control, KeyInv, NEW t \in Tasks, Calm(t), OneMeta', Flagged', Free(t)', Kept(t)', KeyGiven'
    PROVE  KeyInv'
<1>1. \A u \in Tasks : Free(u)' /\ Kept(u)'
  BY OthersKeep DEF Others
<1>. QED  BY <1>1 DEF KeyInv

LEMMA NoOthers ==
    ASSUME Control, NEW t \in Tasks, Busy(t) \/ inode.new = None
    PROVE  \A u \in Others(t) : inode.new # u
<1>. QED  BY NoTask DEF Control, Alone, Others, Busy

(* A step that leaves the key, the flag and the metadata as they are.      *)
SameKey ==
  /\ mnt' = mnt /\ inode'.sigs = inode.sigs /\ inode'.fek = inode.fek
  /\ (inode'.cached <=> inode.cached) /\ (inode'.inXattr <=> inode.inXattr)
  /\ (inode'.valid <=> inode.valid) /\ (inode'.stray <=> inode.stray) /\ (inode'.policy <=> inode.policy)
SameMeta ==
  /\ lower'.contents.sigs = lower.contents.sigs /\ lower'.contents.fek = lower.contents.fek
  /\ lower'.xattr.sigs = lower.xattr.sigs /\ lower'.xattr.fek = lower.xattr.fek
  /\ lower.nonempty => lower'.nonempty

LEMMA SteadyKeeps ==
    ASSUME Control, KeyInv, NEW t \in Tasks, SameKey, SameMeta,
           \A u \in Others(t) : pc'[u] = pc[u] /\ call'[u] = call[u] /\ inode.new # u /\ inode'.new # u,
           lower'.nonempty => lower.nonempty \/ InUse(t),
           InUse(t)' => InUse(t) \/ csMutex \in {t, None},
           Settling(t) => Settling(t)' \/ ~inode.valid \/ inode.stray,
           LooksUpNew(t) /\ pc[t] # "stat end" => ~InXattr \/ (LooksUpNew(t)' /\ pc'[t] # "stat end"),
           Free(t)', Kept(t)'
    PROVE  KeyInv'
<1>1. (InContents' <=> InContents) /\ (InXattr' <=> InXattr) /\ None \notin Others(t)
  BY NoTask DEF InContents, InXattr, IsMeta, SameMeta, Others
<1>2. OneMeta'
  BY <1>1 DEF OneMeta, KeyInv, SameMeta
<1>3. Calm(t)
  BY <1>1 DEF Calm, SameKey, Others
<1>4. Flagged'
  <2>. SUFFICES ASSUME inode.cached, InXattr, ~inode.inXattr, \A u \in Tasks : LooksUpNew(u)' => pc'[u] = "stat end"
                PROVE  FALSE
    BY <1>1 DEF Flagged, SameKey
  <2>1. ASSUME NEW u \in Tasks, LooksUpNew(u) PROVE pc[u] = "stat end"
    BY <2>1 DEF LooksUpNew, Others
  <2>. QED  BY <2>1 DEF KeyInv, Flagged
<1>5. KeyGiven'
  <2>. SUFFICES ASSUME inode.cached, inode.valid, ~inode.stray, \A u \in Tasks : ~Settling(u)'
                PROVE  (IsMeta(Stored) /\ Stored.fek = inode.fek)'
    BY DEF KeyGiven, SameKey
  <2>1. ASSUME NEW u \in Tasks PROVE ~Settling(u)
    BY DEF Settling, Making, Reading, Others
  <2>2. IsMeta(Stored) /\ Stored.fek = inode.fek
    BY <2>1 DEF KeyInv, KeyGiven
  <2>. QED  BY <2>2 DEF Stored, IsMeta, SameKey, SameMeta
<1>. QED  BY <1>2, <1>3, <1>4, <1>5, CalmKeeps

(* A step of a task that leaves the file and its inode.                    *)
LEMMA MovesKey ==
    ASSUME Control, KeyInv, NEW t \in Tasks, Busy(t), NEW p \in Places, pc' = [pc EXCEPT ![t] = p],
           UNCHANGED <<call, mnt, lower, inode>>,
           InUse(t)' => InUse(t) \/ csMutex \in {t, None},
           Settling(t) => Settling(t)' \/ ~inode.valid \/ inode.stray,
           LooksUpNew(t) /\ pc[t] # "stat end" => ~InXattr \/ (LooksUpNew(t)' /\ pc'[t] # "stat end"),
           Free(t)', Kept(t)'
    PROVE  KeyInv'
<1>1. \A u \in Others(t) : pc'[u] = pc[u] /\ call'[u] = call[u] /\ inode.new # u /\ inode'.new # u
  BY NoOthers DEF Control, FileTyped, Others
<1>2. SameKey /\ SameMeta
  BY DEF SameKey, SameMeta
<1>. QED  BY <1>1, <1>2, SteadyKeeps

(* Nobody is left in a call, and the inode is dropped.                     *)
LEMMA GoneKeepsKey ==
    ASSUME Control', OneMeta', ~inode'.cached
    PROVE  KeyInv'
<1>1. \A u \in Tasks : ~Busy(u)' /\ ~LooksUpNew(u)'
  BY DEF Control, PlaceOf, LooksUpNew
<1>2. \A u \in Tasks : Free(u)' /\ Kept(u)'
  BY <1>1 DEF Free, Kept, Busy, InUse, Reading, Making
<1>. QED  BY <1>2 DEF KeyInv, Flagged, KeyGiven

LEMMA GetsAndPutsKey ==
    ASSUME Control, Control', KeyInv, NEW t \in Tasks, GetsAndPuts(t)
    PROVE  KeyInv'
<1>. USE DEF At, To
<1>0. PlaceOf(t) /\ FileTyped /\ call[t] \in Calls /\ Free(t) /\ Kept(t) /\ OneMeta /\ csMutex \in Tasks \cup {None}
  BY DEF Control, FileTyped, KeyInv
<1>1. CASE get_lower_file(t) \/ ecryptfs_threadfn(t) \/ get_lower_file_again(t)
  <2>1. PICK p \in {"kthread", "header", "metadata", "stat"} :
           /\ pc' = [pc EXCEPT ![t] = p] /\ (p = AfterGet(t) \/ (p = "kthread" /\ pc[t] = "get"))
           /\ UNCHANGED <<call, mnt, lower, inode>>
    BY <1>1 DEF get_lower_file, ecryptfs_threadfn, get_lower_file_again, AfterGet
  <2>2. pc[t] \in {"get", "kthread", "get2"} /\ Busy(t) /\ p \in Places /\ pc'[t] = p /\ call'[t] = call[t]
    BY <1>0, <1>1, <2>1, AfterGets, PlacesTyped DEF get_lower_file, ecryptfs_threadfn, get_lower_file_again, Busy,
         FileTyped, PlaceOf, PlacesOf, Calls
  <2>3. /\ Making(t)' <=> Making(t)
        /\ ~InUse(t)' /\ ~Reading(t)' /\ ~Reading(t) /\ ~(call[t] = "create" /\ p = "metadata")
        /\ call[t] = "open" /\ p = "header" => pc[t] = "get2"
        /\ call[t] = "open" => p # "kthread" \/ pc[t] = "get"
    BY <1>0, <2>1, <2>2 DEF AfterGet, Making, InUse, Reading, PlaceOf, PlacesOf, Calls, Busy
  <2>4. Free(t)'
    BY <1>0, <2>1, <2>2, <2>3 DEF Free, Busy, LooksUpNew, InContents, InXattr
  <2>5. Kept(t)'
    <3>1. call[t] = "setattr" => (~inode.policy \/ ~inode.valid)
      BY <1>0, <2>2 DEF Kept, PlaceOf, PlacesOf, Busy
    <3>2. call[t] = "open" /\ p = "header" => ~lower.nonempty /\ ~mnt.passthrough
      BY <1>0, <2>3 DEF Kept
    <3>3. ASSUME call[t] = "open", Making(t)', NEW u \in Tasks, InUse(u)'
          PROVE  mnt.passthrough /\ (~inode.valid \/ inode.stray)
      <4>1. InUse(u)
        BY <2>1, <2>3, <3>3, <1>0 DEF InUse, FileTyped
      <4>. QED  BY <1>0, <2>3, <3>3, <4>1 DEF Kept
    <3>. QED  BY <2>1, <2>2, <2>3, <3>1, <3>2, <3>3 DEF Kept
  <2>6. LooksUpNew(t) /\ pc[t] # "stat end" => LooksUpNew(t)' /\ pc'[t] # "stat end"
    BY <2>1, <2>2 DEF LooksUpNew
  <2>. QED  BY <2>1, <2>2, <2>3, <2>4, <2>5, <2>6, MovesKey DEF Settling
<1>2. CASE ecryptfs_put_lower_file(t)
  <2>1. Busy(t) /\ pc[t] = "put" /\ pc' = [pc EXCEPT ![t] = "idle"] /\ UNCHANGED <<call, mnt, lower, inode>> /\ pc'[t] = "idle"
        /\ call[t] = "open" /\ "idle" \in Places /\ inode.new # t
    BY <1>0, <1>2, PlacesTyped DEF ecryptfs_put_lower_file, Busy, FileTyped, PlaceOf, PlacesOf, Calls
  <2>2. ~Settling(t) /\ ~InUse(t)' /\ ~Making(t)' /\ ~Reading(t)' /\ ~LooksUpNew(t) /\ ~LooksUpNew(t)' /\ ~Busy(t)'
    BY <2>1 DEF Settling, InUse, Making, Reading, LooksUpNew, Busy
  <2>. QED  BY <2>1, <2>2, MovesKey DEF Free, Kept
<1>3. CASE get_lower_file_fails(t)
  <2>1. pc[t] = "kthread" /\ Busy(t) /\ pc' = [pc EXCEPT ![t] = "idle"] /\ UNCHANGED <<call, mnt>> /\ pc'[t] = "idle"
        /\ "idle" \in Places /\ inode \in Inode
    BY <1>0, <1>3, PlacesTyped DEF get_lower_file_fails, Busy, FileTyped
  <2>2. CASE call[t] = "create" \/ inode.new = t
    <3>1. inode' = Gone /\ (lower' = lower \/ lower' = NoFile)
      BY <1>3, <2>2 DEF get_lower_file_fails, AfterFailedGet
    <3>2. OneMeta'
      BY <1>0, <3>1 DEF OneMeta, InContents, InXattr, IsMeta, NoFile, NoMeta
    <3>. QED  BY <3>1, <3>2, GoneKeepsKey, Records
  <2>3. CASE ~(call[t] = "create" \/ inode.new = t)
    <3>1. lower' = lower /\ (inode' = inode \/ inode' = [inode EXCEPT !.bad = TRUE])
      BY <1>0, <1>3, <2>3 DEF get_lower_file_fails, AfterFailedGet
    <3>2. SameKey /\ SameMeta /\ inode'.new = inode.new
      BY <2>1, <3>1 DEF SameKey, SameMeta, Inode
    <3>3. ~InUse(t)' /\ ~Making(t) /\ ~Making(t)' /\ ~Reading(t) /\ ~Reading(t)' /\ ~LooksUpNew(t) /\ ~LooksUpNew(t)' /\ ~Busy(t)'
      BY <2>1, <2>3, <3>2 DEF InUse, Making, Reading, LooksUpNew, Busy
    <3>4. Free(t)' /\ Kept(t)'
      BY <2>1, <3>3 DEF Free, Kept
    <3>5. \A u \in Others(t) : pc'[u] = pc[u] /\ call'[u] = call[u] /\ inode.new # u /\ inode'.new # u
      BY <1>0, <2>1, <3>2, NoOthers DEF FileTyped, Others
    <3>. QED  BY <3>1, <3>2, <3>3, <3>4, <3>5, SteadyKeeps DEF Settling
  <2>. QED  BY <2>2, <2>3
<1>. QED  BY <1>1, <1>2, <1>3 DEF GetsAndPuts

LEMMA UnmovedKey ==
    ASSUME KeyInv, UNCHANGED <<mnt, lower, inode, pc, call>>
    PROVE  KeyInv'
<1>1. (InContents' <=> InContents) /\ (InXattr' <=> InXattr) /\ Stored' = Stored
  BY DEF InContents, InXattr, IsMeta, Stored
<1>2. \A t \in Tasks : /\ (InUse(t)' <=> InUse(t)) /\ (Reading(t)' <=> Reading(t)) /\ (Making(t)' <=> Making(t))
                       /\ (LooksUpNew(t)' <=> LooksUpNew(t)) /\ (Busy(t)' <=> Busy(t))
                       /\ (Settling(t)' <=> Settling(t))
  BY DEF InUse, Reading, Making, LooksUpNew, Busy, Settling
<1>3. \A t \in Tasks : Free(t)' /\ Kept(t)'
  <2>. SUFFICES ASSUME NEW t \in Tasks PROVE Free(t)' /\ Kept(t)'
    OBVIOUS
  <2>1. Free(t)'
    BY <1>1, <1>2 DEF KeyInv, Free, IsMeta
  <2>2. Kept(t)'
    BY <1>1, <1>2 DEF KeyInv, Kept
  <2>. QED  BY <2>1, <2>2
<1>4. OneMeta' /\ Flagged'
  BY <1>1, <1>2 DEF KeyInv, OneMeta, Flagged
<1>5. KeyGiven'
  BY <1>1, <1>2 DEF KeyInv, KeyGiven, IsMeta
<1>. QED  BY <1>3, <1>4, <1>5 DEF KeyInv

(* The initialisation of a file: its task has cs_mutex, or is alone.       *)
LEMMA NewContextFields ==
    ASSUME FileTyped, NEW n \in 0..Len(mnt.sigs), NEW fek \in Nat
    PROVE  /\ NewContext(n, fek).valid /\ NewContext(n, fek).policy = inode.policy
           /\ inode.inXattr => NewContext(n, fek).inXattr
           /\ n = Len(mnt.sigs) => IsMeta(NewContext(n, fek))
<1>1. mnt.sigs \in Seq(Sigs) /\ Len(mnt.sigs) \in Nat /\ Len(mnt.sigs) > 0 /\ inode \in Inode /\ inode.sigs \in Seq(Sigs)
  BY OpenAssumption, NewContextTyped, InodeFields DEF FileTyped
<1>2. NewContext(n, fek).sigs = SubSeq(mnt.sigs, Len(mnt.sigs) - n + 1, Len(mnt.sigs)) \o inode.sigs
  BY <1>1 DEF NewContext, Inode
<1>3. SubSeq(mnt.sigs, 1, Len(mnt.sigs)) \o inode.sigs # << >>
  <2>1. SubSeq(mnt.sigs, 1, Len(mnt.sigs)) = mnt.sigs
    BY <1>1
  <2>2. ASSUME NEW a \in Nat, NEW b \in Nat, a > 0 PROVE a + b # 0
    BY <2>2
  <2>3. Len(mnt.sigs \o inode.sigs) = Len(mnt.sigs) + Len(inode.sigs) /\ Len(inode.sigs) \in Nat
    BY <1>1, ConcatProperties
  <2>4. Len(mnt.sigs \o inode.sigs) # 0
    BY <1>1, <2>2, <2>3, Zenon
  <2>5. Len(<< >>) = 0
    OBVIOUS
  <2>6. mnt.sigs \o inode.sigs # << >>
    BY <2>4, <2>5, Zenon
  <2>. QED  BY <2>1, <2>6, Zenon
<1>4. n = Len(mnt.sigs) => Len(mnt.sigs) - n + 1 = 1
  BY <1>1
<1>5. NewContext(n, fek).valid /\ NewContext(n, fek).policy = inode.policy /\ (inode.inXattr => NewContext(n, fek).inXattr)
  BY <1>1 DEF NewContext, Inode
<1>. QED  BY <1>2, <1>3, <1>4, <1>5 DEF IsMeta

LEMMA InitializesIn ==
    ASSUME Control, KeyInv, NEW t \in Tasks, pc[t] \in {"context", "header"}
    PROVE  /\ PlaceOf(t) /\ Free(t) /\ Kept(t) /\ Busy(t) /\ call[t] \in {"create", "open"} /\ inode.cached
           /\ call[t] = "create" => inode.new = t /\ ~InContents /\ ~InXattr
           /\ call[t] = "open" => inode.new # t /\ ~InContents /\ (InXattr => inode.inXattr) /\ inode.policy
                                  /\ \A u \in Tasks : ~InUse(u)
           /\ csMutex \notin Others(t) /\ \A u \in Others(t) : inode.new # u
<1>1. PlaceOf(t) /\ Free(t) /\ Kept(t) /\ Busy(t) /\ call[t] \in Calls
  BY DEF Control, FileTyped, KeyInv, Busy
<1>2. call[t] \in {"create", "open"} /\ inode.cached /\ (call[t] = "open" => csMutex = t /\ inode.new # t)
  BY <1>1 DEF PlaceOf, PlacesOf, Calls, Section
<1>3. \A u \in Others(t) : inode.new # u
  BY <1>1, NoOthers
<1>4. call[t] = "create" => inode.new = t /\ ~InContents /\ ~InXattr /\ csMutex \notin Others(t)
  <2>. SUFFICES ASSUME call[t] = "create", NEW u \in Others(t) PROVE inode.new = t /\ ~InContents /\ ~InXattr /\ csMutex # u
    BY <1>1, <1>2 DEF PlaceOf, Free
  <2>1. inode.new = t /\ ~InContents /\ ~InXattr
    BY <1>1 DEF PlaceOf, Free
  <2>2. PlaceOf(u) /\ pc[u] = "idle"
    BY <2>1 DEF Control, Alone, Others
  <2>. QED  BY <2>1, <2>2 DEF PlaceOf, Busy
<1>5. call[t] = "open" => ~InContents /\ inode.policy /\ (\A u \in Tasks : ~InUse(u)) /\ (InXattr => inode.inXattr)
  <2>. SUFFICES ASSUME call[t] = "open" PROVE ~InContents /\ inode.policy /\ (\A u \in Tasks : ~InUse(u)) /\ (InXattr => inode.inXattr)
    OBVIOUS
  <2>1. ~lower.nonempty /\ ~mnt.passthrough /\ inode.policy
    BY <1>1 DEF Kept, Free
  <2>2. Reading(t) \/ Making(t)
    BY DEF Reading, Making
  <2>3. \A u \in Tasks : ~InUse(u)
    BY <1>1, <2>1, <2>2 DEF Kept
  <2>4. \A u \in Tasks : ~LooksUpNew(u)
    BY <1>2, <1>3 DEF LooksUpNew, Others
  <2>. QED  BY <1>2, <2>1, <2>3, <2>4 DEF KeyInv, OneMeta, Flagged
<1>. QED  BY <1>1, <1>2, <1>3, <1>4, <1>5 DEF Others

LEMMA GiveUpKey ==
    ASSUME Control, Control', KeyInv, NEW t \in Tasks, pc[t] \in {"context", "header"}, NEW i \in Inode,
           i.cached = inode.cached, i.new = inode.new, i.policy = inode.policy, inode.valid => i.valid,
           inode.inXattr => i.inXattr, GiveUp(t, i), UNCHANGED mnt
    PROVE  KeyInv'
<1>. USE DEF GiveUp, To
<1>1. CASE call[t] = "create"
  <2>1. inode' = Gone /\ lower' = NoFile
    BY <1>1
  <2>2. OneMeta'
    BY <2>1 DEF OneMeta, InContents, InXattr, IsMeta, NoFile, NoMeta
  <2>. QED  BY <2>1, <2>2, GoneKeepsKey, Records
<1>2. CASE call[t] # "create"
  <2>0. call[t] = "open" /\ inode.new # t /\ csMutex \notin Others(t) /\ (\A u \in Others(t) : inode.new # u)
        /\ Busy(t) /\ inode.policy
    BY <1>2, InitializesIn
  <2>1. /\ lower' = lower /\ call' = call /\ mnt' = mnt /\ pc' = [pc EXCEPT ![t] = "put"]
        /\ inode'.stray /\ inode'.cached = inode.cached /\ inode'.new = inode.new /\ inode'.policy = inode.policy
        /\ inode.valid => inode'.valid
        /\ inode.inXattr => inode'.inXattr
    BY <1>2 DEF Inode
  <2>2. pc'[t] = "put" /\ call'[t] = "open" /\ \A u \in Others(t) : pc'[u] = pc[u] /\ call'[u] = call[u]
    BY <2>0, <2>1 DEF Control, FileTyped, Others
  <2>3. (InContents' <=> InContents) /\ (InXattr' <=> InXattr)
    BY <2>1 DEF InContents, InXattr
  <2>4. Calm(t)
    BY <2>0, <2>1, <2>2, <2>3 DEF Calm
  <2>5. OneMeta' /\ KeyGiven'
    BY <2>1, <2>3 DEF KeyInv, OneMeta, KeyGiven
  <2>6. Flagged'
    <3>1. \A u \in Tasks : ~LooksUpNew(u)
      BY <2>0 DEF LooksUpNew, Others
    <3>. QED  BY <2>1, <2>3, <3>1 DEF KeyInv, Flagged
  <2>7. Free(t)' /\ Kept(t)'
    BY <2>0, <2>1, <2>2 DEF Free, Kept, LooksUpNew, Making, Reading, InUse
  <2>. QED  BY <2>4, <2>5, <2>6, <2>7, CalmKeeps
<1>. QED  BY <1>1, <1>2

LEMMA InitializeKey ==
    ASSUME Control, Control', KeyInv, NEW t \in Tasks, Initialize(t)
    PROVE  KeyInv'
<1>. USE DEF At, To
<1>0. PlaceOf(t) /\ FileTyped /\ inode \in Inode /\ feks \in Nat /\ lower \in LowerFile /\ Free(t) /\ Kept(t)
  BY DEF Control, FileTyped, KeyInv
<1>1. CASE new_file_context(t)
  <2>0. /\ pc[t] = "context" /\ Busy(t) /\ call[t] \in {"create", "open"} /\ csMutex \notin Others(t)
        /\ \A u \in Others(t) : inode.new # u
        /\ call[t] = "create" => ~InContents /\ ~InXattr
        /\ call[t] = "open" => inode.policy /\ inode.new # t /\ \A u \in Tasks : ~InUse(u)
    BY <1>1, InitializesIn DEF new_file_context
  <2>1. /\ inode'.cached = inode.cached /\ inode'.new = inode.new /\ inode'.valid /\ inode'.policy = inode.policy
        /\ inode.inXattr => inode'.inXattr
        /\ IsMeta(inode')
    <3>1. Len(mnt.sigs) \in 0..Len(mnt.sigs)
      BY <1>0, OpenAssumption, EmptySeq DEF FileTyped
    <3>. QED  BY <1>0, <1>1, <3>1, NewContextTyped, NewContextFields DEF new_file_context, IsMeta
  <2>2. PICK p \in {"get", "get2"} : pc' = [pc EXCEPT ![t] = p] /\ p = IF call[t] = "create" THEN "get" ELSE "get2"
    BY <1>1 DEF new_file_context
  <2>3. /\ lower' = lower /\ call' = call /\ mnt' = mnt /\ pc'[t] = p /\ call'[t] = call[t]
        /\ \A u \in Others(t) : pc'[u] = pc[u] /\ call'[u] = call[u]
        /\ \A u \in Tasks : ~InUse(u) => ~InUse(u)'
    BY <1>0, <1>1, <2>0, <2>2 DEF new_file_context, FileTyped, Others, InUse
  <2>4. (InContents' <=> InContents) /\ (InXattr' <=> InXattr)
    BY <2>3 DEF InContents, InXattr
  <2>5. Calm(t)
    BY <2>0, <2>1, <2>3, <2>4 DEF Calm
  <2>6. OneMeta' /\ Flagged'
    <3>1. \A u \in Tasks : ~LooksUpNew(u)
      BY <2>0 DEF LooksUpNew, Others
    <3>. QED  BY <2>1, <2>3, <2>4, <3>1 DEF KeyInv, OneMeta, Flagged
  <2>7. KeyGiven'
    BY <2>0, <2>2, <2>3 DEF KeyGiven, Settling, Making
  <2>8. Free(t)'
    BY <2>0, <2>1, <2>2, <2>3, <2>4 DEF Free, LooksUpNew, InUse, Busy
  <2>9. Kept(t)'
    BY <1>0, <2>0, <2>2, <2>3 DEF Kept, Reading
  <2>. QED  BY <2>5, <2>6, <2>7, <2>8, <2>9, CalmKeeps
<1>2. CASE new_file_context_fails(t)
  <2>1. PICK n \in 0..Len(mnt.sigs), fek \in Nat : GiveUp(t, NewContext(n, fek))
    <3>1. mnt.sigs \in Seq(Sigs) /\ Len(mnt.sigs) \in Nat /\ inode.fek \in Nat /\ feks + 1 \in Nat
      BY <1>0, OpenAssumption, EmptySeq, InodeFields DEF FileTyped
    <3>2. 0..(Len(mnt.sigs) - 1) \subseteq 0..Len(mnt.sigs) /\ Len(mnt.sigs) \in 0..Len(mnt.sigs)
      BY <3>1
    <3>. QED  BY <1>2, <3>1, <3>2, Zenon DEF new_file_context_fails
  <2>2. pc[t] = "context" /\ UNCHANGED mnt
    BY <1>2 DEF new_file_context_fails
  <2>. QED  BY <1>0, <2>1, <2>2, NewContextTyped, NewContextFields, GiveUpKey
<1>3. CASE generate_key_packet_set(t)
  BY <1>3, UnmovedKey DEF generate_key_packet_set, taskVars
<1>4. CASE write_metadata(t)
  <2>0. /\ pc[t] = "header" /\ Busy(t) /\ call[t] \in {"create", "open"} /\ csMutex \notin Others(t)
        /\ ~InContents /\ (InXattr => inode.inXattr) /\ inode.valid /\ IsMeta(inode) /\ inode.cached
        /\ \A u \in Others(t) : inode.new # u
        /\ call[t] = "create" => inode.new = t
        /\ call[t] = "open" => inode.policy /\ inode.new # t
    BY <1>0, <1>4, InitializesIn DEF write_metadata, Free, Making
  <2>1. /\ IF inode.inXattr THEN lower'.xattr = Written /\ lower'.contents = lower.contents
           ELSE lower'.contents = Written /\ lower'.xattr = lower.xattr /\ lower'.nonempty
        /\ lower.nonempty => lower'.nonempty
    BY <1>0, <1>4 DEF write_metadata, LowerFile
  <2>2. /\ inode'.cached = inode.cached /\ inode'.valid = inode.valid /\ inode'.policy = inode.policy
        /\ inode'.inXattr = inode.inXattr /\ inode'.fek = inode.fek /\ inode'.sigs = inode.sigs
        /\ inode'.new = IF call[t] = "create" THEN None ELSE inode.new
    BY <1>0, <1>4 DEF write_metadata, Inode
  <2>3. /\ pc' = [pc EXCEPT ![t] = IF call[t] = "create" THEN "idle" ELSE "opened"] /\ call' = call /\ mnt' = mnt
        /\ \A u \in Others(t) : pc'[u] = pc[u] /\ call'[u] = call[u]
        /\ pc'[t] = IF call[t] = "create" THEN "idle" ELSE "opened"
    BY <1>0, <1>4 DEF write_metadata, FileTyped, Others
  <2>4. IsMeta(Written) /\ Written.fek = inode.fek
    BY <2>0 DEF Written, IsMeta
  <2>5. IF inode.inXattr THEN InXattr' /\ ~InContents' ELSE InContents' /\ ~InXattr' /\ lower'.nonempty
    BY <2>0, <2>1, <2>4 DEF InContents, InXattr
  <2>6. Calm(t)
    BY <2>0, <2>2, <2>3, <2>5, NoTask DEF Calm, Others
  <2>7. OneMeta' /\ Flagged'
    BY <2>2, <2>5 DEF OneMeta, Flagged
  <2>8. KeyGiven'
    BY <2>1, <2>2, <2>4 DEF KeyGiven, Stored
  <2>9. /\ ~LooksUpNew(t)' /\ ~Making(t)' /\ ~Reading(t)' /\ pc'[t] \in {"idle", "opened"}
        /\ Busy(t)' => call'[t] = "open" /\ inode'.policy
    <3>1. CASE call[t] = "create"
      <4>1. pc'[t] = "idle" /\ call'[t] = "create"
        BY <2>3, <3>1
      <4>. QED  BY <4>1 DEF LooksUpNew, Making, Reading, Busy
    <3>2. CASE call[t] = "open"
      <4>1. pc'[t] = "opened" /\ call'[t] = "open" /\ inode'.policy
        BY <2>0, <2>2, <2>3, <3>2
      <4>. QED  BY <4>1 DEF LooksUpNew, Making, Reading, Busy
    <3>. QED  BY <2>0, <3>1, <3>2
  <2>10. Free(t)' /\ Kept(t)'
    BY <2>0, <2>2, <2>9 DEF Free, Kept
  <2>. QED  BY <2>6, <2>7, <2>8, <2>10, CalmKeeps
<1>5. CASE write_metadata_fails(t)
  BY <1>0, <1>5, GiveUpKey DEF write_metadata_fails
<1>. QED  BY <1>1, <1>2, <1>3, <1>4, <1>5 DEF Initialize

(* The reading of the metadata, with cs_mutex held.                        *)
LEMMA ReadsKeyIn ==
    ASSUME Control, KeyInv, NEW t \in Tasks, pc[t] \in Reads \cup {"metadata"}
    PROVE  /\ PlaceOf(t) /\ FileTyped /\ Free(t) /\ Kept(t) /\ Busy(t) /\ call[t] \in {"open", "setattr"} /\ inode.cached
           /\ inode.new # t /\ (\A u \in Others(t) : inode.new # u) /\ (\A u \in Tasks : ~LooksUpNew(u))
           /\ pc[t] \in Reads \/ call[t] = "setattr" => csMutex = t
           /\ InXattr => inode.inXattr
           /\ call[t] = "open" => inode.policy
           /\ \A u \in Tasks : InUse(u) => inode.policy
           /\ OneMeta
<1>1. PlaceOf(t) /\ FileTyped /\ Free(t) /\ Kept(t) /\ Busy(t) /\ call[t] \in {"open", "setattr"} /\ inode.new # t /\ inode.cached
      /\ (pc[t] \in Reads \/ call[t] = "setattr" => csMutex = t)
  BY ReadsIn DEF Control, KeyInv, PlaceOf
<1>2. (\A u \in Others(t) : inode.new # u) /\ \A u \in Tasks : ~LooksUpNew(u)
  BY <1>1, NoOthers DEF LooksUpNew, Others
<1>3. ASSUME NEW u \in Tasks, InUse(u) PROVE inode.policy
  <2>1. PlaceOf(u) /\ Free(u) /\ call[u] \in Calls /\ Busy(u)
    BY <1>3 DEF Control, FileTyped, KeyInv, InUse, Busy
  <2>2. call[u] = "open"
    BY <1>3, <2>1 DEF PlaceOf, PlacesOf, Calls, InUse
  <2>. QED  BY <2>1, <2>2 DEF Free
<1>. QED  BY <1>1, <1>2, <1>3 DEF KeyInv, Flagged, Free

LEMMA StartsReadingKey ==
    ASSUME Control, KeyInv, NEW t \in Tasks, pc[t] = "metadata", csMutex \in {t, None}, To(t, "contents"),
           ~inode.policy \/ ~inode.valid, inode' = [inode EXCEPT !.inXattr = @ \/ mnt.xattr], UNCHANGED <<mnt, lower>>
    PROVE  KeyInv'
<1>. USE DEF To
<1>1. /\ PlaceOf(t) /\ FileTyped /\ Free(t) /\ Kept(t) /\ call[t] \in {"open", "setattr"} /\ inode.new # t
      /\ (\A u \in Others(t) : inode.new # u) /\ (\A u \in Tasks : ~LooksUpNew(u)) /\ (InXattr => inode.inXattr)
      /\ (call[t] = "open" => inode.policy) /\ (\A u \in Tasks : InUse(u) => inode.policy) /\ None \notin Others(t)
  BY ReadsKeyIn, NoTask DEF Others
<1>2. /\ pc'[t] = "contents" /\ call' = call /\ mnt' = mnt /\ lower' = lower
      /\ \A u \in Others(t) : pc'[u] = pc[u] /\ call'[u] = call[u]
      /\ \A u \in Tasks : InUse(u)' => InUse(u)
  BY <1>1 DEF FileTyped, Others, InUse
<1>3. /\ inode'.cached = inode.cached /\ inode'.new = inode.new /\ inode'.valid = inode.valid /\ inode'.stray = inode.stray
      /\ inode'.policy = inode.policy /\ inode'.sigs = inode.sigs
      /\ inode.inXattr => inode'.inXattr
  BY <1>1 DEF FileTyped, Inode
<1>4. (InContents' <=> InContents) /\ (InXattr' <=> InXattr)
  BY <1>2 DEF InContents, InXattr
<1>5. Calm(t)
  BY <1>1, <1>2, <1>3, <1>4 DEF Calm, Others
<1>6. OneMeta' /\ Flagged'
  BY <1>1, <1>2, <1>3, <1>4 DEF KeyInv, OneMeta, Flagged
<1>7. KeyGiven'
  BY <1>1, <1>2, <1>3 DEF KeyGiven, Settling, Reading
<1>8. Free(t)'
  BY <1>1, <1>2, <1>3 DEF Free, Making, InUse, LooksUpNew, Busy
<1>9. Kept(t)'
  <2>1. ASSUME NEW u \in Tasks, InUse(u)' PROVE mnt.passthrough /\ ~inode.valid
    BY <1>1, <1>2, <2>1 DEF KeyInv, Free
  <2>. QED  BY <1>1, <1>2, <1>3, <2>1 DEF Kept
<1>. QED  BY <1>5, <1>6, <1>7, <1>8, <1>9, CalmKeeps

LEMMA ReadsOnKey ==
    ASSUME Control, KeyInv, NEW t \in Tasks, pc[t] \in Reads, NEW p \in Reads \cup {"attr fails", "context"}, To(t, p),
           p = "attr fails" => call[t] = "setattr",
           p = "context" => call[t] = "open" /\ ~lower.nonempty /\ ~mnt.passthrough,
           UNCHANGED <<mnt, lower>>, inode'.cached = inode.cached, inode'.new = inode.new,
           inode'.policy = inode.policy, inode'.sigs = inode.sigs,
           \/ inode'.valid = inode.valid /\ inode'.stray = inode.stray
           \/ inode'.valid /\ inode'.stray,
           InXattr /\ inode.inXattr => inode'.inXattr,
           p = "parse contents" => InContents /\ ~inode'.inXattr,
           p = "parse xattr" => InXattr
    PROVE  KeyInv'
<1>. USE DEF To
<1>1. /\ PlaceOf(t) /\ FileTyped /\ Free(t) /\ Kept(t) /\ call[t] \in {"open", "setattr"} /\ inode.new # t
      /\ (\A u \in Others(t) : inode.new # u) /\ (\A u \in Tasks : ~LooksUpNew(u)) /\ (InXattr => inode.inXattr)
      /\ (call[t] = "open" => inode.policy) /\ csMutex = t
  BY ReadsKeyIn
<1>2. /\ pc'[t] = p /\ call' = call /\ mnt' = mnt /\ lower' = lower
      /\ \A u \in Others(t) : pc'[u] = pc[u] /\ call'[u] = call[u]
      /\ \A u \in Tasks : InUse(u)' => InUse(u)
  BY <1>1 DEF FileTyped, Others, InUse, Reads
<1>3. (InContents' <=> InContents) /\ (InXattr' <=> InXattr)
  BY <1>2 DEF InContents, InXattr
<1>4. Reading(t) /\ Reading(t)' /\ ~Making(t)' /\ ~InUse(t)'
  BY <1>1, <1>2 DEF Reading, Reads, Making, InUse
<1>5. Calm(t)
  BY <1>1, <1>2, <1>3 DEF Calm, Others
<1>6. OneMeta' /\ Flagged'
  BY <1>1, <1>2, <1>3 DEF KeyInv, OneMeta, Flagged
<1>7. call[t] = "open" => ~inode'.valid \/ inode'.stray
  BY <1>1, <1>4 DEF Kept
<1>8. KeyGiven'
  BY <1>1, <1>2, <1>4, <1>7 DEF KeyGiven, Settling
<1>9. Free(t)'
  BY <1>1, <1>2, <1>4 DEF Free, LooksUpNew, Reads
<1>10. Kept(t)'
  <2>1. ASSUME NEW u \in Tasks, InUse(u)' PROVE mnt.passthrough /\ (~inode'.valid \/ inode'.stray)
    BY <1>1, <1>2, <1>4, <2>1 DEF Kept
  <2>. QED  BY <1>1, <1>2, <1>3, <1>4, <1>7, <2>1 DEF Kept, Reads
<1>. QED  BY <1>5, <1>6, <1>8, <1>9, <1>10, CalmKeeps

LEMMA OpenedKey ==
    ASSUME Control, KeyInv, NEW t \in Tasks, pc[t] \in Reads, NEW i, Opened(t, i), UNCHANGED <<mnt, lower>>,
           i.cached = inode.cached, i.new = inode.new, i.policy = inode.policy, i.sigs = inode.sigs,
           i.inXattr = inode.inXattr,
           \/ i.valid /\ IsMeta(Stored) /\ Stored.fek = i.fek
           \/ i.valid = inode.valid /\ i.stray = inode.stray /\ mnt.passthrough /\ call[t] = "open"
    PROVE  KeyInv'
<1>. USE DEF To, Opened
<1>1. /\ PlaceOf(t) /\ FileTyped /\ Free(t) /\ Kept(t) /\ call[t] \in {"open", "setattr"} /\ inode.new # t
      /\ (\A u \in Others(t) : inode.new # u) /\ (\A u \in Tasks : ~LooksUpNew(u)) /\ (InXattr => inode.inXattr)
      /\ (call[t] = "open" => inode.policy) /\ csMutex = t
  BY ReadsKeyIn
<1>2. /\ pc'[t] = IF call[t] = "setattr" THEN "attr read" ELSE "opened"
      /\ call' = call /\ mnt' = mnt /\ lower' = lower /\ inode' = i
      /\ \A u \in Others(t) : pc'[u] = pc[u] /\ call'[u] = call[u]
  BY <1>1 DEF FileTyped, Others
<1>3. (InContents' <=> InContents) /\ (InXattr' <=> InXattr) /\ Stored' = Stored
  BY <1>2 DEF InContents, InXattr, Stored
<1>5. Calm(t)
  BY <1>1, <1>2, <1>3 DEF Calm, Others
<1>6. OneMeta' /\ Flagged'
  BY <1>1, <1>2, <1>3 DEF KeyInv, OneMeta, Flagged
<1>7. KeyGiven'
  <2>1. call[t] = "open" => ~inode.valid \/ inode.stray
    BY <1>1 DEF Kept, Reading, Reads
  <2>. QED  BY <1>2, <1>3, <2>1 DEF KeyGiven, IsMeta
<1>8. ~LooksUpNew(t)' /\ ~Making(t)' /\ ~Reading(t)' /\ pc'[t] \in {"attr read", "opened"}
  BY <1>1, <1>2 DEF LooksUpNew, Making, Reading
<1>9. Free(t)' /\ Kept(t)'
  BY <1>1, <1>2, <1>8 DEF Free, Kept, InUse
<1>. QED  BY <1>5, <1>6, <1>7, <1>9, CalmKeeps

LEMMA MetadataKey ==
    ASSUME Control, KeyInv, NEW t \in Tasks, Metadata(t)
    PROVE  KeyInv'
<1>. USE DEF At
<1>0. inode \in Inode /\ PlaceOf(t) /\ FileTyped /\ Free(t) /\ Kept(t) /\ inode.cached \in BOOLEAN /\ OneMeta
  BY InodeFields DEF Control, FileTyped, KeyInv
<1>8. "put" \in Places /\ "opened" \in Places
  BY DEF Places, PlacesOf, Calls
<1>1. CASE read_or_initialize_metadata(t)
  <2>1. /\ pc[t] = "metadata" /\ csMutex = None /\ call[t] = "open" /\ inode.policy /\ Busy(t)
        /\ inode.new # t
    BY <1>1, ReadsKeyIn, NoTask DEF read_or_initialize_metadata
  <2>2. CASE inode.valid
    <3>1. pc' = [pc EXCEPT ![t] = "opened"] /\ UNCHANGED <<call, mnt, lower, inode>> /\ pc'[t] = "opened" /\ "opened" \in Places
      BY <1>0, <1>8, <1>1, <2>1, <2>2 DEF read_or_initialize_metadata, To, FileTyped
    <3>2. ~Settling(t) /\ ~LooksUpNew(t) /\ ~LooksUpNew(t)' /\ ~Making(t)' /\ ~Reading(t)'
      BY <2>1, <3>1 DEF Settling, Making, Reading, LooksUpNew
    <3>3. Free(t)' /\ Kept(t)'
      BY <2>1, <2>2, <3>1, <3>2 DEF Free, Kept
    <3>. QED  BY <2>1, <3>1, <3>2, <3>3, MovesKey
  <2>3. CASE ~inode.valid
    BY <1>1, <2>1, <2>3, StartsReadingKey DEF read_or_initialize_metadata
  <2>. QED  BY <2>2, <2>3
<1>2. CASE open_refused(t)
  <2>1. pc[t] = "metadata" /\ call[t] = "open" /\ inode.policy /\ Busy(t) /\ inode.new # t
    BY <1>2, ReadsKeyIn DEF open_refused
  <2>2. pc' = [pc EXCEPT ![t] = "put"] /\ UNCHANGED <<call, mnt, lower, inode>> /\ pc'[t] = "put" /\ "put" \in Places
    BY <1>0, <1>8, <1>2 DEF open_refused, To, FileTyped
  <2>3. ~Settling(t) /\ ~LooksUpNew(t) /\ ~LooksUpNew(t)' /\ ~Making(t)' /\ ~Reading(t)' /\ ~InUse(t)'
    BY <2>1, <2>2 DEF Settling, Making, Reading, LooksUpNew, InUse
  <2>4. Free(t)' /\ Kept(t)'
    BY <2>1, <2>2, <2>3 DEF Free, Kept
  <2>. QED  BY <2>1, <2>2, <2>3, <2>4, MovesKey
<1>3. CASE read_contents(t)
  <2>0. pc[t] = "contents" /\ pc[t] \in Reads /\ UNCHANGED <<mnt, lower>> /\ "parse contents" \in Reads /\ "xattr" \in Reads
    BY <1>3 DEF read_contents, read_headers, Reads
  <2>1. CASE inode' = inode /\ To(t, "xattr")
    BY <2>0, <2>1, ReadsOnKey
  <2>2. CASE IsMeta(lower.contents) /\ inode' = Headed(lower.contents, FALSE) /\ To(t, "parse contents")
    <3>1. /\ inode'.cached = inode.cached /\ inode'.new = inode.new /\ inode'.policy = inode.policy /\ inode'.sigs = inode.sigs
          /\ inode'.valid = inode.valid /\ inode'.stray = inode.stray /\ inode'.inXattr = FALSE
      BY <1>0, <2>2 DEF Headed, Inode
    <3>2. InContents /\ ~InXattr
      BY <1>0, <2>2 DEF OneMeta, InContents
    <3>. QED  BY <2>0, <2>2, <3>1, <3>2, ReadsOnKey
  <2>. QED  BY <1>3, <2>1, <2>2 DEF read_contents, read_headers
<1>4. CASE read_xattr(t)
  <2>0. pc[t] = "xattr" /\ pc[t] \in Reads /\ UNCHANGED <<mnt, lower>> /\ "parse xattr" \in Reads /\ "no metadata" \in Reads
    BY <1>4 DEF read_xattr, read_headers, Reads
  <2>1. CASE inode' = inode /\ To(t, "no metadata")
    BY <2>0, <2>1, ReadsOnKey
  <2>2. CASE IsMeta(lower.xattr) /\ inode' = Headed(lower.xattr, TRUE) /\ To(t, "parse xattr")
    <3>1. /\ inode'.cached = inode.cached /\ inode'.new = inode.new /\ inode'.policy = inode.policy /\ inode'.sigs = inode.sigs
          /\ inode'.valid = inode.valid /\ inode'.stray = inode.stray /\ inode'.inXattr
      BY <1>0, <2>2 DEF Headed, Inode
    <3>2. InXattr
      BY <2>2 DEF InXattr
    <3>. QED  BY <2>0, <2>2, <3>1, <3>2, ReadsOnKey
  <2>. QED  BY <1>4, <2>1, <2>2 DEF read_xattr, read_headers
<1>5. CASE parse_contents(t)
  <2>0. /\ pc[t] = "parse contents" /\ pc[t] \in Reads /\ "xattr" \in Reads /\ UNCHANGED <<mnt, lower>>
        /\ InContents /\ ~inode.inXattr
    BY <1>0, <1>5 DEF parse_contents, Reads, Kept
  <2>1. ASSUME NEW b \in BOOLEAN
        PROVE  /\ Keyed(lower.contents, b).cached = inode.cached /\ Keyed(lower.contents, b).new = inode.new
               /\ Keyed(lower.contents, b).policy = inode.policy /\ Keyed(lower.contents, b).sigs = inode.sigs
               /\ Keyed(lower.contents, b).inXattr = inode.inXattr
               /\ Keyed(lower.contents, b).valid /\ (Keyed(lower.contents, b).stray <=> b)
               /\ Keyed(lower.contents, b).fek = lower.contents.fek
    BY <1>0 DEF Keyed, Inode
  <2>2. CASE Opened(t, Keyed(lower.contents, FALSE))
    BY <2>0, <2>1, <2>2, OpenedKey DEF Stored, InContents
  <2>3. CASE inode' = Keyed(lower.contents, TRUE) /\ To(t, "xattr")
    BY <2>0, <2>1, <2>3, ReadsOnKey
  <2>4. CASE inode' = inode /\ To(t, "xattr")
    BY <2>0, <2>4, ReadsOnKey
  <2>. QED  BY <1>5, <2>2, <2>3, <2>4 DEF parse_contents
<1>6. CASE parse_xattr(t)
  <2>0. /\ pc[t] = "parse xattr" /\ pc[t] \in Reads /\ "no metadata" \in Reads /\ UNCHANGED <<mnt, lower>>
        /\ InXattr /\ inode.inXattr
    BY <1>0, <1>6, ReadsKeyIn DEF parse_xattr, Reads, Kept
  <2>1. ASSUME NEW b \in BOOLEAN
        PROVE  /\ Keyed(lower.xattr, b).cached = inode.cached /\ Keyed(lower.xattr, b).new = inode.new
               /\ Keyed(lower.xattr, b).policy = inode.policy /\ Keyed(lower.xattr, b).sigs = inode.sigs
               /\ Keyed(lower.xattr, b).inXattr = inode.inXattr
               /\ Keyed(lower.xattr, b).valid /\ (Keyed(lower.xattr, b).stray <=> b)
               /\ Keyed(lower.xattr, b).fek = lower.xattr.fek
    BY <1>0 DEF Keyed, Inode
  <2>2. CASE Opened(t, Keyed(lower.xattr, FALSE))
    BY <2>0, <2>1, <2>2, OpenedKey DEF Stored, InXattr
  <2>3. CASE inode' = Keyed(lower.xattr, TRUE) /\ To(t, "no metadata")
    BY <2>0, <2>1, <2>3, ReadsOnKey
  <2>4. CASE inode' = inode /\ To(t, "no metadata")
    BY <2>0, <2>4, ReadsOnKey
  <2>. QED  BY <1>6, <2>2, <2>3, <2>4 DEF parse_xattr
<1>7. CASE no_metadata(t)
  <2>0. /\ pc[t] = "no metadata" /\ pc[t] \in Reads /\ UNCHANGED <<mnt, lower>> /\ call[t] \in {"open", "setattr"}
        /\ Busy(t) /\ inode.new # t /\ csMutex = t /\ (call[t] = "open" => inode.policy)
    BY <1>7, ReadsKeyIn DEF no_metadata, Reads
  <2>1. CASE call[t] = "setattr"
    BY <1>7, <2>0, <2>1, ReadsOnKey DEF no_metadata
  <2>2. CASE call[t] = "open" /\ mnt.passthrough
    <3>1. Opened(t, [inode EXCEPT !.encrypted = FALSE, !.sized = FALSE])
      BY <1>7, <2>2 DEF no_metadata
    <3>2. PICK i : i = [inode EXCEPT !.encrypted = FALSE, !.sized = FALSE]
      OBVIOUS
    <3>3. i.cached = inode.cached /\ i.new = inode.new /\ i.policy = inode.policy /\ i.sigs = inode.sigs
          /\ i.inXattr = inode.inXattr /\ i.valid = inode.valid /\ i.stray = inode.stray
      BY <1>0, <3>2 DEF Inode
    <3>. QED  BY <2>0, <2>2, <3>1, <3>2, <3>3, OpenedKey
  <2>3. CASE call[t] = "open" /\ ~mnt.passthrough /\ ~mnt.xattr /\ ~lower.nonempty
    BY <1>7, <2>0, <2>3, ReadsOnKey DEF no_metadata
  <2>4. CASE call[t] = "open" /\ ~mnt.passthrough /\ ~(~mnt.xattr /\ ~lower.nonempty)
    <3>1. pc' = [pc EXCEPT ![t] = "put"] /\ UNCHANGED <<call, mnt, lower, inode>> /\ pc'[t] = "put" /\ "put" \in Places
      BY <1>0, <1>8, <1>7, <2>4 DEF no_metadata, To, FileTyped
    <3>2. (Settling(t) => ~inode.valid \/ inode.stray) /\ ~LooksUpNew(t) /\ ~LooksUpNew(t)' /\ ~Making(t)' /\ ~Reading(t)' /\ ~InUse(t)'
      BY <2>0, <2>4, <3>1 DEF Settling, Making, Reading, LooksUpNew, InUse
    <3>3. Free(t)' /\ Kept(t)'
      BY <2>0, <2>4, <3>1, <3>2 DEF Free, Kept
    <3>. QED  BY <2>0, <3>1, <3>2, <3>3, MovesKey
  <2>. QED  BY <2>0, <2>1, <2>2, <2>3, <2>4
<1>. QED  BY <1>1, <1>2, <1>3, <1>4, <1>5, <1>6, <1>7 DEF Metadata

LEMMA EndsKey ==
    ASSUME Control, KeyInv, NEW t \in Tasks, Busy(t), inode.new # t, ~Settling(t),
           pc' = [pc EXCEPT ![t] = "idle"], UNCHANGED <<call, mnt, lower, inode>>
    PROVE  KeyInv'
<1>1. pc'[t] = "idle" /\ "idle" \in Places
  BY PlacesTyped DEF Control, FileTyped, Places
<1>2. ~InUse(t)' /\ ~Making(t)' /\ ~Reading(t)' /\ ~LooksUpNew(t) /\ ~LooksUpNew(t)' /\ ~Busy(t)'
  BY <1>1 DEF InUse, Making, Reading, LooksUpNew, Busy
<1>3. Free(t)' /\ Kept(t)'
  BY <1>1, <1>2 DEF Free, Kept
<1>. QED  BY <1>1, <1>2, <1>3, MovesKey

LEMMA AttributesKey ==
    ASSUME Control, KeyInv, NEW t \in Tasks, Attributes(t)
    PROVE  KeyInv'
<1>. USE DEF At, To
<1>0. inode \in Inode /\ PlaceOf(t) /\ FileTyped /\ Free(t) /\ Kept(t) /\ call[t] \in Calls /\ OneMeta
  BY DEF Control, FileTyped, KeyInv
<1>1. CASE setattr_lock(t)
  <2>1. pc[t] = "attr" /\ Busy(t) /\ call[t] = "setattr" /\ inode.new # t /\ ~Settling(t) /\ UNCHANGED <<call, mnt, lower, inode>>
    BY <1>0, <1>1 DEF setattr_lock, PlaceOf, PlacesOf, Calls, Busy, Settling, Making, Reading
  <2>2. CASE inode.policy /\ inode.valid
    BY <1>1, <2>1, <2>2, EndsKey DEF setattr_lock
  <2>3. CASE ~(inode.policy /\ inode.valid)
    <3>1. pc' = [pc EXCEPT ![t] = "get"] /\ pc'[t] = "get" /\ call'[t] = "setattr"
      BY <1>0, <1>1, <2>1, <2>3 DEF setattr_lock, FileTyped
    <3>2. ~InUse(t)' /\ ~Making(t)' /\ ~Reading(t)' /\ ~LooksUpNew(t) /\ ~LooksUpNew(t)'
      BY <2>1, <3>1 DEF InUse, Making, Reading, LooksUpNew
    <3>3. Free(t)' /\ Kept(t)'
      BY <2>1, <2>3, <3>1, <3>2 DEF Free, Kept
    <3>4. "get" \in Places
      BY DEF Places, PlacesOf, Calls
    <3>. QED  BY <2>1, <3>1, <3>2, <3>3, <3>4, MovesKey
  <2>. QED  BY <2>2, <2>3
<1>2. CASE setattr_read_metadata(t)
  <2>1. pc[t] = "metadata" /\ csMutex = t /\ (~inode.policy \/ ~inode.valid)
    BY <1>0, <1>2, ReadsKeyIn DEF setattr_read_metadata, Kept
  <2>. QED  BY <1>2, <2>1, StartsReadingKey DEF setattr_read_metadata
<1>3. CASE setattr_end(t)
  <2>1. /\ pc[t] \in {"attr read", "attr fails"} /\ Busy(t) /\ call[t] = "setattr" /\ inode.new # t /\ csMutex = t
        /\ UNCHANGED <<call, mnt, lower>> /\ pc' = [pc EXCEPT ![t] = "idle"]
    BY <1>0, <1>3 DEF setattr_end, PlaceOf, PlacesOf, Calls, Busy, Section
  <2>2. CASE pc[t] = "attr read"
    <3>1. ~Settling(t) /\ UNCHANGED inode
      BY <1>3, <2>1, <2>2 DEF setattr_end, Settling, Making, Reading
    <3>. QED  BY <2>1, <3>1, EndsKey
  <2>3. CASE pc[t] = "attr fails"
    <3>1. inode' = [inode EXCEPT !.stray = inode.stray \/ inode.valid, !.encrypted = inode.encrypted /\ ~mnt.passthrough,
                                 !.sized = inode.sized /\ ~mnt.passthrough]
      BY <1>3, <2>3 DEF setattr_end
    <3>2. /\ inode'.cached = inode.cached /\ inode'.new = inode.new /\ inode'.policy = inode.policy /\ inode'.sigs = inode.sigs
          /\ inode'.inXattr = inode.inXattr /\ inode'.valid = inode.valid
          /\ inode.valid => inode'.stray
      BY <1>0, <3>1 DEF Inode
    <3>3. /\ pc'[t] = "idle" /\ \A u \in Others(t) : pc'[u] = pc[u] /\ call'[u] = call[u] /\ inode.new # u
      BY <1>0, <2>1, NoOthers DEF FileTyped, Others
    <3>4. ~InUse(t)' /\ ~Making(t)' /\ ~Reading(t)' /\ ~Busy(t)' /\ \A u \in Tasks : ~LooksUpNew(u) /\ ~LooksUpNew(u)'
      BY <2>1, <3>2, <3>3 DEF InUse, Making, Reading, LooksUpNew, Busy, Others
    <3>5. Free(t)' /\ Kept(t)'
      BY <3>3, <3>4 DEF Free, Kept
    <3>6. (InContents' <=> InContents) /\ (InXattr' <=> InXattr)
      BY <2>1 DEF InContents, InXattr
    <3>7. Calm(t)
      BY <2>1, <3>2, <3>3, <3>6 DEF Calm, Others
    <3>8. OneMeta' /\ Flagged' /\ KeyGiven'
      BY <2>1, <3>2, <3>4, <3>6 DEF KeyInv, OneMeta, Flagged, KeyGiven
    <3>. QED  BY <3>5, <3>7, <3>8, CalmKeeps
  <2>. QED  BY <2>1, <2>2, <2>3
<1>. QED  BY <1>1, <1>2, <1>3 DEF Attributes

LEMMA SizeKey ==
    ASSUME Control, KeyInv, NEW t \in Tasks, Size(t)
    PROVE  KeyInv'
<1>. USE DEF At, To, Sees
<1>0. /\ inode \in Inode /\ lower \in LowerFile /\ PlaceOf(t) /\ FileTyped /\ Free(t) /\ Kept(t) /\ call[t] \in Calls /\ OneMeta
      /\ Busy(t) /\ \A u \in Others(t) : inode.new # u
  <2>1. Busy(t)
    BY DEF Size, read_and_validate_header_region, read_and_validate_xattr_region, i_size_init, lookup_end,
         write_inode_size_to_metadata, write_inode_size_store, Busy
  <2>. QED  BY <2>1, NoOthers DEF Control, FileTyped, KeyInv
<1>1. PICK p \in {"stat set", "stat xattr", "stat set xattr", "stat end", "idle", "size store", "opened"} :
         /\ pc' = [pc EXCEPT ![t] = p] /\ UNCHANGED <<call, mnt>>
         /\ p = "stat set" => InContents
         /\ p = "stat set xattr" => InXattr
         /\ p = "stat end" /\ pc[t] = "stat xattr" => ~InXattr
         /\ p \in {"size store", "opened"} => pc[t] \in {"size", "size store"}
         /\ p \in {"stat set", "stat xattr"} => pc[t] = "stat"
         /\ p = "stat set xattr" => pc[t] = "stat xattr"
         /\ p = "stat end" => pc[t] \in {"stat xattr", "stat set", "stat set xattr"}
         /\ p = "idle" => pc[t] = "stat end"
  BY DEF Size, read_and_validate_header_region, read_and_validate_xattr_region, i_size_init, lookup_end,
       write_inode_size_to_metadata, write_inode_size_store, InContents, InXattr
<1>2. /\ p \in Places /\ pc'[t] = p /\ call'[t] = call[t]
      /\ \A u \in Others(t) : pc'[u] = pc[u] /\ call'[u] = call[u]
      /\ pc[t] \in {"size", "size store"} => call[t] = "open"
      /\ pc[t] \notin {"size", "size store"} => call[t] = "lookup"
  <2>1. p \in Places
    <3>1. p \in PlacesOf("lookup") \cup PlacesOf("open") \cup {"idle"} /\ {"lookup", "open"} \subseteq Calls
      BY <1>1 DEF PlacesOf, Calls
    <3>. QED  BY <3>1 DEF Places
  <2>. QED  BY <1>0, <1>1, <2>1 DEF FileTyped, Others, PlaceOf, PlacesOf, Calls
<1>3. /\ InUse(t)' => InUse(t)
      /\ ~Making(t) /\ ~Making(t)' /\ ~Reading(t) /\ ~Reading(t)' /\ ~Settling(t)
      /\ Busy(t)' /\ call[t] = "open" => inode.policy
  BY <1>0, <1>1, <1>2 DEF InUse, Making, Reading, Settling, Free
<1>4. /\ inode.valid => inode'.valid
      /\ inode.policy => inode'.policy
      /\ (InContents => InContents') /\ (InXattr => InXattr')
      /\ (LooksUpNew(t)' => ~inode'.valid)
      => Free(t)' /\ Kept(t)'
  BY <1>0, <1>1, <1>2, <1>3 DEF Free, Kept
<1>5. CASE read_and_validate_header_region(t) \/ read_and_validate_xattr_region(t) \/ write_inode_size_to_metadata(t)
  <2>1. UNCHANGED <<lower, inode>> /\ p # "idle" /\ pc[t] \notin {"stat set", "stat set xattr", "stat end"}
    BY <1>0, <1>1, <1>2, <1>5 DEF read_and_validate_header_region, read_and_validate_xattr_region, write_inode_size_to_metadata
  <2>2. LooksUpNew(t)' <=> LooksUpNew(t)
    BY <1>2, <2>1 DEF LooksUpNew
  <2>3. Free(t)' /\ Kept(t)'
    BY <1>0, <1>4, <2>1, <2>2 DEF Free, InContents, InXattr
  <2>. QED  BY <1>0, <1>1, <1>2, <1>3, <2>1, <2>2, <2>3, MovesKey
<1>6. CASE i_size_init(t)
  <2>1. /\ pc[t] \in {"stat set", "stat set xattr"} /\ p = "stat end" /\ lower' = lower
        /\ inode' = [inode EXCEPT !.size = seen[t], !.sized = TRUE, !.inXattr = @ \/ pc[t] = "stat set xattr"]
    BY <1>1, <1>2, <1>6 DEF i_size_init
  <2>2. /\ inode'.cached = inode.cached /\ inode'.new = inode.new /\ inode'.policy = inode.policy /\ inode'.sigs = inode.sigs
        /\ inode'.valid = inode.valid /\ inode'.stray = inode.stray /\ inode'.fek = inode.fek
        /\ inode'.inXattr <=> inode.inXattr \/ pc[t] = "stat set xattr"
    BY <1>0, <2>1 DEF Inode
  <2>3. (InContents' <=> InContents) /\ (InXattr' <=> InXattr) /\ (pc[t] = "stat set xattr" <=> InXattr)
    BY <1>0, <2>1 DEF Free, OneMeta, InContents, InXattr
  <2>4. LooksUpNew(t)' <=> LooksUpNew(t)
    BY <1>2, <2>2 DEF LooksUpNew
  <2>5. Free(t)' /\ Kept(t)'
    BY <1>0, <1>4, <2>2, <2>3, <2>4 DEF Free
  <2>6. CASE inode.new = t
    <3>1. Calm(t)
      BY <1>0, <1>1, <1>2, <1>3, <2>1, <2>2, <2>3 DEF Calm, Others
    <3>2. ~inode.valid
      BY <1>0, <1>2, <2>1, <2>6 DEF Free, LooksUpNew
    <3>3. OneMeta' /\ Flagged' /\ KeyGiven'
      BY <1>0, <2>1, <2>2, <2>3, <3>2 DEF OneMeta, Flagged, KeyGiven
    <3>. QED  BY <2>5, <3>1, <3>3, CalmKeeps
  <2>7. CASE inode.new # t
    <3>1. \A u \in Tasks : ~LooksUpNew(u)
      BY <1>0, <2>7 DEF LooksUpNew, Others
    <3>2. InXattr => inode.inXattr
      BY <1>0, <3>1 DEF KeyInv, Flagged, PlaceOf
    <3>3. SameKey /\ SameMeta
      BY <1>1, <2>1, <2>2, <2>3, <3>2 DEF SameKey, SameMeta
    <3>. QED  BY <1>0, <1>2, <1>3, <2>1, <2>2, <2>5, <3>1, <3>3, SteadyKeeps
  <2>. QED  BY <2>6, <2>7
<1>7. CASE lookup_end(t)
  <2>1. pc[t] = "stat end" /\ lower' = lower /\ inode' = [inode EXCEPT !.new = IF @ = t THEN None ELSE @]
    BY <1>7 DEF lookup_end
  <2>2. /\ SameKey /\ SameMeta /\ inode'.new # t /\ \A u \in Others(t) : inode'.new # u
    BY <1>0, <1>1, <2>1, NoTask DEF SameKey, SameMeta, Inode, Others
  <2>3. ~LooksUpNew(t)' /\ (InContents' <=> InContents) /\ (InXattr' <=> InXattr)
    BY <2>1, <2>2 DEF LooksUpNew, InContents, InXattr
  <2>4. Free(t)' /\ Kept(t)'
    BY <1>4, <2>2, <2>3 DEF SameKey
  <2>. QED  BY <1>0, <1>2, <1>3, <2>1, <2>2, <2>4, SteadyKeeps
<1>8. CASE write_inode_size_store(t)
  <2>1. pc[t] = "size store" /\ inode' = inode /\ InUse(t)
    BY <1>8 DEF write_inode_size_store, InUse
  <2>2. SameKey /\ SameMeta
    BY <1>0, <1>1, <1>8, <2>1 DEF write_inode_size_store, SameKey, SameMeta, LowerFile, Meta
  <2>3. ~LooksUpNew(t) /\ ~LooksUpNew(t)' /\ (InContents' <=> InContents) /\ (InXattr' <=> InXattr)
    BY <1>2, <2>1, <2>2 DEF LooksUpNew, InContents, InXattr, IsMeta, SameMeta
  <2>4. Free(t)' /\ Kept(t)'
    BY <1>4, <2>1, <2>3
  <2>. QED  BY <1>0, <1>2, <1>3, <2>1, <2>2, <2>3, <2>4, SteadyKeeps
<1>. QED  BY <1>5, <1>6, <1>7, <1>8 DEF Size

(* A new inode: no other task is in a call.                                *)
LEMMA FreshKey ==
    ASSUME Control, Control', KeyInv, NEW t \in Tasks, inode' = Fresh(t), OneMeta',
           \/ pc'[t] = "get" /\ call'[t] = "lookup"
           \/ pc'[t] = "context" /\ call'[t] = "create" /\ ~InContents' /\ ~InXattr'
    PROVE  KeyInv'
<1>1. inode'.new = t /\ ~inode'.valid /\ pc'[t] \notin {"idle", "mount"}
  BY DEF Fresh, Gone
<1>2. \A u \in Others(t) : pc'[u] = "idle"
  BY <1>1 DEF Control, Alone, Others
<1>3. \A u \in Others(t) : Free(u)' /\ Kept(u)'
  BY <1>1, <1>2 DEF Free, Kept, LooksUpNew, Making, Reading, InUse, Busy, Others
<1>4. \A u \in Tasks : ~InUse(u)'
  BY <1>2 DEF InUse, Others
<1>5. Free(t)' /\ Kept(t)'
  BY <1>1 DEF Free, Kept, LooksUpNew, Making, Reading, InUse
<1>6. Flagged' /\ KeyGiven'
  BY <1>1 DEF Flagged, KeyGiven, LooksUpNew
<1>. QED  BY <1>3, <1>5, <1>6 DEF KeyInv, Others

LEMMA CallingKey ==
    ASSUME Control, Control', KeyInv, NEW t \in Tasks, Calling(t)
    PROVE  KeyInv'
<1>. USE DEF Call
<1>0. /\ inode \in Inode /\ PlaceOf(t) /\ FileTyped /\ Free(t) /\ Kept(t) /\ OneMeta /\ pc[t] = "idle" /\ mnt' = mnt
      /\ ~Settling(t) /\ ~LooksUpNew(t) /\ None \notin Others(t)
  <2>1. inode \in Inode /\ PlaceOf(t) /\ FileTyped /\ Free(t) /\ Kept(t) /\ OneMeta /\ pc[t] = "idle" /\ mnt' = mnt
    BY DEF Control, FileTyped, KeyInv, Calling, create, lookup, open, setattr
  <2>. QED  BY <2>1, NoTask DEF Settling, Making, Reading, LooksUpNew, PlaceOf, Busy, Others
<1>1. /\ create(t) => pc' = [pc EXCEPT ![t] = "context"] /\ call' = [call EXCEPT ![t] = "create"]
      /\ lookup(t) => pc' = [pc EXCEPT ![t] = "get"] /\ call' = [call EXCEPT ![t] = "lookup"]
      /\ open(t) => pc' = [pc EXCEPT ![t] = "get"] /\ call' = [call EXCEPT ![t] = "open"]
      /\ setattr(t) => pc' = [pc EXCEPT ![t] = "attr"] /\ call' = [call EXCEPT ![t] = "setattr"]
  BY DEF create, lookup, open, setattr
<1>2. /\ create(t) => pc'[t] = "context" /\ call'[t] = "create"
      /\ lookup(t) => pc'[t] = "get" /\ call'[t] = "lookup"
      /\ open(t) => pc'[t] = "get" /\ call'[t] = "open"
      /\ setattr(t) => pc'[t] = "attr" /\ call'[t] = "setattr"
      /\ \A u \in Others(t) : pc'[u] = pc[u] /\ call'[u] = call[u]
  BY <1>0, <1>1 DEF FileTyped, Others, Calling
<1>3. CASE create(t)
  <2>1. inode' = Fresh(t) /\ ~InContents' /\ ~InXattr' /\ OneMeta'
    BY <1>3 DEF create, NoFile, NoMeta, InContents, InXattr, IsMeta, OneMeta
  <2>. QED  BY <1>2, <1>3, <2>1, FreshKey
<1>4. CASE lookup(t) /\ ~inode.cached
  <2>1. inode' = Fresh(t) /\ lower' = lower
    BY <1>4 DEF lookup
  <2>2. OneMeta'
    BY <1>0, <2>1 DEF OneMeta, InContents, InXattr
  <2>. QED  BY <1>2, <1>4, <2>1, <2>2, FreshKey
<1>5. CASE (lookup(t) /\ inode.cached) \/ setattr(t)
  <2>1. UNCHANGED <<lower, inode>> /\ inode.new = None
        /\ ((pc'[t] = "get" /\ call'[t] = "lookup") \/ (pc'[t] = "attr" /\ call'[t] = "setattr"))
    BY <1>2, <1>5 DEF lookup, setattr
  <2>2. SameKey /\ SameMeta
    BY <1>0, <2>1 DEF SameKey, SameMeta
  <2>3. ~InUse(t)' /\ ~Making(t)' /\ ~Reading(t)' /\ ~LooksUpNew(t)'
    BY <1>2, <2>1, NoTask DEF InUse, Making, Reading, LooksUpNew
  <2>4. Free(t)' /\ Kept(t)'
    BY <1>2, <2>1, <2>3 DEF Free, Kept
  <2>. QED  BY <1>0, <1>2, <2>1, <2>2, <2>3, <2>4, SteadyKeeps
<1>6. CASE open(t)
  <2>1. /\ lower' = lower /\ inode.new = None /\ csMutex = None /\ pc'[t] = "get" /\ call'[t] = "open"
        /\ inode'.cached = inode.cached /\ inode'.new = inode.new /\ inode'.valid = inode.valid /\ inode'.stray = inode.stray
        /\ inode'.sigs = inode.sigs /\ inode'.fek = inode.fek /\ inode'.inXattr = inode.inXattr /\ inode'.policy
    BY <1>0, <1>2, <1>6 DEF open, Inode
  <2>2. (InContents' <=> InContents) /\ (InXattr' <=> InXattr) /\ Stored' = Stored
    BY <2>1 DEF InContents, InXattr, Stored
  <2>3. ~InUse(t)' /\ ~Making(t)' /\ ~Reading(t)' /\ \A u \in Tasks : ~LooksUpNew(u) /\ ~LooksUpNew(u)'
    BY <1>2, <2>1, NoTask DEF InUse, Making, Reading, LooksUpNew
  <2>4. Calm(t)
    BY <1>0, <1>2, <2>1, <2>2 DEF Calm, Others
  <2>5. Free(t)' /\ Kept(t)'
    BY <1>2, <2>1, <2>3 DEF Free, Kept
  <2>6. OneMeta' /\ Flagged'
    BY <2>1, <2>2, <2>3 DEF KeyInv, OneMeta, Flagged
  <2>7. KeyGiven'
    <3>. SUFFICES ASSUME inode.cached, inode.valid, ~inode.stray, \A u \in Tasks : ~Settling(u)'
                  PROVE  IsMeta(Stored) /\ Stored.fek = inode.fek
      BY <2>1, <2>2 DEF KeyGiven, IsMeta
    <3>1. ASSUME NEW u \in Tasks PROVE ~Settling(u)
      BY <1>0, <1>2 DEF Settling, Making, Reading, Others
    <3>. QED  BY <3>1 DEF KeyInv, KeyGiven
  <2>. QED  BY <2>4, <2>5, <2>6, <2>7, CalmKeeps
<1>. QED  BY <1>3, <1>4, <1>5, <1>6 DEF Calling

LEMMA WritingKey ==
    ASSUME Control, KeyInv, NEW t \in Tasks, write(t) \/ release(t)
    PROVE  KeyInv'
<1>. USE DEF At, To
<1>0. /\ inode \in Inode /\ lower \in LowerFile /\ PlaceOf(t) /\ FileTyped /\ Free(t) /\ call[t] \in Calls
      /\ Busy(t) /\ \A u \in Others(t) : inode.new # u
  <2>1. Busy(t)
    BY DEF write, release, Busy
  <2>. QED  BY <2>1, NoOthers DEF Control, FileTyped, KeyInv
<1>1. PICK p \in {"size", "put"} : pc' = [pc EXCEPT ![t] = p] /\ UNCHANGED <<call, mnt>> /\ pc[t] = "opened"
  BY DEF write, release
<1>2. /\ pc'[t] = p /\ call'[t] = call[t] /\ call[t] = "open" /\ inode.new # t
      /\ \A u \in Others(t) : pc'[u] = pc[u] /\ call'[u] = call[u]
  BY <1>0, <1>1 DEF FileTyped, Others, PlaceOf, PlacesOf, Calls, Busy
<1>3. SameKey /\ SameMeta /\ inode'.new = inode.new
  <2>1. CASE write(t)
    BY <1>0, <1>1, <2>1 DEF write, SameKey, SameMeta, Inode, LowerFile
  <2>2. CASE release(t)
    BY <1>0, <1>1, <2>2 DEF release, SameKey, SameMeta
  <2>. QED  BY <2>1, <2>2
<1>4. InUse(t) /\ ~Settling(t) /\ ~Making(t)' /\ ~Reading(t)' /\ ~LooksUpNew(t) /\ ~LooksUpNew(t)'
  BY <1>1, <1>2, <1>3 DEF InUse, Settling, Making, Reading, LooksUpNew
<1>5. Free(t)' /\ Kept(t)'
  BY <1>0, <1>1, <1>2, <1>3, <1>4 DEF Free, Kept, SameKey
<1>. QED  BY <1>0, <1>2, <1>3, <1>4, <1>5, SteadyKeeps

LEMMA MountingKey ==
    ASSUME Control, KeyInv, NEW t \in Tasks, Mounting(t)
    PROVE  KeyInv'
<1>0. FileTyped /\ PlaceOf(t) /\ (\A u \in Tasks : PlaceOf(u) /\ ~Busy(u)) /\ UNCHANGED <<mnt, lower, inode, call>>
  BY DEF Control, Alone, Mounting, mount, mount_end, At, To, Busy
<1>1. pc'[t] \in {"idle", "mount"} /\ \A u \in Others(t) : pc'[u] = pc[u] /\ call'[u] = call[u]
  BY <1>0 DEF Mounting, mount, mount_end, To, FileTyped, Others
<1>2. /\ SameKey /\ SameMeta /\ \A u \in Tasks : inode.new # u /\ inode'.new # u
      /\ ~Settling(t) /\ ~InUse(t)' /\ ~Making(t)' /\ ~Reading(t)' /\ ~LooksUpNew(t) /\ ~LooksUpNew(t)' /\ ~Busy(t)'
  BY <1>0, <1>1 DEF SameKey, SameMeta, PlaceOf, Settling, Making, Reading, InUse, LooksUpNew, Busy
<1>3. Free(t)' /\ Kept(t)'
  BY <1>1, <1>2 DEF Free, Kept
<1>. QED  BY <1>0, <1>1, <1>2, <1>3, SteadyKeeps DEF Others

THEOREM KeyInvStep == Control /\ Control' /\ KeyInv /\ [Next]_vars => KeyInv'
<1>. SUFFICES ASSUME Control, Control', KeyInv, [Next]_vars PROVE KeyInv'
  OBVIOUS
<1>1. CASE UNCHANGED vars
  BY <1>1, UnmovedKey DEF vars, taskVars
<1>2. CASE \E t \in Tasks : Step(t)
  <2>1. PICK t \in Tasks : Step(t)
    BY <1>2
  <2>2. CASE keys(t)
    BY <2>2, UnmovedKey DEF keys, taskVars
  <2>. QED  BY <2>1, <2>2, GetsAndPutsKey, InitializeKey, MetadataKey, SizeKey, AttributesKey, MountingKey DEF Step, Mounting
<1>3. CASE \E t \in Tasks : mount(t) \/ create(t) \/ lookup(t) \/ open(t) \/ write(t) \/ release(t) \/ setattr(t)
  BY <1>3, MountingKey, CallingKey, WritingKey DEF Mounting, Calling
<1>4. CASE \E k \in Sigs : user(k)
  BY <1>4, UnmovedKey DEF user, taskVars
<1>5. CASE ecryptfs_evict_inode
  <2>1. inode' = Gone /\ lower' = lower
    BY <1>5 DEF ecryptfs_evict_inode
  <2>2. OneMeta'
    BY <2>1 DEF KeyInv, OneMeta, InContents, InXattr
  <2>. QED  BY <2>1, <2>2, GoneKeepsKey, Records
<1>6. CASE kill_block_super
  BY <1>6, UnmovedKey DEF kill_block_super, taskVars
<1>. QED  BY <1>1, <1>2, <1>3, <1>4, <1>5, <1>6 DEF Next

THEOREM KeyInvInit == Init => KeyInv
<1>. SUFFICES ASSUME Init PROVE KeyInv
  OBVIOUS
<1>1. inode = Gone /\ ~inode.cached /\ ~inode.valid /\ inode.new = None /\ lower \in Files
      /\ \A t \in Tasks : pc[t] = "idle" /\ ~Busy(t) /\ ~LooksUpNew(t)
  BY NoTask DEF Init, Gone, Busy, LooksUpNew
<1>2. OneMeta
  BY <1>1, OpenAssumption DEF OneMeta, InContents, InXattr
<1>3. \A t \in Tasks : Free(t) /\ Kept(t)
  BY <1>1 DEF Free, Kept, Making, Reading, InUse
<1>. QED  BY <1>1, <1>2, <1>3 DEF KeyInv, Flagged, KeyGiven

(* An opened file has its key, and the metadata in the lower file give it, *)
(* whoever created, initialised or read them (ecryptfs_open, create and    *)
(* setattr, with ecryptfs_read_metadata and ecryptfs_write_metadata).      *)
THEOREM KeyAlwaysStored == Spec => []KeyStored
<1>1. Init => OpenIInv /\ KeyInv
  BY ControlInit, CountedInit, KeysHeldInit, KeyInvInit DEF OpenIInv
<1>2. OpenIInv /\ KeyInv /\ [Next]_vars => (OpenIInv /\ KeyInv)'
  BY ControlStep, CountedStep, KeysHeldStep, KeyInvStep DEF OpenIInv
<1>3. OpenIInv /\ KeyInv => KeyStored
  <2>. SUFFICES ASSUME Control, KeyInv, NEW t \in Tasks, pc[t] = "opened", ~inode.stray, inode.valid \/ ~mnt.passthrough
                PROVE  inode.valid /\ IsMeta(Stored) /\ Stored.fek = inode.fek
    BY DEF KeyStored, OpenIInv
  <2>1. InUse(t) /\ inode.cached /\ inode.valid
    BY DEF KeyInv, Free, InUse, Control, PlaceOf, Busy
  <2>2. ASSUME NEW u \in Tasks PROVE ~Settling(u)
    <3>1. PlaceOf(u) /\ Kept(u) /\ call[u] \in Calls
      BY DEF Control, FileTyped, KeyInv
    <3>2. ~(Reading(u) \/ (Making(u) /\ call[u] = "open"))
      BY <2>1, <3>1 DEF Kept
    <3>3. Making(u) => call[u] = "open"
      <4>1. ASSUME call[u] = "create", Busy(u) PROVE FALSE
        <5>1. inode.new = u
          BY <3>1, <4>1 DEF PlaceOf
        <5>2. u = t
          BY <5>1 DEF Control, Alone
        <5>. QED  BY <3>1, <4>1, <5>2 DEF PlaceOf, PlacesOf
      <4>. QED  BY <3>1, <4>1 DEF Making, PlaceOf, PlacesOf, Calls, Busy
    <3>. QED  BY <3>2, <3>3 DEF Settling
  <2>. QED  BY <2>1, <2>2 DEF KeyInv, KeyGiven
<1>. QED  BY <1>1, <1>2, <1>3, PTL DEF Spec
-----------------------------------------------------------------------------
(* The size of a file and the stored one.                                  *)
Writing(t) == pc[t] \in {"size", "size store"}
Setting(t) == pc[t] \in {"stat set", "stat set xattr"}
Having == InContents \/ InXattr
MetaSize == IF InContents THEN lower.contents.size ELSE lower.xattr.size

(* The metadata are in the contents, but the sizes that writes store go to *)
(* the xattr: a flag that reading the metadata clears and an open may set. *)
Misled == inode.policy /\ inode.valid /\ InContents /\ inode.inXattr

(* The inode's size has been set, or the next reading of the metadata will *)
(* set it; then it is the stored one.                                      *)
Fixed == inode.sized \/ ~inode.policy \/ (inode.valid /\ inode.encrypted)
Due == /\ ~Misled
       /\ \/ inode.sized /\ ~inode.encrypted
          \/ Fixed /\ \A t \in Tasks : ~Writing(t)

(* The other calls know the inode.                                         *)
Shown(t) == LooksUpNew(t) => pc[t] = "stat end"
Known == inode.cached /\ \A t \in Tasks : Shown(t)
SizeEqual == Having /\ Known /\ ~stale => MetaSize <= inode.size /\ (Due => inode.size = MetaSize)

Empty == ~lower.nonempty => inode.size = 0 /\ lower.xattr.size = 0

(* A file used while it has no key is one that a call is reading.          *)
Plain == (\E t \in Tasks : InUse(t)) /\ ~inode.valid /\ inode.encrypted
         => (\E t \in Tasks : Reading(t)) /\ (InContents => ~inode.inXattr)

SizeAt(t) ==
  /\ ~lower.nonempty => ~Writing(t) /\ (Setting(t) => seen[t] = 0)
  /\ ~stale /\ Setting(t) => seen[t] <= MetaSize /\ (inode.new = t => seen[t] = MetaSize)
  /\ LooksUpNew(t) /\ pc[t] = "stat xattr" => ~InContents
  /\ call[t] = "create" /\ Busy(t) => ~lower.nonempty
  /\ pc[t] = "contents" => ~inode.policy \/ ~inode.valid
  /\ pc[t] \in {"parse contents", "parse xattr"} => inode.sized

SizeInv == Empty /\ Plain /\ SizeEqual /\ \A t \in Tasks : SizeAt(t)

LEMMA SizesTyped ==
    ASSUME FileTyped
    PROVE  /\ MetaSize \in Nat /\ inode.size \in Nat /\ lower.xattr.size \in Nat /\ lower.contents.size \in Nat
           /\ \A t \in Tasks : seen[t] \in Nat
<1>1. inode \in Inode /\ lower \in LowerFile /\ seen \in [Tasks -> Nat]
  BY DEF FileTyped
<1>2. lower.contents.size \in Nat /\ lower.xattr.size \in Nat
  BY <1>1, LowerFields
<1>3. inode.size \in Nat
  BY <1>1, InodeFields
<1>. QED  BY <1>1, <1>2, <1>3 DEF MetaSize

LEMMA SizesTypedNext ==
    ASSUME FileTyped'
    PROVE  /\ MetaSize' \in Nat /\ inode'.size \in Nat /\ lower'.xattr.size \in Nat /\ lower'.contents.size \in Nat
<1>1. inode' \in Inode /\ lower' \in LowerFile
  BY DEF FileTyped
<1>2. lower'.contents.size \in Nat /\ lower'.xattr.size \in Nat
  BY <1>1, LowerFields
<1>3. inode'.size \in Nat
  BY <1>1, InodeFields
<1>. QED  BY <1>2, <1>3 DEF MetaSize

(* A step of one task that leaves the others what they rely on.            *)
SizeCalm(t) ==
  /\ \A u \in Others(t) : pc'[u] = pc[u] /\ call'[u] = call[u] /\ seen'[u] = seen[u] /\ inode.new # u /\ inode'.new # u
  /\ lower.nonempty => lower'.nonempty
  /\ stale => stale'
  /\ Having /\ ~stale' => MetaSize <= MetaSize'
  /\ csMutex \in Others(t) => /\ (inode'.policy <=> inode.policy) /\ (inode'.valid <=> inode.valid)
                              /\ inode.sized => inode'.sized

LEMMA OthersSize ==
    ASSUME Control, FileTyped', KeyInv, SizeInv, NEW t \in Tasks, SizeCalm(t), NEW u \in Others(t)
    PROVE  SizeAt(u)'
<1>0. /\ u \in Tasks /\ pc'[u] = pc[u] /\ call'[u] = call[u] /\ seen'[u] = seen[u] /\ inode.new # u /\ inode'.new # u
      /\ PlaceOf(u) /\ Free(u) /\ SizeAt(u)
  BY DEF SizeCalm, Others, Control, KeyInv, SizeInv
<1>1. ~LooksUpNew(u)' /\ ~(call'[u] = "create" /\ Busy(u)') /\ (Writing(u)' <=> Writing(u)) /\ (Setting(u)' <=> Setting(u))
  BY <1>0 DEF LooksUpNew, PlaceOf, Busy, Writing, Setting
<1>2. ~lower'.nonempty => ~Writing(u)' /\ (Setting(u)' => seen'[u] = 0)
  BY <1>0, <1>1 DEF SizeAt, SizeCalm
<1>3. ASSUME ~stale', Setting(u)' PROVE seen'[u] <= MetaSize'
  <2>1. Having
    BY <1>0, <1>1, <1>3 DEF Setting, Free, Having
  <2>2. MetaSize <= MetaSize' /\ seen[u] <= MetaSize
    BY <1>0, <1>1, <1>3, <2>1 DEF SizeCalm, SizeAt
  <2>3. MetaSize \in Nat /\ MetaSize' \in Nat /\ seen[u] \in Nat
    BY <1>0, SizesTyped, SizesTypedNext DEF Control
  <2>. QED  BY <1>0, <2>2, <2>3
<1>4. pc[u] \in {"contents", "parse contents", "parse xattr"} => csMutex \in Others(t)
  BY <1>0 DEF PlaceOf, Section, Busy
<1>5. pc'[u] = "contents" => ~inode'.policy \/ ~inode'.valid
  BY <1>0, <1>4 DEF SizeAt, SizeCalm
<1>6. pc'[u] \in {"parse contents", "parse xattr"} => inode'.sized
  BY <1>0, <1>4 DEF SizeAt, SizeCalm
<1>. QED  BY <1>0, <1>1, <1>2, <1>3, <1>5, <1>6 DEF SizeAt

LEMMA CalmSize ==
    ASSUME Control, FileTyped', KeyInv, SizeInv, NEW t \in Tasks, SizeCalm(t), Empty', Plain', SizeEqual', SizeAt(t)'
    PROVE  SizeInv'
<1>1. \A u \in Tasks : SizeAt(u)'
  BY OthersSize DEF Others
<1>. QED  BY <1>1 DEF SizeInv

(* A step that leaves the sizes and what says whether they are equal.      *)
SameSize ==
  /\ lower'.contents = lower.contents /\ lower'.xattr = lower.xattr
  /\ lower.nonempty => lower'.nonempty
  /\ inode'.size = inode.size /\ (inode'.sized <=> inode.sized)
  /\ (inode'.cached <=> inode.cached) /\ (inode'.policy <=> inode.policy) /\ (inode'.valid <=> inode.valid)
  /\ (inode'.encrypted <=> inode.encrypted) /\ (inode'.inXattr <=> inode.inXattr)
  /\ stale' = stale

LEMMA SteadySize ==
    ASSUME Control, FileTyped', KeyInv, SizeInv, NEW t \in Tasks, SameSize,
           \A u \in Others(t) : pc'[u] = pc[u] /\ call'[u] = call[u] /\ seen'[u] = seen[u] /\ inode.new # u /\ inode'.new # u,
           InUse(t)' => InUse(t) \/ inode.valid,
           Reading(t) => Reading(t)' \/ inode.valid \/ ~inode.encrypted \/ \A u \in Tasks : ~InUse(u),
           Writing(t) => Writing(t)',
           Shown(t)' => Shown(t) \/ ~Having,
           SizeAt(t)'
    PROVE  SizeInv'
<1>1. (InContents' <=> InContents) /\ (Having' <=> Having) /\ MetaSize' = MetaSize /\ MetaSize \in Nat
  BY SizesTyped DEF InContents, InXattr, SameSize, Having, MetaSize, Control
<1>2. SizeCalm(t)
  BY <1>1 DEF SizeCalm, SameSize
<1>3. Empty'
  BY DEF SizeInv, Empty, SameSize
<1>4. Plain'
  <2>. SUFFICES ASSUME NEW u \in Tasks, InUse(u)', ~inode.valid, inode.encrypted
                PROVE  (\E v \in Tasks : Reading(v)') /\ (InContents => ~inode.inXattr)
    BY <1>1 DEF Plain, SameSize
  <2>1. InUse(u)
    BY DEF InUse, Others
  <2>2. PICK v \in Tasks : Reading(v)
    BY <2>1 DEF SizeInv, Plain
  <2>3. Reading(v)'
    <3>1. CASE v = t
      BY <2>1, <2>2, <3>1
    <3>2. CASE v # t
      <4>1. pc'[v] = pc[v] /\ call'[v] = call[v]
        BY <3>2 DEF Others
      <4>. QED  BY <2>2, <4>1 DEF Reading
    <3>. QED  BY <3>1, <3>2
  <2>. QED  BY <2>1, <2>3 DEF SizeInv, Plain
<1>5. SizeEqual'
  <2>. SUFFICES ASSUME Having, Known', ~stale PROVE MetaSize <= inode.size /\ (Due' => inode.size = MetaSize)
    BY <1>1 DEF SizeEqual, SameSize
  <2>1. Known
    <3>1. ASSUME NEW u \in Tasks, Shown(u)' PROVE Shown(u)
      BY <3>1 DEF Shown, LooksUpNew, Others
    <3>. QED  BY <3>1 DEF Known, SameSize
  <2>2. Due' => Due
    <3>1. ASSUME NEW u \in Tasks, Writing(u) PROVE Writing(u)'
      BY <3>1 DEF Writing, Others
    <3>. QED  BY <1>1, <3>1 DEF Due, Misled, Fixed, SameSize
  <2>. QED  BY <2>1, <2>2 DEF SizeInv, SizeEqual
<1>. QED  BY <1>2, <1>3, <1>4, <1>5, CalmSize

LEMMA MovesSize ==
    ASSUME Control, FileTyped', KeyInv, SizeInv, NEW t \in Tasks, Busy(t), NEW p \in Places, pc' = [pc EXCEPT ![t] = p],
           UNCHANGED <<call, lower, inode, stale>>, \A u \in Others(t) : seen'[u] = seen[u],
           InUse(t)' => InUse(t) \/ inode.valid,
           Reading(t) => Reading(t)' \/ inode.valid \/ ~inode.encrypted \/ \A u \in Tasks : ~InUse(u),
           Writing(t) => Writing(t)',
           Shown(t)' => Shown(t) \/ ~Having,
           SizeAt(t)'
    PROVE  SizeInv'
<1>1. \A u \in Others(t) : pc'[u] = pc[u] /\ call'[u] = call[u] /\ seen'[u] = seen[u] /\ inode.new # u /\ inode'.new # u
  BY NoOthers DEF Control, FileTyped, Others
<1>2. SameSize
  BY DEF SameSize
<1>. QED  BY <1>1, <1>2, SteadySize

(* Nobody is left in a call, and the inode is dropped.                     *)
LEMMA GoneKeepsSize ==
    ASSUME Control', Empty', ~inode'.cached
    PROVE  SizeInv'
<1>1. \A u \in Tasks : ~Busy(u)' /\ ~LooksUpNew(u)'
  BY DEF Control, PlaceOf, LooksUpNew
<1>2. \A u \in Tasks : SizeAt(u)' /\ ~InUse(u)'
  BY <1>1 DEF SizeAt, Busy, Writing, Setting, InUse
<1>. QED  BY <1>2 DEF SizeInv, Plain, SizeEqual, Known

LEMMA UnmovedSize ==
    ASSUME SizeInv, UNCHANGED <<lower, inode, pc, call, seen, stale>>
    PROVE  SizeInv'
<1>1. (InContents' <=> InContents) /\ (Having' <=> Having) /\ MetaSize' = MetaSize
  BY DEF InContents, InXattr, Having, MetaSize
<1>2. \A t \in Tasks : /\ (InUse(t)' <=> InUse(t)) /\ (Reading(t)' <=> Reading(t)) /\ (Writing(t)' <=> Writing(t))
                       /\ (LooksUpNew(t)' <=> LooksUpNew(t)) /\ (Busy(t)' <=> Busy(t)) /\ (Setting(t)' <=> Setting(t))
  BY DEF InUse, Reading, Writing, LooksUpNew, Busy, Setting
<1>3. \A t \in Tasks : SizeAt(t)'
  BY <1>1, <1>2 DEF SizeInv, SizeAt
<1>4. Plain' /\ Empty'
  BY <1>1, <1>2 DEF SizeInv, Plain, Empty
<1>5. SizeEqual'
  BY <1>1, <1>2 DEF SizeInv, SizeEqual, Known, Shown, Due, Misled, Fixed
<1>. QED  BY <1>3, <1>4, <1>5 DEF SizeInv

LEMMA GetsAndPutsSize ==
    ASSUME Control, Control', KeyInv, SizeInv, NEW t \in Tasks, GetsAndPuts(t)
    PROVE  SizeInv'
<1>. USE DEF At, To
<1>0. PlaceOf(t) /\ FileTyped /\ FileTyped' /\ call[t] \in Calls /\ SizeAt(t) /\ Empty
  BY DEF Control, FileTyped, SizeInv
<1>1. CASE get_lower_file(t) \/ ecryptfs_threadfn(t) \/ get_lower_file_again(t)
  <2>1. PICK p \in {"kthread", "header", "metadata", "stat"} :
           /\ pc' = [pc EXCEPT ![t] = p] /\ (p = AfterGet(t) \/ (p = "kthread" /\ pc[t] = "get"))
           /\ UNCHANGED <<call, lower, inode, seen, stale>>
    BY <1>1 DEF get_lower_file, ecryptfs_threadfn, get_lower_file_again, AfterGet
  <2>2. pc[t] \in {"get", "kthread", "get2"} /\ Busy(t) /\ p \in Places /\ pc'[t] = p /\ call'[t] = call[t]
    BY <1>0, <1>1, <2>1, AfterGets, PlacesTyped DEF get_lower_file, ecryptfs_threadfn, get_lower_file_again, Busy,
         FileTyped, PlaceOf, PlacesOf, Calls
  <2>3. ~InUse(t)' /\ ~Reading(t) /\ ~Writing(t) /\ (Shown(t)' => Shown(t))
    BY <2>1, <2>2 DEF InUse, Reading, Writing, Shown, LooksUpNew
  <2>4. SizeAt(t)'
    BY <1>0, <2>1, <2>2 DEF SizeAt, Writing, Setting, Busy
  <2>. QED  BY <1>0, <2>1, <2>2, <2>3, <2>4, MovesSize
<1>2. CASE ecryptfs_put_lower_file(t)
  <2>1. Busy(t) /\ pc[t] = "put" /\ pc' = [pc EXCEPT ![t] = "idle"] /\ UNCHANGED <<call, lower, inode, seen, stale>> /\ pc'[t] = "idle"
        /\ call[t] = "open" /\ "idle" \in Places /\ inode.new # t
    BY <1>0, <1>2, PlacesTyped DEF ecryptfs_put_lower_file, Busy, FileTyped, PlaceOf, PlacesOf, Calls
  <2>2. ~InUse(t)' /\ ~Reading(t) /\ ~Writing(t) /\ Shown(t)
    BY <2>1 DEF InUse, Reading, Writing, Shown, LooksUpNew
  <2>3. SizeAt(t)'
    BY <2>1 DEF SizeAt, Writing, Setting, Busy
  <2>. QED  BY <1>0, <2>1, <2>2, <2>3, MovesSize
<1>3. CASE get_lower_file_fails(t)
  <2>1. pc[t] = "kthread" /\ Busy(t) /\ pc' = [pc EXCEPT ![t] = "idle"] /\ UNCHANGED <<call, seen, stale>> /\ pc'[t] = "idle"
        /\ inode \in Inode
    BY <1>0, <1>3 DEF get_lower_file_fails, Busy, FileTyped
  <2>2. CASE call[t] = "create" \/ inode.new = t
    <3>1. inode' = Gone /\ (lower' = lower \/ lower' = NoFile)
      BY <1>3, <2>2 DEF get_lower_file_fails, AfterFailedGet
    <3>2. Empty'
      BY <1>0, <3>1 DEF Empty, Gone, NoFile, NoMeta
    <3>. QED  BY <3>1, <3>2, GoneKeepsSize, Records
  <2>3. CASE ~(call[t] = "create" \/ inode.new = t)
    <3>1. lower' = lower /\ (inode' = inode \/ inode' = [inode EXCEPT !.bad = TRUE])
      BY <1>0, <1>3, <2>3 DEF get_lower_file_fails, AfterFailedGet
    <3>2. SameSize /\ inode'.new = inode.new
      BY <2>1, <3>1 DEF SameSize, Inode
    <3>3. ~InUse(t)' /\ ~Reading(t) /\ ~Writing(t) /\ Shown(t)
      BY <2>1, <2>3 DEF InUse, Reading, Writing, Shown, LooksUpNew
    <3>4. SizeAt(t)'
      BY <2>1 DEF SizeAt, Writing, Setting, Busy
    <3>5. \A u \in Others(t) : pc'[u] = pc[u] /\ call'[u] = call[u] /\ seen'[u] = seen[u] /\ inode.new # u /\ inode'.new # u
      BY <1>0, <2>1, <3>2, NoOthers DEF FileTyped, Others
    <3>. QED  BY <1>0, <3>2, <3>3, <3>4, <3>5, SteadySize
  <2>. QED  BY <2>2, <2>3
<1>. QED  BY <1>1, <1>2, <1>3 DEF GetsAndPuts

(* A step that sets the size to the stored one.                            *)
LEMMA EqualNow ==
    ASSUME FileTyped', inode'.size = MetaSize'
    PROVE  SizeEqual'
<1>1. MetaSize' \in Nat
  BY SizesTypedNext
<1>2. MetaSize' <= inode'.size
  BY <1>1
<1>. QED  BY <1>2 DEF SizeEqual

(* An empty file's sizes are 0.                                            *)
LEMMA EmptyFile ==
    ASSUME KeyInv, SizeInv, ~lower.nonempty
    PROVE  inode.size = 0 /\ MetaSize = 0 /\ lower.xattr.size = 0 /\ ~InContents
<1>. QED  BY DEF SizeInv, Empty, MetaSize, KeyInv, OneMeta

LEMMA GiveUpSize ==
    ASSUME Control, Control', KeyInv, SizeInv, NEW t \in Tasks, pc[t] \in {"context", "header"}, NEW i \in Inode,
           i.cached = inode.cached, i.new = inode.new, i.policy = inode.policy, i.valid,
           i.size = inode.size, i.sized = inode.sized, GiveUp(t, i), UNCHANGED <<seen, stale>>
    PROVE  SizeInv'
<1>. USE DEF GiveUp, To
<1>0. FileTyped' /\ FileTyped /\ SizeAt(t)
  BY DEF Control, SizeInv
<1>1. CASE call[t] = "create"
  <2>1. inode' = Gone /\ lower' = NoFile
    BY <1>1
  <2>2. Empty'
    BY <2>1 DEF Empty, Gone, NoFile, NoMeta
  <2>. QED  BY <2>1, <2>2, GoneKeepsSize, Records
<1>2. CASE call[t] # "create"
  <2>0. call[t] = "open" /\ inode.new # t /\ csMutex \notin Others(t) /\ (\A u \in Others(t) : inode.new # u) /\ Kept(t)
    BY <1>2, InitializesIn
  <2>1. /\ lower' = lower /\ call' = call /\ pc' = [pc EXCEPT ![t] = "put"]
        /\ inode'.new = inode.new /\ inode'.valid /\ inode'.size = inode.size /\ inode'.sized = inode.sized
    BY <1>2 DEF Inode
  <2>2. pc'[t] = "put" /\ call'[t] = "open" /\ \A u \in Others(t) : pc'[u] = pc[u] /\ call'[u] = call[u] /\ seen'[u] = seen[u]
    BY <1>0, <2>0, <2>1 DEF FileTyped, Others
  <2>3. MetaSize' = MetaSize /\ (Having' <=> Having) /\ ~lower.nonempty
    BY <2>0, <2>1 DEF MetaSize, InContents, InXattr, Having, Kept
  <2>4. inode.size = 0 /\ MetaSize = 0 /\ lower.xattr.size = 0
    BY <2>3, EmptyFile
  <2>5. MetaSize <= MetaSize'
    BY <2>3, <2>4
  <2>6. SizeCalm(t)
    BY <2>0, <2>1, <2>2, <2>5 DEF SizeCalm
  <2>7. Empty' /\ Plain'
    BY <2>1, <2>4 DEF Empty, Plain
  <2>8. SizeEqual'
    BY <1>0, <2>1, <2>3, <2>4, EqualNow
  <2>9. SizeAt(t)'
    BY <2>2 DEF SizeAt, Writing, Setting
  <2>. QED  BY <1>0, <2>6, <2>7, <2>8, <2>9, CalmSize
<1>. QED  BY <1>1, <1>2

LEMMA InitializeSize ==
    ASSUME Control, Control', KeyInv, SizeInv, NEW t \in Tasks, Initialize(t)
    PROVE  SizeInv'
<1>. USE DEF At, To
<1>0. PlaceOf(t) /\ FileTyped /\ FileTyped' /\ inode \in Inode /\ feks \in Nat /\ lower \in LowerFile /\ SizeAt(t) /\ OneMeta
  BY DEF Control, FileTyped, SizeInv, KeyInv
<1>1. CASE new_file_context(t)
  <2>0. /\ pc[t] = "context" /\ Busy(t) /\ call[t] \in {"create", "open"} /\ csMutex \notin Others(t) /\ Kept(t)
        /\ \A u \in Others(t) : inode.new # u
    BY <1>1, InitializesIn DEF new_file_context
  <2>1. PICK p \in {"get", "get2"} : pc' = [pc EXCEPT ![t] = p]
    BY <1>1 DEF new_file_context
  <2>2. inode'.new = inode.new /\ inode'.valid /\ inode'.size = inode.size /\ lower' = lower /\ UNCHANGED <<call, seen, stale>>
    <3>1. Len(mnt.sigs) \in 0..Len(mnt.sigs)
      BY <1>0, OpenAssumption, EmptySeq DEF FileTyped
    <3>2. inode' = NewContext(Len(mnt.sigs), feks + 1) /\ lower' = lower /\ UNCHANGED <<call, seen, stale>>
      BY <1>1 DEF new_file_context
    <3>3. inode'.size = inode.size
      BY <1>0, <3>2 DEF NewContext, Inode
    <3>. QED  BY <1>0, <3>1, <3>2, <3>3, NewContextTyped, NewContextFields
  <2>3. pc'[t] = p /\ call'[t] = call[t] /\ \A u \in Others(t) : pc'[u] = pc[u] /\ call'[u] = call[u] /\ seen'[u] = seen[u]
    BY <1>0, <2>1, <2>2 DEF FileTyped, Others
  <2>4. MetaSize' = MetaSize /\ (Having' <=> Having) /\ ~lower.nonempty
    BY <1>0, <2>0, <2>2 DEF MetaSize, InContents, InXattr, Having, Kept, SizeAt
  <2>5. inode.size = 0 /\ MetaSize = 0 /\ lower.xattr.size = 0
    BY <2>4, EmptyFile
  <2>6. MetaSize <= MetaSize'
    BY <2>4, <2>5
  <2>7. SizeCalm(t)
    BY <2>0, <2>2, <2>3, <2>6 DEF SizeCalm
  <2>8. Empty' /\ Plain'
    BY <2>2, <2>5 DEF Empty, Plain
  <2>9. SizeEqual'
    BY <1>0, <2>2, <2>4, <2>5, EqualNow
  <2>10. SizeAt(t)'
    BY <2>2, <2>3, <2>4 DEF SizeAt, Writing, Setting
  <2>. QED  BY <1>0, <2>7, <2>8, <2>9, <2>10, CalmSize
<1>2. CASE new_file_context_fails(t)
  <2>1. PICK n \in 0..Len(mnt.sigs), fek \in Nat : GiveUp(t, NewContext(n, fek))
    <3>1. mnt.sigs \in Seq(Sigs) /\ Len(mnt.sigs) \in Nat /\ inode.fek \in Nat /\ feks + 1 \in Nat
      BY <1>0, OpenAssumption, EmptySeq, InodeFields DEF FileTyped
    <3>2. 0..(Len(mnt.sigs) - 1) \subseteq 0..Len(mnt.sigs) /\ Len(mnt.sigs) \in 0..Len(mnt.sigs)
      BY <3>1
    <3>. QED  BY <1>2, <3>1, <3>2, Zenon DEF new_file_context_fails
  <2>2. pc[t] = "context" /\ UNCHANGED <<seen, stale>>
    BY <1>2 DEF new_file_context_fails, GiveUp
  <2>3. NewContext(n, fek).size = inode.size /\ NewContext(n, fek).sized = inode.sized
    BY <1>0 DEF NewContext, Inode
  <2>. QED  BY <1>0, <2>1, <2>2, <2>3, NewContextTyped, NewContextFields, GiveUpSize
<1>3. CASE generate_key_packet_set(t)
  BY <1>3, UnmovedSize DEF generate_key_packet_set, taskVars
<1>4. CASE write_metadata(t)
  <2>0. /\ pc[t] = "header" /\ Busy(t) /\ call[t] \in {"create", "open"} /\ csMutex \notin Others(t)
        /\ ~InContents /\ inode.valid /\ IsMeta(inode) /\ Kept(t)
        /\ (\A u \in Others(t) : inode.new # u) /\ (call[t] = "create" => inode.new = t)
    BY <1>0, <1>4, InitializesIn DEF write_metadata, Free, Making
  <2>1. ~lower.nonempty
    BY <1>0, <2>0 DEF Kept, SizeAt
  <2>2. inode.size = 0 /\ MetaSize = 0 /\ lower.xattr.size = 0
    BY <2>1, EmptyFile
  <2>3. /\ IF inode.inXattr THEN lower'.xattr = Written /\ lower'.contents = lower.contents
           ELSE lower'.contents = Written /\ lower'.xattr = lower.xattr /\ lower'.nonempty
        /\ lower.nonempty => lower'.nonempty
    BY <1>0, <1>4 DEF write_metadata, LowerFile
  <2>4. Written.size = 0 /\ IsMeta(Written)
    BY <2>0 DEF Written, IsMeta
  <2>5. MetaSize' = 0 /\ lower'.xattr.size = 0
    BY <2>0, <2>2, <2>3, <2>4 DEF MetaSize, InContents
  <2>6. /\ inode'.valid = inode.valid /\ inode'.size = inode.size /\ UNCHANGED <<call, seen, stale>>
        /\ inode'.new = IF call[t] = "create" THEN None ELSE inode.new
    BY <1>0, <1>4 DEF write_metadata, Inode
  <2>7. /\ pc' = [pc EXCEPT ![t] = IF call[t] = "create" THEN "idle" ELSE "opened"]
        /\ \A u \in Others(t) : pc'[u] = pc[u] /\ call'[u] = call[u] /\ seen'[u] = seen[u]
        /\ pc'[t] = IF call[t] = "create" THEN "idle" ELSE "opened"
    BY <1>0, <1>4 DEF write_metadata, FileTyped, Others
  <2>8. MetaSize <= MetaSize'
    BY <2>2, <2>5
  <2>9. SizeCalm(t)
    BY <2>0, <2>3, <2>6, <2>7, <2>8, NoTask DEF SizeCalm, Others
  <2>10. Empty' /\ Plain'
    BY <2>0, <2>2, <2>5, <2>6 DEF Empty, Plain
  <2>11. SizeEqual'
    BY <1>0, <2>2, <2>5, <2>6, EqualNow
  <2>12. SizeAt(t)'
    <3>1. pc'[t] \in {"idle", "opened"} /\ (pc'[t] = "opened" => call'[t] = "open")
      BY <2>0, <2>6, <2>7
    <3>. QED  BY <3>1 DEF SizeAt, Writing, Setting, Busy
  <2>. QED  BY <1>0, <2>9, <2>10, <2>11, <2>12, CalmSize
<1>5. CASE write_metadata_fails(t)
  <2>1. inode.valid /\ pc[t] = "header" /\ GiveUp(t, inode) /\ UNCHANGED <<seen, stale>>
    BY <1>0, <1>5, InitializesIn DEF write_metadata_fails, GiveUp, Free, Making
  <2>. QED  BY <1>0, <2>1, GiveUpSize
<1>. QED  BY <1>1, <1>2, <1>3, <1>4, <1>5 DEF Initialize

(* The reading of the metadata: a file without a key is used, if at all,   *)
(* only while another call reads it.                                       *)
LEMMA NotPlain ==
    ASSUME Control, KeyInv, SizeInv, NEW t \in Tasks, csMutex \in {t, None}, ~Reading(t), NEW u \in Tasks, InUse(u)
    PROVE  inode.valid \/ ~inode.encrypted
<1>. SUFFICES ASSUME ~inode.valid, inode.encrypted PROVE FALSE
  OBVIOUS
<1>1. PICK v \in Tasks : Reading(v)
  BY DEF SizeInv, Plain
<1>2. PlaceOf(v) /\ call[v] \in Calls
  BY DEF Control, FileTyped
<1>3. csMutex = v
  BY <1>1, <1>2 DEF Reading, PlaceOf, Section, Busy
<1>. QED  BY <1>1, <1>3, NoTask

LEMMA StartsReadingSize ==
    ASSUME Control, Control', KeyInv, SizeInv, NEW t \in Tasks, pc[t] = "metadata", csMutex \in {t, None}, To(t, "contents"),
           ~inode.policy \/ ~inode.valid, inode' = [inode EXCEPT !.inXattr = @ \/ mnt.xattr], UNCHANGED <<lower, stale>>
    PROVE  SizeInv'
<1>. USE DEF To
<1>1. /\ FileTyped /\ FileTyped' /\ inode.new # t /\ ~Reading(t) /\ call'[t] \in {"open", "setattr"}
      /\ (\A u \in Others(t) : inode.new # u) /\ (\A u \in Tasks : ~LooksUpNew(u)) /\ None \notin Others(t)
  BY ReadsKeyIn, NoTask DEF Others, Reading, Control
<1>2. /\ pc'[t] = "contents" /\ lower' = lower /\ stale' = stale
      /\ \A u \in Others(t) : pc'[u] = pc[u] /\ call'[u] = call[u] /\ seen'[u] = seen[u]
  BY <1>1 DEF FileTyped, Others
<1>3. /\ inode'.cached = inode.cached /\ inode'.new = inode.new /\ inode'.valid = inode.valid /\ inode'.policy = inode.policy
      /\ inode'.size = inode.size /\ inode'.sized = inode.sized /\ inode'.encrypted = inode.encrypted
  BY <1>1 DEF FileTyped, Inode
<1>4. (InContents' <=> InContents) /\ (Having' <=> Having) /\ MetaSize' = MetaSize /\ MetaSize \in Nat
  BY <1>1, <1>2, SizesTyped DEF InContents, InXattr, Having, MetaSize
<1>5. SizeCalm(t)
  BY <1>1, <1>2, <1>3, <1>4 DEF SizeCalm, Others
<1>6. Empty'
  BY <1>2, <1>3 DEF SizeInv, Empty
<1>7. Plain'
  <2>1. ASSUME NEW u \in Tasks, InUse(u)' PROVE inode.valid \/ ~inode.encrypted
    <3>1. InUse(u)
      BY <1>2, <2>1 DEF InUse, Others
    <3>. QED  BY <1>1, <3>1, NotPlain
  <2>. QED  BY <1>3, <2>1 DEF Plain
<1>8. SizeEqual'
  <2>1. Known' => Known
    BY <1>1, <1>3 DEF Known, Shown
  <2>2. Due' => Due
    <3>1. ~Misled
      BY DEF Misled
    <3>2. ASSUME NEW u \in Tasks, Writing(u) PROVE Writing(u)'
      BY <1>2, <3>2 DEF Writing, Others
    <3>. QED  BY <1>3, <3>1, <3>2 DEF Due, Fixed
  <2>. QED  BY <1>2, <1>3, <1>4, <2>1, <2>2 DEF SizeInv, SizeEqual
<1>9. SizeAt(t)'
  BY <1>1, <1>2, <1>3 DEF SizeAt, Writing, Setting
<1>. QED  BY <1>1, <1>5, <1>6, <1>7, <1>8, <1>9, CalmSize

(* A step that leaves the sizes, and makes no equality due.                *)
LEMMA EqualKept ==
    ASSUME SizeInv, MetaSize' = MetaSize, Having' => Having, Known' => Known, stale => stale',
           inode'.size = inode.size, Due' => Due
    PROVE  SizeEqual'
<1>. QED  BY DEF SizeInv, SizeEqual

LEMMA NotLess ==
    ASSUME FileTyped, MetaSize' = MetaSize
    PROVE  MetaSize <= MetaSize'
<1>1. MetaSize \in Nat
  BY SizesTyped
<1>. QED  BY <1>1

LEMMA SameStored ==
    ASSUME FileTyped, lower' = lower, stale' = stale
    PROVE  /\ (InContents' <=> InContents) /\ MetaSize' = MetaSize /\ MetaSize <= MetaSize'
           /\ (lower.nonempty => lower'.nonempty) /\ (stale => stale')
<1>1. (InContents' <=> InContents) /\ MetaSize' = MetaSize
  BY DEF InContents, MetaSize
<1>. QED  BY <1>1, NotLess

LEMMA ReadsSize ==
    ASSUME Control, Control', KeyInv, SizeInv, NEW t \in Tasks, pc[t] \in Reads,
           NEW p \in Reads \cup {"attr fails", "context", "attr read", "opened"}, p # "contents",
           pc' = [pc EXCEPT ![t] = p], UNCHANGED <<call, lower, seen, stale>>,
           inode'.new = inode.new, p \in {"parse contents", "parse xattr"} => inode'.sized, ~lower.nonempty => inode'.size = 0,
           \/ inode'.valid \/ ~inode'.encrypted
           \/ p \in Reads /\ (InContents => ~inode'.inXattr),
           SizeEqual'
    PROVE  SizeInv'
<1>1. /\ FileTyped /\ FileTyped' /\ csMutex = t /\ call[t] \in {"open", "setattr"} /\ \A u \in Others(t) : inode.new # u
  BY ReadsKeyIn DEF Control
<1>2. /\ pc'[t] = p /\ call'[t] = call[t] /\ lower' = lower /\ stale' = stale
      /\ \A u \in Others(t) : pc'[u] = pc[u] /\ call'[u] = call[u] /\ seen'[u] = seen[u]
  BY <1>1 DEF FileTyped, Others
<1>3. /\ (InContents' <=> InContents) /\ MetaSize' = MetaSize /\ MetaSize <= MetaSize'
      /\ (lower.nonempty => lower'.nonempty) /\ (stale => stale')
  BY <1>1, <1>2, SameStored
<1>4. SizeCalm(t)
  <2>1. csMutex \notin Others(t) /\ \A u \in Others(t) : inode'.new # u
    BY <1>1 DEF Others
  <2>. QED  BY <1>1, <1>2, <1>3, <2>1 DEF SizeCalm
<1>5. Empty'
  BY <1>2 DEF SizeInv, Empty
<1>6. Plain'
  <2>1. p \in Reads => Reading(t)'
    BY <1>2 DEF Reading, Reads
  <2>. QED  BY <1>3, <2>1 DEF Plain
<1>7. SizeAt(t)'
  BY <1>1, <1>2 DEF SizeAt, Writing, Setting, Reads
<1>. QED  BY <1>1, <1>4, <1>5, <1>6, <1>7, CalmSize

LEMMA ReadsEqual ==
    ASSUME Control, KeyInv, SizeInv, NEW t \in Tasks, pc[t] \in Reads, NEW p, pc' = [pc EXCEPT ![t] = p],
           UNCHANGED <<call, lower, stale>>, inode'.cached = inode.cached, inode'.new = inode.new, inode'.size = inode.size,
           inode'.sized /\ ~inode'.encrypted => inode.sized /\ ~inode.encrypted /\ ~Misled,
           Fixed' => Fixed /\ ~Misled
    PROVE  SizeEqual'
<1>1. FileTyped /\ (\A u \in Tasks : ~LooksUpNew(u)) /\ ~Writing(t)
  BY ReadsKeyIn DEF Reads, Writing
<1>2. lower' = lower /\ stale' = stale /\ \A u \in Others(t) : pc'[u] = pc[u]
  BY <1>1 DEF FileTyped, Others
<1>3. MetaSize' = MetaSize /\ (Having' => Having)
  BY <1>2 DEF InContents, InXattr, Having, MetaSize
<1>4. Known' => Known
  BY <1>1 DEF Known, Shown
<1>5. Due' => Due
  <2>1. ASSUME NEW u \in Tasks, Writing(u) PROVE Writing(u)'
    BY <1>1, <1>2, <2>1 DEF Writing, Others
  <2>. QED  BY <2>1 DEF Due
<1>. QED  BY <1>2, <1>3, <1>4, <1>5, EqualKept

LEMMA HeadedFields ==
    ASSUME FileTyped, NEW m, NEW b \in BOOLEAN
    PROVE  /\ Headed(m, b).cached = inode.cached /\ Headed(m, b).new = inode.new /\ Headed(m, b).valid = inode.valid
           /\ Headed(m, b).policy = inode.policy /\ Headed(m, b).sized /\ Headed(m, b).encrypted
           /\ Headed(m, b).inXattr = b /\ Headed(m, b).size = IF inode.sized THEN inode.size ELSE m.size
<1>1. inode \in Inode
  BY DEF FileTyped
<1>. QED  BY <1>1 DEF Headed, Inode

LEMMA HeadedSize ==
    ASSUME Control, Control', KeyInv, SizeInv, NEW t \in Tasks, pc[t] \in Reads, NEW m, NEW b \in BOOLEAN,
           inode' = Headed(m, b), NEW p \in {"parse contents", "parse xattr"}, To(t, p), UNCHANGED <<lower, stale>>,
           m.size = MetaSize, ~lower.nonempty => m.size = 0, InContents => ~b, ~Misled
    PROVE  SizeInv'
<1>. USE DEF To
<1>0. FileTyped /\ FileTyped' /\ p \in Reads
  BY DEF Control, Reads
<1>1. /\ inode'.cached = inode.cached /\ inode'.new = inode.new /\ inode'.valid = inode.valid
      /\ inode'.policy = inode.policy /\ inode'.sized /\ inode'.encrypted
      /\ inode'.inXattr = b /\ inode'.size = IF inode.sized THEN inode.size ELSE m.size
  BY <1>0, HeadedFields
<1>2. ~lower.nonempty => inode'.size = 0
  BY <1>1 DEF SizeInv, Empty
<1>3. SizeEqual'
  <2>1. CASE inode.sized
    BY <1>1, <2>1, ReadsEqual DEF Fixed
  <2>2. CASE ~inode.sized
    <3>1. MetaSize' = MetaSize
      BY DEF InContents, MetaSize
    <3>. QED  BY <1>0, <1>1, <2>2, <3>1, EqualNow
  <2>. QED  BY <2>1, <2>2
<1>. QED  BY <1>0, <1>1, <1>2, <1>3, ReadsSize

LEMMA KeyedFields ==
    ASSUME FileTyped, NEW m, NEW b
    PROVE  /\ Keyed(m, b).cached = inode.cached /\ Keyed(m, b).new = inode.new /\ Keyed(m, b).valid
           /\ Keyed(m, b).policy = inode.policy /\ Keyed(m, b).sized = inode.sized
           /\ Keyed(m, b).encrypted = inode.encrypted /\ Keyed(m, b).size = inode.size
<1>1. inode \in Inode
  BY DEF FileTyped
<1>. QED  BY <1>1 DEF Keyed, Inode

LEMMA KeyedSize ==
    ASSUME Control, Control', KeyInv, SizeInv, NEW t \in Tasks, pc[t] \in {"parse contents", "parse xattr"}, NEW m, NEW b,
           inode' = Keyed(m, b), NEW p \in {"xattr", "no metadata", "attr read", "opened"}, To(t, p), UNCHANGED <<lower, stale>>
    PROVE  SizeInv'
<1>. USE DEF To
<1>0. FileTyped /\ pc[t] \in Reads /\ SizeAt(t) /\ Kept(t) /\ OneMeta /\ p \in Reads \cup {"attr read", "opened"}
  BY DEF Control, Reads, SizeInv, KeyInv
<1>1. /\ inode'.cached = inode.cached /\ inode'.new = inode.new /\ inode'.valid
      /\ inode'.policy = inode.policy /\ inode'.sized = inode.sized
      /\ inode'.encrypted = inode.encrypted /\ inode'.size = inode.size
  BY <1>0, KeyedFields
<1>2. ~lower.nonempty => inode'.size = 0
  BY <1>1 DEF SizeInv, Empty
<1>3. inode.sized /\ ~Misled
  BY <1>0 DEF SizeAt, Kept, OneMeta, Misled
<1>4. SizeEqual'
  BY <1>0, <1>1, <1>3, ReadsEqual DEF Fixed
<1>. QED  BY <1>0, <1>1, <1>2, <1>4, ReadsSize

LEMMA MetadataSize ==
    ASSUME Control, Control', KeyInv, SizeInv, NEW t \in Tasks, Metadata(t)
    PROVE  SizeInv'
<1>. USE DEF At
<1>0. inode \in Inode /\ PlaceOf(t) /\ FileTyped /\ FileTyped' /\ SizeAt(t) /\ Free(t) /\ Kept(t) /\ OneMeta
  BY DEF Control, FileTyped, SizeInv, KeyInv
<1>8. {"put", "opened", "xattr", "no metadata", "attr fails", "context"} \subseteq Places
  BY DEF Places, PlacesOf, Calls
<1>9. /\ pc[t] \in Reads \cup {"metadata"}
      /\ Busy(t) /\ call[t] \in {"open", "setattr"} /\ inode.new # t /\ ~Writing(t) /\ ~LooksUpNew(t)
  <2>1. pc[t] \in Reads \cup {"metadata"}
    BY DEF Metadata, read_or_initialize_metadata, open_refused, read_contents, read_xattr, read_headers, parse_contents,
           parse_xattr, no_metadata, Reads
  <2>. QED  BY <2>1, ReadsKeyIn DEF Writing, Reads
<1>10. ASSUME NEW p \in {"put", "opened", "xattr", "no metadata", "attr fails", "context"}, To(t, p),
              UNCHANGED <<lower, inode, stale>>,
              p = "opened" => inode.valid,
              p = "put" => ~Reading(t) \/ \A u \in Tasks : ~InUse(u),
              p = "context" => call[t] = "open"
       PROVE  SizeInv'
  <2>1. pc' = [pc EXCEPT ![t] = p] /\ p \in Places /\ UNCHANGED <<call, seen>> /\ pc'[t] = p /\ call'[t] = call[t]
    BY <1>0, <1>8, <1>10 DEF To, FileTyped
  <2>2. Reading(t)' \/ p \in {"put", "opened"}
    BY <1>10, <2>1 DEF Reading
  <2>3. InUse(t)' => p = "opened"
    BY <2>1 DEF InUse
  <2>4. Shown(t)
    BY <1>9 DEF Shown
  <2>5. SizeAt(t)'
    BY <1>9, <2>1 DEF SizeAt, Writing, Setting
  <2>. QED  BY <1>0, <1>9, <1>10, <2>1, <2>2, <2>3, <2>4, <2>5, MovesSize
<1>1. CASE read_or_initialize_metadata(t)
  <2>1. pc[t] = "metadata" /\ csMutex = None /\ call[t] = "open"
    BY <1>1, <1>9, ReadsKeyIn, NoTask DEF read_or_initialize_metadata
  <2>2. CASE inode.policy /\ inode.valid
    BY <1>1, <2>2, <1>10 DEF read_or_initialize_metadata
  <2>3. CASE ~(inode.policy /\ inode.valid)
    BY <1>1, <2>1, <2>3, StartsReadingSize DEF read_or_initialize_metadata
  <2>. QED  BY <2>2, <2>3
<1>2. CASE open_refused(t)
  <2>1. ~Reading(t)
    BY <1>2 DEF open_refused, Reading
  <2>. QED  BY <1>2, <1>10, <2>1 DEF open_refused
<1>3. CASE read_contents(t)
  <2>0. pc[t] = "contents" /\ pc[t] \in Reads /\ UNCHANGED <<lower, stale>>
    BY <1>3 DEF read_contents, read_headers, Reads
  <2>1. CASE inode' = inode /\ To(t, "xattr")
    BY <1>10, <2>0, <2>1
  <2>2. CASE IsMeta(lower.contents) /\ inode' = Headed(lower.contents, FALSE) /\ To(t, "parse contents")
    <3>1. InContents /\ lower.nonempty
      BY <1>0, <2>2 DEF OneMeta, InContents
    <3>2. lower.contents.size = MetaSize /\ ~Misled
      BY <1>0, <2>0, <3>1 DEF MetaSize, SizeAt, Misled
    <3>. QED  BY <2>0, <2>2, <3>1, <3>2, HeadedSize
  <2>. QED  BY <1>3, <2>1, <2>2 DEF read_contents, read_headers
<1>4. CASE read_xattr(t)
  <2>0. pc[t] = "xattr" /\ pc[t] \in Reads /\ UNCHANGED <<lower, stale>>
    BY <1>4 DEF read_xattr, read_headers, Reads
  <2>1. CASE inode' = inode /\ To(t, "no metadata")
    BY <1>10, <2>0, <2>1
  <2>2. CASE IsMeta(lower.xattr) /\ inode' = Headed(lower.xattr, TRUE) /\ To(t, "parse xattr")
    <3>1. ~InContents
      BY <1>0, <2>2 DEF OneMeta, InXattr
    <3>2. lower.xattr.size = MetaSize /\ ~Misled /\ (~lower.nonempty => lower.xattr.size = 0)
      BY <3>1 DEF MetaSize, Misled, SizeInv, Empty
    <3>. QED  BY <2>0, <2>2, <3>1, <3>2, HeadedSize
  <2>. QED  BY <1>4, <2>1, <2>2 DEF read_xattr, read_headers
<1>5. CASE parse_contents(t)
  <2>0. pc[t] = "parse contents" /\ UNCHANGED <<lower, stale>>
    BY <1>5 DEF parse_contents
  <2>1. CASE Opened(t, Keyed(lower.contents, FALSE))
    BY <2>0, <2>1, KeyedSize DEF Opened
  <2>2. CASE inode' = Keyed(lower.contents, TRUE) /\ To(t, "xattr")
    BY <2>0, <2>2, KeyedSize
  <2>3. CASE inode' = inode /\ To(t, "xattr")
    BY <1>10, <2>0, <2>3
  <2>. QED  BY <1>5, <2>1, <2>2, <2>3 DEF parse_contents
<1>6. CASE parse_xattr(t)
  <2>0. pc[t] = "parse xattr" /\ UNCHANGED <<lower, stale>>
    BY <1>6 DEF parse_xattr
  <2>1. CASE Opened(t, Keyed(lower.xattr, FALSE))
    BY <2>0, <2>1, KeyedSize DEF Opened
  <2>2. CASE inode' = Keyed(lower.xattr, TRUE) /\ To(t, "no metadata")
    BY <2>0, <2>2, KeyedSize
  <2>3. CASE inode' = inode /\ To(t, "no metadata")
    BY <1>10, <2>0, <2>3
  <2>. QED  BY <1>6, <2>1, <2>2, <2>3 DEF parse_xattr
<1>7. CASE no_metadata(t)
  <2>0. /\ pc[t] = "no metadata" /\ pc[t] \in Reads /\ UNCHANGED <<lower, stale>> /\ Reading(t)
        /\ call[t] = "open" => inode.policy
    BY <1>7, ReadsKeyIn DEF no_metadata, Reads, Reading
  <2>1. CASE call[t] = "setattr"
    BY <1>7, <1>10, <2>0, <2>1 DEF no_metadata
  <2>2. CASE call[t] = "open" /\ mnt.passthrough
    <3>1. inode' = [inode EXCEPT !.encrypted = FALSE, !.sized = FALSE]
          /\ pc' = [pc EXCEPT ![t] = "opened"] /\ UNCHANGED <<call, seen>>
      BY <1>7, <2>2 DEF no_metadata, Opened, To
    <3>2. /\ inode'.cached = inode.cached /\ inode'.new = inode.new /\ inode'.policy /\ ~inode'.encrypted /\ ~inode'.sized
          /\ inode'.size = inode.size
      BY <1>0, <2>0, <2>2, <3>1 DEF Inode
    <3>3. ~lower.nonempty => inode'.size = 0
      BY <3>2 DEF SizeInv, Empty
    <3>4. SizeEqual'
      BY <2>0, <3>1, <3>2, ReadsEqual DEF Fixed
    <3>. QED  BY <2>0, <3>1, <3>2, <3>3, <3>4, ReadsSize
  <2>3. CASE call[t] = "open" /\ ~mnt.passthrough /\ ~mnt.xattr /\ ~lower.nonempty
    BY <1>7, <1>10, <2>0, <2>3 DEF no_metadata
  <2>4. CASE call[t] = "open" /\ ~mnt.passthrough /\ ~(~mnt.xattr /\ ~lower.nonempty)
    <3>1. \A u \in Tasks : ~InUse(u)
      BY <1>0, <2>0, <2>4 DEF Kept
    <3>. QED  BY <1>7, <1>10, <2>0, <2>4, <3>1 DEF no_metadata
  <2>. QED  BY <1>9, <2>1, <2>2, <2>3, <2>4
<1>. QED  BY <1>1, <1>2, <1>3, <1>4, <1>5, <1>6, <1>7 DEF Metadata

LEMMA AttributesSize ==
    ASSUME Control, Control', KeyInv, SizeInv, NEW t \in Tasks, Attributes(t)
    PROVE  SizeInv'
<1>. USE DEF At, To
<1>0. inode \in Inode /\ PlaceOf(t) /\ FileTyped /\ FileTyped' /\ call[t] \in Calls /\ SizeAt(t) /\ Kept(t)
  BY DEF Control, FileTyped, SizeInv, KeyInv
<1>8. "idle" \in Places /\ "get" \in Places
  BY DEF Places, PlacesOf, Calls
<1>1. CASE setattr_lock(t)
  <2>1. /\ pc[t] = "attr" /\ Busy(t) /\ call[t] = "setattr" /\ inode.new # t /\ UNCHANGED <<call, seen, lower, inode, stale>>
    BY <1>0, <1>1 DEF setattr_lock, PlaceOf, PlacesOf, Calls, Busy
  <2>2. PICK p \in {"idle", "get"} : pc' = [pc EXCEPT ![t] = p]
    BY <1>1 DEF setattr_lock
  <2>3. pc'[t] = p /\ call'[t] = "setattr" /\ p \in Places
    BY <1>0, <1>8, <2>1, <2>2 DEF FileTyped
  <2>4. ~InUse(t)' /\ ~Reading(t) /\ ~Writing(t) /\ Shown(t)
    BY <2>1, <2>3 DEF InUse, Reading, Writing, Shown, LooksUpNew
  <2>5. SizeAt(t)'
    BY <2>3 DEF SizeAt, Writing, Setting
  <2>. QED  BY <1>0, <2>1, <2>2, <2>3, <2>4, <2>5, MovesSize
<1>2. CASE setattr_read_metadata(t)
  <2>1. pc[t] = "metadata" /\ csMutex = t /\ (~inode.policy \/ ~inode.valid)
    BY <1>0, <1>2, ReadsKeyIn DEF setattr_read_metadata, Kept
  <2>. QED  BY <1>2, <2>1, StartsReadingSize DEF setattr_read_metadata
<1>3. CASE setattr_end(t)
  <2>1. /\ pc[t] \in {"attr read", "attr fails"} /\ Busy(t) /\ call[t] = "setattr" /\ inode.new # t /\ csMutex = t
        /\ UNCHANGED <<call, seen, lower, stale>> /\ pc' = [pc EXCEPT ![t] = "idle"]
    BY <1>0, <1>3 DEF setattr_end, PlaceOf, PlacesOf, Calls, Busy, Section
  <2>2. /\ pc'[t] = "idle" /\ call'[t] = "setattr"
        /\ \A u \in Others(t) : pc'[u] = pc[u] /\ call'[u] = call[u] /\ seen'[u] = seen[u] /\ inode.new # u
    BY <1>0, <2>1, NoOthers DEF FileTyped, Others
  <2>3. ~InUse(t)' /\ ~Writing(t) /\ Shown(t)
    BY <2>1, <2>2 DEF InUse, Writing, Shown, LooksUpNew
  <2>4. SizeAt(t)'
    BY <2>2 DEF SizeAt, Writing, Setting
  <2>5. CASE inode' = inode /\ (Reading(t) => \A u \in Tasks : ~InUse(u))
    BY <1>0, <1>8, <2>1, <2>3, <2>4, <2>5, MovesSize
  <2>6. CASE pc[t] = "attr read"
    <3>1. ~Reading(t) /\ inode' = inode
      BY <1>3, <2>6 DEF setattr_end, Reading
    <3>. QED  BY <2>5, <3>1
  <2>7. CASE pc[t] = "attr fails"
    <3>1. inode' = [inode EXCEPT !.stray = inode.stray \/ inode.valid, !.encrypted = inode.encrypted /\ ~mnt.passthrough,
                                 !.sized = inode.sized /\ ~mnt.passthrough]
      BY <1>3, <2>7 DEF setattr_end
    <3>2. /\ inode'.cached = inode.cached /\ inode'.new = inode.new /\ inode'.policy = inode.policy
          /\ inode'.inXattr = inode.inXattr /\ inode'.valid = inode.valid /\ inode'.size = inode.size
          /\ (inode'.encrypted <=> inode.encrypted /\ ~mnt.passthrough) /\ (inode'.sized <=> inode.sized /\ ~mnt.passthrough)
      BY <1>0, <3>1 DEF Inode
    <3>3. CASE ~mnt.passthrough
      <4>1. SameSize
        BY <2>1, <3>2, <3>3 DEF SameSize
      <4>2. \A u \in Tasks : ~InUse(u)
        BY <1>0, <2>7, <3>3 DEF Kept, Reading
      <4>. QED  BY <1>0, <2>2, <2>3, <2>4, <3>2, <4>1, <4>2, SteadySize
    <3>4. CASE mnt.passthrough
      <4>1. (InContents' <=> InContents) /\ (Having' <=> Having) /\ MetaSize' = MetaSize
        BY <2>1 DEF InContents, InXattr, Having, MetaSize
      <4>2. MetaSize <= MetaSize'
        BY <1>0, <4>1, NotLess
      <4>3. SizeCalm(t)
        BY <2>1, <2>2, <3>2, <4>2 DEF SizeCalm, Others
      <4>4. Empty' /\ Plain'
        BY <2>1, <3>2, <3>4 DEF SizeInv, Empty, Plain
      <4>5. Known' => Known
        <5>1. ASSUME NEW u \in Tasks PROVE Shown(u)
          <6>1. CASE u = t
            BY <2>3, <6>1
          <6>2. CASE u # t
            BY <2>2, <6>2 DEF Shown, LooksUpNew, Others
          <6>. QED  BY <6>1, <6>2
        <5>. QED  BY <3>2, <5>1 DEF Known
      <4>6. Due' => Due
        <5>1. ASSUME NEW u \in Tasks, Writing(u) PROVE Writing(u)'
          BY <2>2, <2>3, <5>1 DEF Writing, Others
        <5>. QED  BY <3>2, <3>4, <4>1, <5>1 DEF Due, Misled, Fixed
      <4>7. SizeEqual'
        BY <2>1, <3>2, <4>1, <4>5, <4>6, EqualKept
      <4>. QED  BY <1>0, <2>4, <4>3, <4>4, <4>7, CalmSize
    <3>. QED  BY <3>3, <3>4
  <2>. QED  BY <2>1, <2>6, <2>7
<1>. QED  BY <1>1, <1>2, <1>3 DEF Attributes

(* The places a size goes through.  A step leaves what the others need.    *)
LEMMA PlainKept ==
    ASSUME SizeInv, NEW t \in Tasks, \A u \in Others(t) : pc'[u] = pc[u] /\ call'[u] = call[u],
           InUse(t)' => InUse(t), ~Reading(t),
           inode'.valid <=> inode.valid, inode'.encrypted <=> inode.encrypted, InContents' <=> InContents,
           inode'.inXattr => inode.inXattr \/ ~InContents
    PROVE  Plain'
<1>. SUFFICES ASSUME NEW u \in Tasks, InUse(u)', ~inode.valid, inode.encrypted
              PROVE  (\E v \in Tasks : Reading(v)') /\ (InContents => ~inode'.inXattr)
  BY DEF Plain
<1>1. InUse(u)
  BY DEF InUse, Others
<1>2. PICK v \in Tasks : Reading(v)
  BY <1>1 DEF SizeInv, Plain
<1>3. Reading(v)'
  <2>1. pc'[v] = pc[v] /\ call'[v] = call[v]
    BY <1>2 DEF Others
  <2>. QED  BY <1>2, <2>1 DEF Reading
<1>. QED  BY <1>1, <1>3 DEF SizeInv, Plain

LEMMA SeenStored ==
    ASSUME FileTyped', NEW t \in Tasks, seen'[t] = MetaSize'
    PROVE  seen'[t] <= MetaSize'
<1>1. MetaSize' \in Nat
  BY SizesTypedNext
<1>. QED  BY <1>1

LEMMA SizeReadsSize ==
    ASSUME Control, Control', KeyInv, SizeInv, NEW t \in Tasks,
           read_and_validate_header_region(t) \/ read_and_validate_xattr_region(t) \/ write_inode_size_to_metadata(t)
    PROVE  SizeInv'
<1>. USE DEF At, To, Sees
<1>0. FileTyped /\ FileTyped' /\ SizeAt(t) /\ OneMeta /\ PlaceOf(t) /\ call[t] \in Calls
  BY DEF Control, FileTyped, SizeInv, KeyInv
<1>1. PICK p \in {"stat set", "stat xattr", "stat set xattr", "stat end", "size store"} :
         /\ pc' = [pc EXCEPT ![t] = p] /\ UNCHANGED <<call, lower, inode, stale>>
         /\ p \in {"stat set", "stat xattr"} => pc[t] = "stat"
         /\ p = "stat xattr" => ~InContents
         /\ p = "stat set" => InContents /\ seen' = [seen EXCEPT ![t] = lower.contents.size]
         /\ p \in {"stat set xattr", "stat end"} => pc[t] = "stat xattr"
         /\ p = "stat end" => ~InXattr
         /\ p = "stat set xattr" => InXattr /\ seen' = [seen EXCEPT ![t] = lower.xattr.size]
         /\ p = "size store" => pc[t] = "size"
  BY DEF read_and_validate_header_region, read_and_validate_xattr_region, write_inode_size_to_metadata, InContents, InXattr
<1>2. \A u \in Others(t) : seen'[u] = seen[u]
  <2>1. seen' = seen \/ \E n : seen' = [seen EXCEPT ![t] = n]
    BY DEF read_and_validate_header_region, read_and_validate_xattr_region, write_inode_size_to_metadata
  <2>. QED  BY <1>0, <2>1 DEF FileTyped, Others
<1>3. /\ pc'[t] = p /\ call'[t] = call[t] /\ p \in Places /\ Busy(t)
      /\ pc[t] # "size" => call[t] = "lookup"
  <2>1. p \in Places
    <3>1. p \in PlacesOf("lookup") \cup PlacesOf("open") /\ {"lookup", "open"} \subseteq Calls
      BY DEF PlacesOf, Calls
    <3>. QED  BY <3>1 DEF Places
  <2>2. pc[t] \in {"stat", "stat xattr", "size"}
    BY <1>1
  <2>. QED  BY <1>0, <1>1, <2>1, <2>2 DEF FileTyped, Busy, PlaceOf, PlacesOf, Calls
<1>4. ~Reading(t) /\ (InUse(t)' => InUse(t)) /\ (Writing(t) => Writing(t)')
  BY <1>1, <1>3 DEF Reading, InUse, Writing
<1>5. Shown(t)' => Shown(t) \/ ~Having
  <2>1. CASE p = "stat end"
    BY <1>0, <1>1, <2>1 DEF Shown, SizeAt, Having
  <2>2. CASE p # "stat end"
    <3>1. LooksUpNew(t)' <=> LooksUpNew(t)
      BY <1>1 DEF LooksUpNew
    <3>. QED  BY <1>3, <2>2, <3>1 DEF Shown
  <2>. QED  BY <2>1, <2>2
<1>6. MetaSize' = MetaSize /\ (InContents' <=> InContents)
  BY <1>1 DEF MetaSize, InContents
<1>7. p \in {"stat set", "stat set xattr"} => seen'[t] = MetaSize'
  <2>1. p = "stat set" => seen'[t] = lower.contents.size
    BY <1>0, <1>1 DEF FileTyped
  <2>2. p = "stat set xattr" => seen'[t] = lower.xattr.size
    BY <1>0, <1>1 DEF FileTyped
  <2>. QED  BY <1>0, <1>1, <1>6, <2>1, <2>2 DEF MetaSize, OneMeta
<1>8. SizeAt(t)'
  <2>1. p \in {"stat set", "stat set xattr"} => seen'[t] <= MetaSize'
    BY <1>0, <1>7, SeenStored
  <2>2. p = "stat set xattr" /\ ~lower.nonempty => seen'[t] = 0
    BY <1>0, <1>1 DEF SizeInv, Empty, FileTyped
  <2>3. p = "stat set" => lower.nonempty
    BY <1>0, <1>1 DEF OneMeta
  <2>4. p = "size store" => lower.nonempty
    BY <1>0, <1>1 DEF SizeAt, Writing
  <2>5. call[t] # "create"
    BY <1>0, <1>1, <1>3 DEF PlaceOf, PlacesOf
  <2>6. ~lower'.nonempty => ~Writing(t)' /\ (Setting(t)' => seen'[t] = 0)
    BY <1>1, <1>3, <2>2, <2>3, <2>4 DEF Writing, Setting
  <2>7. Setting(t)' => seen'[t] <= MetaSize' /\ seen'[t] = MetaSize'
    BY <1>3, <1>7, <2>1 DEF Setting
  <2>. QED  BY <1>1, <1>3, <1>6, <2>5, <2>6, <2>7 DEF SizeAt
<1>. QED  BY <1>0, <1>1, <1>2, <1>3, <1>4, <1>5, <1>8, MovesSize

LEMMA SizeSetEqual ==
    ASSUME Control, FileTyped', SizeInv, NEW t \in Tasks, Setting(t), Having, MetaSize' = MetaSize, inode'.size = seen[t],
           inode.new = t \/ Known, stale' = (stale \/ (inode.new # t /\ seen[t] # inode.size))
    PROVE  SizeEqual'
<1>1. CASE stale'
  BY <1>1 DEF SizeEqual
<1>2. CASE ~stale'
  <2>1. ~stale /\ seen[t] <= MetaSize /\ SizeAt(t)
    BY <1>2 DEF SizeInv, SizeAt
  <2>2. CASE inode.new = t
    <3>1. seen[t] = MetaSize
      BY <2>1, <2>2 DEF SizeAt
    <3>. QED  BY <3>1, EqualNow
  <2>3. CASE inode.new # t
    <3>1. seen[t] = inode.size /\ MetaSize <= inode.size
      BY <1>2, <2>1, <2>3 DEF SizeInv, SizeEqual
    <3>2. seen[t] \in Nat /\ MetaSize \in Nat
      BY SizesTyped DEF Control
    <3>3. seen[t] = MetaSize
      BY <2>1, <3>1, <3>2
    <3>. QED  BY <3>3, EqualNow
  <2>. QED  BY <2>2, <2>3
<1>. QED  BY <1>1, <1>2

LEMMA SizeSetSize ==
    ASSUME Control, Control', KeyInv, SizeInv, NEW t \in Tasks, i_size_init(t)
    PROVE  SizeInv'
<1>. USE DEF Sees
<1>0. /\ FileTyped /\ FileTyped' /\ inode \in Inode /\ SizeAt(t) /\ Free(t) /\ OneMeta /\ PlaceOf(t) /\ Busy(t) /\ Setting(t)
      /\ call[t] \in Calls
  BY DEF Control, FileTyped, SizeInv, KeyInv, i_size_init, Busy, Setting
<1>1. /\ pc' = [pc EXCEPT ![t] = "stat end"] /\ lower' = lower /\ call' = call /\ seen' = [seen EXCEPT ![t] = 0]
      /\ inode' = [inode EXCEPT !.size = seen[t], !.sized = TRUE, !.inXattr = @ \/ pc[t] = "stat set xattr"]
      /\ stale' = (stale \/ (inode.new # t /\ seen[t] # inode.size))
  BY DEF i_size_init
<1>2. /\ pc'[t] = "stat end" /\ call[t] = "lookup" /\ call'[t] = "lookup"
      /\ \A u \in Others(t) : pc'[u] = pc[u] /\ call'[u] = call[u] /\ seen'[u] = seen[u] /\ inode.new # u
  BY <1>0, <1>1, NoOthers DEF FileTyped, Others, PlaceOf, PlacesOf, Calls, Setting
<1>3. /\ inode'.cached = inode.cached /\ inode'.new = inode.new /\ inode'.policy = inode.policy
      /\ inode'.valid = inode.valid /\ inode'.encrypted = inode.encrypted /\ inode'.sized /\ inode'.size = seen[t]
      /\ inode'.inXattr <=> inode.inXattr \/ pc[t] = "stat set xattr"
  BY <1>0, <1>1 DEF Inode
<1>4. (InContents' <=> InContents) /\ MetaSize' = MetaSize /\ (pc[t] = "stat set xattr" => ~InContents) /\ Having
  BY <1>0, <1>1 DEF InContents, InXattr, MetaSize, Free, OneMeta, Having, Setting
<1>5. MetaSize <= MetaSize'
  BY <1>0, <1>4, NotLess
<1>6. SizeCalm(t)
  BY <1>1, <1>2, <1>3, <1>5 DEF SizeCalm
<1>7. Empty'
  BY <1>0, <1>1, <1>3 DEF SizeInv, Empty, SizeAt
<1>8. Plain'
  <2>1. ~Reading(t) /\ ~InUse(t)'
    BY <1>0, <1>2 DEF Setting, Reading, InUse
  <2>. QED  BY <1>2, <1>3, <1>4, <2>1, PlainKept
<1>9. SizeEqual'
  <2>1. inode.new # t => Known
    <3>1. inode.new # t => \A u \in Tasks : Shown(u)
      BY <1>2 DEF Shown, LooksUpNew, Others
    <3>. QED  BY <1>0, <3>1 DEF Known, PlaceOf
  <2>. QED  BY <1>0, <1>1, <1>3, <1>4, <2>1, SizeSetEqual
<1>10. SizeAt(t)'
  BY <1>2 DEF SizeAt, Writing, Setting
<1>. QED  BY <1>0, <1>6, <1>7, <1>8, <1>9, <1>10, CalmSize

LEMMA SizeEndSize ==
    ASSUME Control, Control', KeyInv, SizeInv, NEW t \in Tasks, lookup_end(t)
    PROVE  SizeInv'
<1>. USE DEF At, To
<1>0. FileTyped /\ FileTyped' /\ inode \in Inode /\ Busy(t)
  BY DEF Control, FileTyped, lookup_end, Busy
<1>1. /\ pc[t] = "stat end" /\ pc' = [pc EXCEPT ![t] = "idle"] /\ UNCHANGED <<call, seen, lower, stale>>
      /\ inode' = [inode EXCEPT !.new = IF inode.new = t THEN None ELSE inode.new]
  BY DEF lookup_end
<1>2. /\ pc'[t] = "idle"
      /\ \A u \in Others(t) : pc'[u] = pc[u] /\ call'[u] = call[u] /\ seen'[u] = seen[u] /\ inode.new # u
  BY <1>0, <1>1, NoOthers DEF FileTyped, Others
<1>3. SameSize
  BY <1>0, <1>1 DEF SameSize, Inode
<1>4. \A u \in Others(t) : inode'.new # u
  BY <1>0, <1>1, <1>2, NoTask DEF Inode, Others
<1>5. ~InUse(t)' /\ ~Reading(t) /\ ~Writing(t) /\ Shown(t) /\ SizeAt(t)'
  <2>1. inode'.new # t
    BY <1>0, <1>1, NoTask DEF Inode
  <2>2. ~InUse(t)' /\ ~Reading(t) /\ ~Writing(t) /\ Shown(t)
    BY <1>1, <1>2 DEF InUse, Reading, Writing, Shown
  <2>3. SizeAt(t)'
    BY <1>2 DEF SizeAt, Writing, Setting, Busy
  <2>. QED  BY <2>2, <2>3
<1>. QED  BY <1>0, <1>2, <1>3, <1>4, <1>5, SteadySize

(* A size is stored where the flag says.  Where it says the xattr and the  *)
(* metadata are in the contents, the one in the contents stays.            *)
LEMMA SizeStoredEqual ==
    ASSUME Control, FileTyped', KeyInv, SizeInv, NEW t \in Tasks, InUse(t), inode.policy, Known, UNCHANGED inode, ~stale',
           \A u \in Tasks \ {t} : Writing(u) => Writing(u)',
           stale' = (stale \/ seen[t] # inode.size),
           InContents' <=> InContents, InXattr' <=> InXattr, InXattr => inode.inXattr,
           inode.inXattr => lower'.xattr.size = seen[t] /\ lower'.contents = lower.contents,
           ~inode.inXattr => lower'.contents.size = seen[t]
    PROVE  SizeEqual' /\ (Having => MetaSize <= MetaSize')
<1>1. ~stale /\ seen[t] = inode.size /\ inode.size \in Nat
  BY SizesTyped DEF Control
<1>2. Having => MetaSize <= inode.size
  BY <1>1 DEF SizeInv, SizeEqual
<1>3. CASE ~Having
  BY <1>3 DEF SizeEqual, Having
<1>4. CASE Having /\ (inode.inXattr => ~InContents)
  <2>1. MetaSize' = inode.size
    BY <1>1, <1>4 DEF MetaSize, Having
  <2>2. SizeEqual'
    BY <2>1, EqualNow
  <2>. QED  BY <1>2, <1>4, <2>1, <2>2
<1>5. CASE Having /\ inode.inXattr /\ InContents
  <2>1. MetaSize' = MetaSize
    BY <1>5 DEF MetaSize
  <2>2. Due' => inode.size = MetaSize
    <3>. SUFFICES ASSUME Due' PROVE inode.size = MetaSize
      OBVIOUS
    <3>1. ~Misled /\ ~inode.valid
      BY <1>5 DEF Due, Misled
    <3>2. ~inode.encrypted
      BY <1>5, <3>1 DEF SizeInv, Plain
    <3>3. inode.sized
      BY <3>1 DEF Due, Fixed
    <3>. QED  BY <1>1, <1>5, <3>1, <3>2, <3>3 DEF Due, SizeInv, SizeEqual
  <2>3. SizeEqual'
    BY <1>2, <1>5, <2>1, <2>2 DEF SizeEqual
  <2>4. MetaSize <= MetaSize'
    BY <2>1, NotLess DEF Control
  <2>. QED  BY <2>3, <2>4
<1>. QED  BY <1>3, <1>4, <1>5

LEMMA SizeStoreSize ==
    ASSUME Control, Control', KeyInv, SizeInv, NEW t \in Tasks, write_inode_size_store(t)
    PROVE  SizeInv'
<1>. USE DEF At, Sees
<1>0. /\ FileTyped /\ FileTyped' /\ lower \in LowerFile /\ SizeAt(t) /\ Free(t) /\ PlaceOf(t) /\ call[t] \in Calls
      /\ pc[t] = "size store" /\ Busy(t) /\ InUse(t) /\ Writing(t)
  BY DEF Control, FileTyped, SizeInv, KeyInv, write_inode_size_store, Busy, InUse, Writing
<1>1. /\ pc' = [pc EXCEPT ![t] = "opened"] /\ call' = call /\ seen' = [seen EXCEPT ![t] = 0] /\ inode' = inode
      /\ stale' = (stale \/ seen[t] # inode.size)
  BY DEF write_inode_size_store
<1>2. /\ pc'[t] = "opened" /\ call[t] = "open" /\ call'[t] = "open" /\ inode.policy /\ lower.nonempty /\ inode.new # t
      /\ \A u \in Others(t) : pc'[u] = pc[u] /\ call'[u] = call[u] /\ seen'[u] = seen[u] /\ inode.new # u
  BY <1>0, <1>1, NoOthers DEF FileTyped, Others, PlaceOf, PlacesOf, Calls, Free, SizeAt
<1>3. /\ lower'.nonempty /\ lower'.contents.sigs = lower.contents.sigs /\ lower'.xattr.sigs = lower.xattr.sigs
      /\ inode.inXattr => lower'.xattr.size = seen[t] /\ lower'.contents = lower.contents
      /\ ~inode.inXattr => lower'.contents.size = seen[t]
  BY <1>0, <1>2 DEF write_inode_size_store, LowerFile, Meta
<1>4. (InContents' <=> InContents) /\ (InXattr' <=> InXattr)
  BY <1>3 DEF InContents, InXattr, IsMeta
<1>5. \A u \in Tasks : ~LooksUpNew(u)
  BY <1>2 DEF LooksUpNew, Others
<1>6. Known /\ (InXattr => inode.inXattr)
  <2>1. inode.cached
    BY <1>0 DEF PlaceOf
  <2>. QED  BY <1>5, <2>1 DEF Known, Shown, KeyInv, Flagged
<1>7. ~stale' => SizeEqual' /\ (Having => MetaSize <= MetaSize')
  <2>1. \A u \in Tasks \ {t} : Writing(u) => Writing(u)'
    BY <1>2 DEF Writing, Others
  <2>. QED  BY <1>0, <1>1, <1>2, <1>3, <1>4, <1>6, <2>1, SizeStoredEqual
<1>8. SizeEqual'
  BY <1>7 DEF SizeEqual
<1>9. SizeCalm(t)
  BY <1>1, <1>2, <1>3, <1>7 DEF SizeCalm
<1>10. Empty'
  BY <1>3 DEF Empty
<1>11. Plain'
  <2>1. ~Reading(t)
    BY <1>0 DEF Reading
  <2>. QED  BY <1>0, <1>1, <1>2, <1>4, <2>1, PlainKept
<1>12. SizeAt(t)'
  BY <1>2, <1>3 DEF SizeAt, Writing, Setting
<1>. QED  BY <1>0, <1>8, <1>9, <1>10, <1>11, <1>12, CalmSize

LEMMA GrowsEqual ==
    ASSUME FileTyped, KeyInv, SizeInv, inode'.size = inode.size + 1, inode'.encrypted, NEW t \in Tasks, Writing(t)',
           MetaSize' = MetaSize, Having' => Having, Known' => Known, stale' = stale
    PROVE  SizeEqual'
<1>1. ~Due'
  BY DEF Due
<1>2. inode.size \in Nat /\ MetaSize \in Nat
  BY SizesTyped
<1>3. MetaSize <= inode.size => MetaSize <= inode'.size
  BY <1>2
<1>. QED  BY <1>1, <1>3 DEF SizeInv, SizeEqual

LEMMA WritingSize ==
    ASSUME Control, Control', KeyInv, SizeInv, NEW t \in Tasks, write(t) \/ release(t)
    PROVE  SizeInv'
<1>. USE DEF At, To
<1>0. /\ FileTyped /\ FileTyped' /\ inode \in Inode /\ lower \in LowerFile /\ SizeAt(t) /\ PlaceOf(t) /\ call[t] \in Calls
      /\ pc[t] = "opened" /\ Busy(t) /\ InUse(t) /\ ~Reading(t) /\ ~Writing(t)
  BY DEF Control, FileTyped, SizeInv, write, release, Busy, InUse, Reading, Writing
<1>1. call[t] = "open" /\ inode.new # t /\ Shown(t)
  BY <1>0 DEF PlaceOf, PlacesOf, Calls, Shown, LooksUpNew
<1>2. CASE write(t)
  <2>1. /\ pc' = [pc EXCEPT ![t] = "size"] /\ call' = call /\ seen' = seen /\ stale' = stale /\ inode.encrypted
        /\ lower' = [lower EXCEPT !.nonempty = TRUE] /\ inode' = [inode EXCEPT !.size = inode.size + 1]
    BY <1>2 DEF write
  <2>2. /\ pc'[t] = "size" /\ call'[t] = "open"
        /\ \A u \in Others(t) : pc'[u] = pc[u] /\ call'[u] = call[u] /\ seen'[u] = seen[u] /\ inode.new # u
    BY <1>0, <1>1, <2>1, NoOthers DEF FileTyped, Others
  <2>3. /\ inode'.cached = inode.cached /\ inode'.new = inode.new /\ inode'.policy = inode.policy /\ inode'.sized = inode.sized
        /\ inode'.valid = inode.valid /\ inode'.encrypted = inode.encrypted /\ inode'.inXattr = inode.inXattr
        /\ inode'.size = inode.size + 1
        /\ lower'.nonempty /\ lower'.contents = lower.contents /\ lower'.xattr = lower.xattr
    BY <1>0, <2>1 DEF Inode, LowerFile
  <2>4. (InContents' <=> InContents) /\ (Having' <=> Having) /\ MetaSize' = MetaSize
    BY <2>3 DEF InContents, InXattr, Having, MetaSize
  <2>5. MetaSize <= MetaSize'
    BY <1>0, <2>4, NotLess
  <2>6. SizeCalm(t)
    BY <2>1, <2>2, <2>3, <2>5 DEF SizeCalm
  <2>7. Known' => Known
    <3>1. ASSUME NEW u \in Tasks PROVE Shown(u)
      <4>1. CASE u = t
        BY <1>1, <4>1
      <4>2. CASE u # t
        BY <2>2, <4>2 DEF Shown, LooksUpNew, Others
      <4>. QED  BY <4>1, <4>2
    <3>. QED  BY <2>3, <3>1 DEF Known
  <2>8. Writing(t)'
    BY <2>2 DEF Writing
  <2>9. SizeEqual'
    BY <1>0, <2>1, <2>3, <2>4, <2>7, <2>8, GrowsEqual
  <2>10. Plain'
    BY <1>0, <2>2, <2>3, <2>4, PlainKept
  <2>11. Empty' /\ SizeAt(t)'
    BY <2>2, <2>3 DEF Empty, SizeAt, Setting
  <2>. QED  BY <1>0, <2>6, <2>9, <2>10, <2>11, CalmSize
<1>3. CASE release(t)
  <2>1. pc' = [pc EXCEPT ![t] = "put"] /\ UNCHANGED <<call, seen, lower, inode, stale>>
    BY <1>3 DEF release
  <2>2. "put" \in Places /\ pc'[t] = "put" /\ call'[t] = "open"
    <3>1. "put" \in Places
      BY DEF Places, PlacesOf, Calls
    <3>. QED  BY <1>0, <1>1, <2>1, <3>1 DEF FileTyped
  <2>3. ~InUse(t)' /\ SizeAt(t)'
    BY <2>2 DEF InUse, SizeAt, Writing, Setting
  <2>. QED  BY <1>0, <1>1, <2>1, <2>2, <2>3, MovesSize
<1>. QED  BY <1>2, <1>3

(* A call of a file that it creates or first looks up is alone.            *)
LEMMA FreshSize ==
    ASSUME Control, Control', NEW t \in Tasks, inode' = Fresh(t), Empty',
           \/ pc'[t] = "get" /\ call'[t] = "lookup"
           \/ pc'[t] = "context" /\ call'[t] = "create" /\ ~lower'.nonempty /\ ~Having'
    PROVE  SizeInv'
<1>1. inode'.new = t /\ pc'[t] \in {"get", "context"}
  BY DEF Fresh, Gone
<1>2. \A u \in Others(t) : pc'[u] = "idle"
  BY <1>1 DEF Control, Alone, Others
<1>3. \A u \in Tasks : ~InUse(u)' /\ ~Writing(u)' /\ ~Setting(u)' /\ (Busy(u)' => u = t)
  BY <1>1, <1>2 DEF InUse, Writing, Setting, Busy, Others
<1>4. pc'[t] # "stat xattr" /\ pc'[t] # "stat end" /\ \A u \in Others(t) : pc'[u] # "stat xattr"
  BY <1>1, <1>2
<1>5. \A u \in Tasks : SizeAt(u)'
  BY <1>1, <1>2, <1>3, <1>4 DEF SizeAt, Others
<1>6. SizeEqual'
  <2>1. ~Having' \/ ~Shown(t)'
    BY <1>1, <1>4 DEF Shown, LooksUpNew
  <2>. QED  BY <2>1 DEF SizeEqual, Known
<1>. QED  BY <1>3, <1>5, <1>6 DEF SizeInv, Plain

LEMMA OpeningSize ==
    ASSUME Control, Control', KeyInv, SizeInv, NEW t \in Tasks, open(t), ~inode.policy
    PROVE  SizeInv'
<1>0. /\ FileTyped /\ FileTyped' /\ inode \in Inode /\ pc[t] = "idle" /\ csMutex = None /\ inode.new = None
      /\ UNCHANGED <<lower, stale, seen>> /\ None \notin Tasks
  BY NoTask DEF Control, FileTyped, open, Call
<1>1. /\ inode' = [inode EXCEPT !.policy = TRUE, !.encrypted = TRUE]
      /\ pc' = [pc EXCEPT ![t] = "get"] /\ call' = [call EXCEPT ![t] = "open"]
  BY DEF open, Call
<1>2. /\ pc'[t] = "get" /\ call'[t] = "open"
      /\ \A u \in Others(t) : pc'[u] = pc[u] /\ call'[u] = call[u] /\ seen'[u] = seen[u] /\ inode.new # u
  BY <1>0, <1>1 DEF FileTyped, Others
<1>3. /\ inode'.cached = inode.cached /\ inode'.new = None /\ inode'.valid = inode.valid /\ inode'.sized = inode.sized
      /\ inode'.policy /\ inode'.encrypted /\ inode'.inXattr = inode.inXattr /\ inode'.size = inode.size
  BY <1>0, <1>1 DEF Inode
<1>4. (InContents' <=> InContents) /\ (Having' <=> Having) /\ MetaSize' = MetaSize /\ MetaSize <= MetaSize'
  BY <1>0, NotLess DEF InContents, InXattr, Having, MetaSize
<1>5. \A u \in Tasks : ~InUse(u)
  <2>1. ASSUME NEW u \in Tasks, InUse(u) PROVE FALSE
    <3>1. PlaceOf(u) /\ Free(u) /\ call[u] \in Calls /\ Busy(u)
      BY <2>1 DEF Control, KeyInv, FileTyped, InUse, Busy
    <3>2. call[u] = "open"
      BY <2>1, <3>1 DEF PlaceOf, PlacesOf, Calls, InUse
    <3>. QED  BY <3>1, <3>2 DEF Free
  <2>. QED  BY <2>1
<1>6. Plain'
  <2>1. \A u \in Tasks : ~InUse(u)'
    BY <1>2, <1>5 DEF InUse, Others
  <2>. QED  BY <2>1 DEF Plain
<1>7. SizeCalm(t)
  BY <1>0, <1>2, <1>3, <1>4 DEF SizeCalm, Others
<1>8. Empty' /\ SizeAt(t)'
  BY <1>0, <1>2, <1>3 DEF SizeInv, Empty, SizeAt, Writing, Setting, LooksUpNew
<1>9. Known' => Known
  <2>1. \A u \in Tasks : Shown(u)
    BY <1>0 DEF Shown, LooksUpNew
  <2>. QED  BY <1>3, <2>1 DEF Known
<1>10. Due' => Due
  <2>1. \A u \in Tasks : Writing(u) => Writing(u)'
    BY <1>0, <1>2 DEF Writing, Others
  <2>. QED  BY <1>3, <2>1 DEF Due, Misled, Fixed
<1>11. SizeEqual'
  BY <1>0, <1>3, <1>4, <1>9, <1>10, EqualKept
<1>. QED  BY <1>0, <1>6, <1>7, <1>8, <1>11, CalmSize

LEMMA CallingSize ==
    ASSUME Control, Control', KeyInv, SizeInv, NEW t \in Tasks, Calling(t)
    PROVE  SizeInv'
<1>. USE DEF Call
<1>0. /\ FileTyped /\ FileTyped' /\ pc[t] = "idle" /\ None \notin Tasks /\ UNCHANGED <<seen, stale>>
      /\ ~Reading(t) /\ ~Writing(t) /\ Empty
  <2>1. FileTyped /\ FileTyped' /\ pc[t] = "idle" /\ UNCHANGED <<seen, stale>> /\ Empty
    BY DEF Control, SizeInv, Calling, create, lookup, open, setattr
  <2>. QED  BY <2>1, NoTask DEF Reading, Writing
<1>1. CASE create(t)
  <2>1. /\ pc' = [pc EXCEPT ![t] = "context"] /\ call' = [call EXCEPT ![t] = "create"]
        /\ inode' = Fresh(t) /\ lower' = [NoFile EXCEPT !.exists = TRUE]
    BY <1>1 DEF create
  <2>2. pc'[t] = "context" /\ call'[t] = "create"
    BY <1>0, <2>1 DEF FileTyped
  <2>3. ~lower'.nonempty /\ ~Having' /\ Empty'
    BY <2>1 DEF NoFile, NoMeta, Having, InContents, InXattr, IsMeta, Empty, Fresh, Gone
  <2>. QED  BY <2>1, <2>2, <2>3, FreshSize
<1>2. CASE lookup(t) /\ ~inode.cached
  <2>1. /\ pc' = [pc EXCEPT ![t] = "get"] /\ call' = [call EXCEPT ![t] = "lookup"]
        /\ inode' = Fresh(t) /\ lower' = lower
    BY <1>2 DEF lookup
  <2>2. pc'[t] = "get" /\ call'[t] = "lookup"
    BY <1>0, <2>1 DEF FileTyped
  <2>3. Empty'
    BY <1>0, <2>1 DEF Empty, Fresh, Gone
  <2>. QED  BY <2>1, <2>2, <2>3, FreshSize
<1>3. CASE open(t) /\ ~inode.policy
  BY <1>3, OpeningSize
<1>4. CASE (lookup(t) /\ inode.cached) \/ setattr(t) \/ (open(t) /\ inode.policy)
  <2>1. UNCHANGED <<lower, inode>> /\ inode.new = None
    BY <1>4 DEF lookup, setattr, open
  <2>2. PICK p \in {"get", "attr"}, c \in {"lookup", "setattr", "open"} :
           pc' = [pc EXCEPT ![t] = p] /\ call' = [call EXCEPT ![t] = c]
    BY <1>4 DEF lookup, setattr, open
  <2>3. /\ pc'[t] = p /\ call'[t] = c
        /\ \A u \in Others(t) : pc'[u] = pc[u] /\ call'[u] = call[u] /\ seen'[u] = seen[u] /\ inode.new # u /\ inode'.new # u
    BY <1>0, <2>1, <2>2 DEF FileTyped, Others
  <2>4. SameSize
    BY <1>0, <2>1 DEF SameSize
  <2>5. ~InUse(t)' /\ Shown(t)
    BY <1>0, <2>1, <2>3 DEF InUse, Shown, LooksUpNew
  <2>6. SizeAt(t)'
    BY <1>0, <2>1, <2>3 DEF SizeAt, Writing, Setting, LooksUpNew
  <2>. QED  BY <1>0, <2>3, <2>4, <2>5, <2>6, SteadySize
<1>. QED  BY <1>1, <1>2, <1>3, <1>4 DEF Calling

LEMMA MountingSize ==
    ASSUME Control, Control', KeyInv, SizeInv, NEW t \in Tasks, Mounting(t)
    PROVE  SizeInv'
<1>0. /\ FileTyped /\ FileTyped' /\ (\A u \in Tasks : PlaceOf(u) /\ ~Busy(u))
      /\ UNCHANGED <<lower, inode, call, seen, stale>>
  BY DEF Control, Alone, Mounting, mount, mount_end, At, To, Busy
<1>1. pc'[t] \in {"idle", "mount"} /\ \A u \in Others(t) : pc'[u] = pc[u] /\ call'[u] = call[u]
  BY <1>0 DEF Mounting, mount, mount_end, To, FileTyped, Others
<1>2. SameSize /\ \A u \in Tasks : inode.new # u /\ inode'.new # u
  BY <1>0 DEF SameSize, PlaceOf
<1>3. ~InUse(t)' /\ ~Reading(t) /\ ~Writing(t) /\ Shown(t)
  BY <1>0, <1>1, <1>2 DEF InUse, Reading, Writing, Busy, Shown, LooksUpNew
<1>4. SizeAt(t)'
  BY <1>1, <1>2 DEF SizeAt, Writing, Setting, LooksUpNew, Busy
<1>. QED  BY <1>0, <1>1, <1>2, <1>3, <1>4, SteadySize DEF Others

THEOREM SizeInvStep == Control /\ Control' /\ KeyInv /\ SizeInv /\ [Next]_vars => SizeInv'
<1>. SUFFICES ASSUME Control, Control', KeyInv, SizeInv, [Next]_vars PROVE SizeInv'
  OBVIOUS
<1>1. CASE UNCHANGED vars
  BY <1>1, UnmovedSize DEF vars, taskVars
<1>2. CASE \E t \in Tasks : Step(t)
  <2>1. PICK t \in Tasks : Step(t)
    BY <1>2
  <2>2. CASE keys(t)
    BY <2>2, UnmovedSize DEF keys, taskVars
  <2>3. CASE Size(t)
    BY <2>3, SizeReadsSize, SizeSetSize, SizeEndSize, SizeStoreSize DEF Size
  <2>. QED  BY <2>1, <2>2, <2>3, GetsAndPutsSize, InitializeSize, MetadataSize, AttributesSize, MountingSize
            DEF Step, Mounting
<1>3. CASE \E t \in Tasks : mount(t) \/ create(t) \/ lookup(t) \/ open(t) \/ write(t) \/ release(t) \/ setattr(t)
  BY <1>3, MountingSize, CallingSize, WritingSize DEF Mounting, Calling
<1>4. CASE \E k \in Sigs : user(k)
  BY <1>4, UnmovedSize DEF user, taskVars
<1>5. CASE ecryptfs_evict_inode
  <2>1. inode' = Gone /\ lower' = lower
    BY <1>5 DEF ecryptfs_evict_inode
  <2>2. Empty' /\ ~inode'.cached
    BY <2>1 DEF SizeInv, Empty, Gone
  <2>. QED  BY <2>2, GoneKeepsSize
<1>6. CASE kill_block_super
  BY <1>6, UnmovedSize DEF kill_block_super, taskVars
<1>. QED  BY <1>1, <1>2, <1>3, <1>4, <1>5, <1>6 DEF Next

THEOREM SizeInvInit == Init => SizeInv
<1>. SUFFICES ASSUME Init PROVE SizeInv
  OBVIOUS
<1>1. /\ ~inode.cached /\ inode.size = 0 /\ inode.new = None /\ lower \in Files
      /\ \A t \in Tasks : pc[t] = "idle" /\ ~Busy(t) /\ ~LooksUpNew(t)
  BY NoTask DEF Init, Gone, Busy, LooksUpNew
<1>2. Empty
  BY <1>1, OpenAssumption DEF Empty
<1>3. \A t \in Tasks : SizeAt(t) /\ ~InUse(t)
  BY <1>1 DEF SizeAt, Writing, Setting, InUse
<1>. QED  BY <1>1, <1>2, <1>3 DEF SizeInv, Plain, SizeEqual, Known

(* Nothing is known of an inode that is not in the cache.                  *)
Dropped == inode.cached \/ ~inode.valid

LEMMA BusyDropped ==
    ASSUME Control', NEW t \in Tasks, pc'[t] \notin {"idle", "mount"}
    PROVE  Dropped'
<1>1. Busy(t)' /\ PlaceOf(t)'
  BY DEF Busy, Control
<1>. QED  BY <1>1 DEF PlaceOf, Dropped

LEMMA SameDropped ==
    ASSUME Dropped, \/ inode'.cached = inode.cached /\ (inode'.valid => inode.valid)
                    \/ inode' = inode
                    \/ inode' = Gone
    PROVE  Dropped'
BY DEF Dropped, Gone

LEMMA GetsAndPutsDropped ==
    ASSUME Control, Control', Dropped, NEW t \in Tasks, GetsAndPuts(t)
    PROVE  Dropped'
<1>1. inode \in Inode
  BY DEF Control, FileTyped
<1>2. CASE get_lower_file_fails(t)
  <2>1. inode' = AfterFailedGet(t)
    BY <1>2 DEF get_lower_file_fails
  <2>2. \/ inode' = Gone \/ inode' = inode \/ inode' = [inode EXCEPT !.bad = TRUE]
    BY <2>1 DEF AfterFailedGet
  <2>3. inode' = [inode EXCEPT !.bad = TRUE] => inode'.cached = inode.cached /\ inode'.valid = inode.valid
    BY <1>1 DEF Inode
  <2>. QED  BY <2>2, <2>3, SameDropped
<1>3. CASE ~get_lower_file_fails(t)
  <2>1. inode' = inode
    BY <1>3 DEF GetsAndPuts, get_lower_file, ecryptfs_threadfn, get_lower_file_again, ecryptfs_put_lower_file
  <2>. QED  BY <2>1, SameDropped
<1>. QED  BY <1>2, <1>3

LEMMA GiveUpDropped ==
    ASSUME Control, Control', Dropped, NEW t \in Tasks, NEW i, GiveUp(t, i)
    PROVE  Dropped'
<1>1. CASE call[t] = "create"
  BY <1>1, SameDropped DEF GiveUp
<1>2. CASE call[t] # "create"
  <2>1. pc' = [pc EXCEPT ![t] = "put"] /\ FileTyped
    BY <1>2 DEF GiveUp, To, Control
  <2>2. pc'[t] = "put"
    BY <2>1 DEF FileTyped
  <2>. QED  BY <2>2, BusyDropped
<1>. QED  BY <1>1, <1>2

LEMMA InitializeDropped ==
    ASSUME Control, Control', Dropped, NEW t \in Tasks, Initialize(t)
    PROVE  Dropped'
<1>0. FileTyped /\ inode \in Inode /\ pc \in [Tasks -> Places]
  BY DEF Control, FileTyped
<1>1. CASE new_file_context(t)
  <2>1. pc' = [pc EXCEPT ![t] = IF call[t] = "create" THEN "get" ELSE "get2"]
    BY <1>1 DEF new_file_context
  <2>. QED  BY <1>0, <2>1, BusyDropped
<1>2. CASE new_file_context_fails(t) \/ write_metadata_fails(t)
  BY <1>2, GiveUpDropped DEF new_file_context_fails, write_metadata_fails
<1>3. CASE generate_key_packet_set(t)
  BY <1>3, SameDropped DEF generate_key_packet_set
<1>4. CASE write_metadata(t)
  <2>1. inode' = [inode EXCEPT !.new = None] \/ inode' = [inode EXCEPT !.stray = FALSE]
    BY <1>4 DEF write_metadata
  <2>2. inode'.cached = inode.cached /\ inode'.valid = inode.valid
    BY <1>0, <2>1 DEF Inode
  <2>. QED  BY <2>2, SameDropped
<1>. QED  BY <1>1, <1>2, <1>3, <1>4 DEF Initialize

LEMMA AttributesDropped ==
    ASSUME Control, Control', Dropped, NEW t \in Tasks, Attributes(t)
    PROVE  Dropped'
<1>0. inode \in Inode
  BY DEF Control, FileTyped
<1>1. CASE setattr_lock(t)
  BY <1>1, SameDropped DEF setattr_lock
<1>2. CASE setattr_read_metadata(t)
  <2>1. inode' = [inode EXCEPT !.inXattr = inode.inXattr \/ mnt.xattr]
    BY <1>2 DEF setattr_read_metadata
  <2>2. inode'.cached = inode.cached /\ inode'.valid = inode.valid
    BY <1>0, <2>1 DEF Inode
  <2>. QED  BY <2>2, SameDropped
<1>3. CASE setattr_end(t)
  <2>1. \/ inode' = inode
        \/ inode' = [inode EXCEPT !.stray = inode.stray \/ inode.valid, !.encrypted = inode.encrypted /\ ~mnt.passthrough,
                                  !.sized = inode.sized /\ ~mnt.passthrough]
    BY <1>3 DEF setattr_end
  <2>2. inode'.cached = inode.cached /\ inode'.valid = inode.valid
    BY <1>0, <2>1 DEF Inode
  <2>. QED  BY <2>2, SameDropped
<1>. QED  BY <1>1, <1>2, <1>3 DEF Attributes

LEMMA MetadataDropped ==
    ASSUME Control, Control', Dropped, NEW t \in Tasks, Metadata(t)
    PROVE  Dropped'
<1>0. pc \in [Tasks -> Places]
  BY DEF Control, FileTyped
<1>1. PICK p \in {"opened", "contents", "put", "parse contents", "xattr", "parse xattr", "no metadata",
                  "attr read", "attr fails", "context"} : pc' = [pc EXCEPT ![t] = p]
  BY DEF Metadata, read_or_initialize_metadata, open_refused, read_contents, read_xattr, read_headers,
         parse_contents, parse_xattr, no_metadata, Opened, To
<1>2. pc'[t] = p
  BY <1>0, <1>1
<1>. QED  BY <1>2, BusyDropped

LEMMA SizeDropped ==
    ASSUME Control, Control', Dropped, NEW t \in Tasks, Size(t)
    PROVE  Dropped'
<1>0. inode \in Inode
  BY DEF Control, FileTyped
<1>1. CASE i_size_init(t)
  <2>1. PICK b \in BOOLEAN : inode' = [inode EXCEPT !.size = seen[t], !.sized = TRUE, !.inXattr = b]
    <3>1. inode.inXattr \in BOOLEAN
      BY <1>0, InodeFields
    <3>. QED  BY <1>1, <3>1 DEF i_size_init
  <2>2. inode'.cached = inode.cached /\ inode'.valid = inode.valid
    BY <1>0, <2>1 DEF Inode
  <2>. QED  BY <2>2, SameDropped
<1>2. CASE lookup_end(t)
  <2>1. PICK n : inode' = [inode EXCEPT !.new = n]
    BY <1>2 DEF lookup_end
  <2>2. inode'.cached = inode.cached /\ inode'.valid = inode.valid
    BY <1>0, <2>1 DEF Inode
  <2>. QED  BY <2>2, SameDropped
<1>3. CASE ~i_size_init(t) /\ ~lookup_end(t)
  <2>1. inode' = inode
    BY <1>3 DEF Size, read_and_validate_header_region, read_and_validate_xattr_region, write_inode_size_to_metadata,
                write_inode_size_store
  <2>. QED  BY <2>1, SameDropped
<1>. QED  BY <1>1, <1>2, <1>3

LEMMA CallsDropped ==
    ASSUME Control, Control', Dropped, NEW t \in Tasks, Mounting(t) \/ Calling(t) \/ write(t) \/ release(t)
    PROVE  Dropped'
<1>0. inode \in Inode /\ pc \in [Tasks -> Places]
  BY DEF Control, FileTyped
<1>1. CASE Mounting(t)
  BY <1>1, SameDropped DEF Mounting, mount, mount_end
<1>2. CASE Calling(t) \/ write(t) \/ release(t)
  <2>1. PICK p \in {"context", "get", "attr", "size", "put"} : pc' = [pc EXCEPT ![t] = p]
    BY <1>2 DEF Calling, create, lookup, open, setattr, Call, write, release, To
  <2>2. pc'[t] = p
    BY <1>0, <2>1
  <2>. QED  BY <2>2, BusyDropped
<1>. QED  BY <1>1, <1>2

LEMMA DroppedStep ==
    ASSUME Control, Control', Dropped, [Next]_vars
    PROVE  Dropped'
<1>1. CASE UNCHANGED vars
  BY <1>1, SameDropped DEF vars
<1>2. CASE \E t \in Tasks : Step(t)
  <2>1. PICK t \in Tasks : Step(t)
    BY <1>2
  <2>2. CASE keys(t)
    BY <2>2, SameDropped DEF keys
  <2>. QED  BY <2>1, <2>2, GetsAndPutsDropped, InitializeDropped, MetadataDropped, SizeDropped, AttributesDropped,
               CallsDropped DEF Step, Mounting
<1>3. CASE \E t \in Tasks : mount(t) \/ create(t) \/ lookup(t) \/ open(t) \/ write(t) \/ release(t) \/ setattr(t)
  BY <1>3, CallsDropped DEF Mounting, Calling
<1>4. CASE \E k \in Sigs : user(k)
  BY <1>4, SameDropped DEF user
<1>5. CASE ecryptfs_evict_inode \/ kill_block_super
  BY <1>5, SameDropped DEF ecryptfs_evict_inode, kill_block_super
<1>. QED  BY <1>1, <1>2, <1>3, <1>4, <1>5 DEF Next

(* The size of a file is the stored one when no write is at work, unless a *)
(* lookup or another write overtook one: i_size_init of a lookup and       *)
(* ecryptfs_write_inode_size_to_metadata of a write take no common lock.   *)
THEOREM SizeAlwaysKept == Spec => []SizeKept
<1>1. Init => OpenIInv /\ KeyInv /\ SizeInv /\ Dropped
  BY ControlInit, CountedInit, KeysHeldInit, KeyInvInit, SizeInvInit DEF OpenIInv, Init, Gone, Dropped
<1>2. OpenIInv /\ KeyInv /\ SizeInv /\ Dropped /\ [Next]_vars => (OpenIInv /\ KeyInv /\ SizeInv /\ Dropped)'
  BY ControlStep, CountedStep, KeysHeldStep, KeyInvStep, SizeInvStep, DroppedStep DEF OpenIInv
<1>3. OpenIInv /\ KeyInv /\ SizeInv /\ Dropped => SizeKept
  <2>. SUFFICES ASSUME Control, KeyInv, SizeInv, Dropped, ~stale, inode.valid, inode.encrypted, IsMeta(Stored),
                       \A t \in Tasks : ~Writing(t)
                PROVE  inode.size = Stored.size
    BY DEF SizeKept, OpenIInv, Writing
  <2>1. Known
    <3>1. inode.cached /\ \A t \in Tasks : ~LooksUpNew(t)
      BY DEF Dropped, KeyInv, Free
    <3>. QED  BY <3>1 DEF Known, Shown
  <2>2. Having /\ MetaSize = Stored.size /\ ~Misled
    BY DEF KeyInv, OneMeta, Stored, InContents, InXattr, Having, MetaSize, Misled
  <2>3. Due
    BY <2>2 DEF Due, Fixed
  <2>. QED  BY <2>1, <2>2, <2>3 DEF SizeInv, SizeEqual
<1>. QED  BY <1>1, <1>2, <1>3, PTL DEF Spec
=============================================================================
