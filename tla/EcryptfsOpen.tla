---------------------------- MODULE EcryptfsOpen ----------------------------
(***************************************************************************)
(* The life of one eCryptfs file under a mount: create, mknod, lookup,     *)
(* open, growing writes, release and eviction (inode.c, file.c), its one   *)
(* lower file (main.c, kthread.c) and its metadata (crypto.c), whose file  *)
(* encryption key (FEK) the tokens of EcryptfsKeys protect.                *)
(*                                                                         *)
(* Metadata stand in the lower file's contents or in its xattr.  A FEK is  *)
(* a number, 0 the key of zeros in a fresh crypt_stat.  Sizes are in pages.*)
(***************************************************************************)
EXTENDS EcryptfsKeys

CONSTANTS Mounts,      \* mount options: sigs in the order they were added, xattr, passthrough
          Files,       \* the lower file before the mount
          MaxCalls, MaxSize

IsMeta(m) == m.sigs # << >>
Meta == [fek : Nat, sigs : Seq(Sigs), size : Nat]
LowerFile == [exists : BOOLEAN, nonempty : BOOLEAN, contents : Meta, xattr : Meta]

(* A mount has a signature at least, and each once.  Metadata are in one   *)
(* place, and there none of a size in an empty file.                       *)
ASSUME OpenAssumption ==
  /\ MaxCalls \in Nat /\ MaxSize \in Nat
  /\ Files \subseteq LowerFile
  /\ \A f \in Files : /\ ~(IsMeta(f.contents) /\ IsMeta(f.xattr))
                      /\ ~f.nonempty => ~IsMeta(f.contents) /\ f.xattr.size = 0
  /\ \A m \in Mounts : /\ m.sigs \in Seq(Sigs) /\ m.sigs # << >>
                       /\ \A i, j \in DOMAIN m.sigs : m.sigs[i] = m.sigs[j] => i = j
                       /\ m.xattr \in BOOLEAN /\ m.passthrough \in BOOLEAN

VARIABLES mnt, mounted,   \* the mount's options; "no", "yes" or "over"
          lower,          \* lower file: exists, nonempty, metadata in contents and in xattr
          inode,          \* the eCryptfs inode with its crypt_stat
          csMutex,        \* who holds crypt_stat.cs_mutex
          count, file, fileMutex,  \* lower_file_count, lower_file # NULL, lower_file_mutex's holder
          pc, call,       \* of each task: where it is in which call
          seen,           \* of each task: the size it read in a lookup
          feks, calls,    \* keys generated, calls made
          stale           \* a lookup set, or a write stored, a size that had changed meanwhile

fileVars == <<count, file, fileMutex>>
taskVars == <<pc, call, seen>>
vars == <<keyVars, mnt, mounted, lower, inode, csMutex, fileVars, taskVars, feks, calls, stale>>

NoMeta == [fek |-> 0, sigs |-> << >>, size |-> 0]
NoFile == [exists |-> FALSE, nonempty |-> FALSE, contents |-> NoMeta, xattr |-> NoMeta]
Gone == [cached |-> FALSE, new |-> None, policy |-> FALSE, valid |-> FALSE, encrypted |-> FALSE,
         inXattr |-> FALSE, fek |-> 0, sigs |-> << >>, size |-> 0, sized |-> FALSE, stray |-> FALSE, bad |-> FALSE]
Fresh(t) == [Gone EXCEPT !.cached = TRUE, !.new = t]
Init ==
  /\ KeysInit
  /\ mnt \in Mounts /\ mounted = "no" /\ lower \in Files /\ inode = Gone /\ csMutex = None
  /\ count = 0 /\ file = FALSE /\ fileMutex = None
  /\ pc = [t \in Tasks |-> "idle"] /\ call = [t \in Tasks |-> "none"] /\ seen = [t \in Tasks |-> 0]
  /\ feks = 1 /\ calls = 0 /\ stale = FALSE

At(t, place) == ~oops /\ pc[t] = place
To(t, place) == pc' = [pc EXCEPT ![t] = place] /\ UNCHANGED <<call, seen>>
Call(t, name, place) ==
  /\ ~oops /\ pc[t] = "idle" /\ mounted = "yes" /\ calls < MaxCalls /\ calls' = calls + 1
  /\ pc' = [pc EXCEPT ![t] = place] /\ call' = [call EXCEPT ![t] = name]

-----------------------------------------------------------------------------
(* Mount and unmount.  ecryptfs_init_global_auth_toks takes every key; a   *)
(* mount without one of them fails, and may fail after it.                 *)
mount(t) ==
  /\ ~oops /\ mounted = "no" /\ \A u \in Tasks : pc[u] = "idle"
  /\ To(t, "mount") /\ Goes(t, Begin("mount", Reverse(mnt.sigs)))
  /\ UNCHANGED <<key, refs, sem, tok, listMutex, tokOnly, oops, mnt, mounted, lower, inode, csMutex,
                 fileVars, feks, calls, stale>>

mount_end(t) ==
  /\ At(t, "mount") /\ work[t].phase = "done"
  /\ To(t, "idle") /\ Goes(t, Idle)
  /\ \/ work[t].ok /\ mounted' = "yes" /\ UNCHANGED <<refs, tok>>
     \/ mounted' = "over" /\ destroy_mount_crypt_stat
  /\ UNCHANGED <<key, sem, listMutex, tokOnly, oops, mnt, lower, inode, csMutex, fileVars, feks,
                 calls, stale>>

kill_block_super ==
  /\ ~oops /\ mounted = "yes" /\ ~inode.cached /\ \A t \in Tasks : pc[t] = "idle"
  /\ mounted' = "over" /\ destroy_mount_crypt_stat
  /\ UNCHANGED <<key, sem, listMutex, tokOnly, work, oops, mnt, lower, inode, csMutex, fileVars,
                 taskVars, feks, calls, stale>>

-----------------------------------------------------------------------------
(* The lower file.  The first user opens it, with lower_file_mutex held    *)
(* until the kernel thread has tried as root what the user may not.        *)

AfterGet(t) == IF pc[t] = "get2" \/ call[t] = "create" THEN "header"
               ELSE IF call[t] \in {"open", "setattr"} THEN "metadata" ELSE "stat"

(* ecryptfs_get_lower_file, with dentry_open by the task itself.           *)
get_lower_file(t) ==
  /\ At(t, "get") /\ fileMutex = None
  /\ count' = count + 1
  /\ \/ count > 0 /\ To(t, AfterGet(t)) /\ UNCHANGED <<file, fileMutex>>
     \/ count = 0 /\ To(t, AfterGet(t)) /\ file' = TRUE /\ UNCHANGED fileMutex
     \/ count = 0 /\ To(t, "kthread") /\ fileMutex' = t /\ UNCHANGED file
  /\ UNCHANGED <<keyVars, mnt, mounted, lower, inode, csMutex, feks, calls, stale>>

ecryptfs_threadfn(t) ==
  /\ At(t, "kthread")
  /\ file' = TRUE /\ fileMutex' = None /\ To(t, AfterGet(t))
  /\ UNCHANGED <<keyVars, mnt, mounted, lower, inode, csMutex, count, feks, calls, stale>>

(* The open fails: so does the call.  A lookup makes the inode bad (a new  *)
(* one is unhashed so that nobody meets it), a create unlinks the file.    *)
AfterFailedGet(t) == CASE call[t] = "create" \/ inode.new = t -> Gone
                       [] call[t] = "lookup" /\ inode.new # t -> [inode EXCEPT !.bad = TRUE]
                       [] OTHER -> inode

get_lower_file_fails(t) ==
  /\ At(t, "kthread")
  /\ fileMutex' = None /\ count' = 0 /\ To(t, "idle")
  /\ inode' = AfterFailedGet(t)
  /\ lower' = IF call[t] = "create" THEN NoFile ELSE lower
  /\ csMutex' = IF csMutex = t THEN None ELSE csMutex
  /\ UNCHANGED <<keyVars, mnt, mounted, file, feks, calls, stale>>

Put == /\ count = 1 => fileMutex = None
       /\ count' = count - 1 /\ file' = (count > 1) /\ UNCHANGED fileMutex

-----------------------------------------------------------------------------
(* ecryptfs_initialize_file: a new context, the lower file, the header.    *)

(* ecryptfs_new_file_context sets KEY_VALID before anything can fail: in   *)
(* adding the signatures or in allocating the cipher.                      *)
(* Each signature is put before those that an earlier attempt left.        *)
NewContext(n, fek) ==
  [inode EXCEPT !.valid = TRUE, !.encrypted = TRUE, !.inXattr = @ \/ mnt.xattr, !.fek = fek,
                !.sigs = SubSeq(mnt.sigs, Len(mnt.sigs) - n + 1, Len(mnt.sigs)) \o @]

new_file_context(t) ==
  /\ At(t, "context")
  /\ inode' = NewContext(Len(mnt.sigs), feks + 1)
  /\ feks' = feks + 1
  /\ pc' = [pc EXCEPT ![t] = IF call[t] = "create" THEN "get" ELSE "get2"] /\ UNCHANGED <<call, seen>>
  /\ UNCHANGED <<keyVars, mnt, mounted, lower, csMutex, fileVars, calls, stale>>

(* The initialisation failed: an open gives up, a create unlinks.          *)
(* Mutant: cs_mutex is kept.                                               *)
GiveUp_locked(t, i) ==
  IF call[t] = "create"
  THEN inode' = Gone /\ lower' = NoFile /\ To(t, "idle") /\ UNCHANGED csMutex
  ELSE inode' = [i EXCEPT !.stray = TRUE] /\ To(t, "put") /\ UNCHANGED <<lower, csMutex>>

GiveUp(t, i) ==
  IF call[t] = "create"
  THEN inode' = Gone /\ lower' = NoFile /\ To(t, "idle") /\ UNCHANGED csMutex
  ELSE inode' = [i EXCEPT !.stray = TRUE] /\ csMutex' = None /\ To(t, "put") /\ UNCHANGED lower

new_file_context_fails(t) ==
  /\ At(t, "context")
  /\ \/ \E n \in 0..(Len(mnt.sigs) - 1) : GiveUp(t, NewContext(n, inode.fek))
     \/ GiveUp(t, NewContext(Len(mnt.sigs), feks + 1))
  /\ feks' = feks + 1
  /\ UNCHANGED <<keyVars, mnt, mounted, fileVars, calls, stale>>

(* Within an open the lower file is open already.                          *)
get_lower_file_again(t) ==
  /\ At(t, "get2") /\ fileMutex = None
  /\ count' = count + 1 /\ To(t, AfterGet(t))
  /\ UNCHANGED <<keyVars, mnt, mounted, lower, inode, csMutex, file, fileMutex, feks, calls, stale>>

generate_key_packet_set(t) ==
  /\ At(t, "header") /\ work[t].phase = "idle"
  /\ Goes(t, Begin("write", inode.sigs))
  /\ UNCHANGED <<key, refs, sem, tok, listMutex, tokOnly, oops, mnt, mounted, lower, inode, csMutex,
                 fileVars, taskVars, feks, calls, stale>>

Written == [fek |-> inode.fek, sigs |-> inode.sigs, size |-> 0]

(* The header goes to where the flag says; the lower write may fail too.   *)
write_metadata(t) ==
  /\ At(t, "header") /\ work[t].phase = "done" /\ work[t].ok
  /\ Goes(t, Idle) /\ Put
  /\ lower' = IF inode.inXattr THEN [lower EXCEPT !.xattr = Written]
              ELSE [lower EXCEPT !.contents = Written, !.nonempty = TRUE]
  /\ IF call[t] = "create"
     THEN inode' = [inode EXCEPT !.new = None] /\ To(t, "idle") /\ UNCHANGED csMutex
     ELSE inode' = [inode EXCEPT !.stray = FALSE] /\ csMutex' = None /\ To(t, "opened")
  /\ UNCHANGED <<key, refs, sem, tok, listMutex, tokOnly, oops, mnt, mounted, feks, calls, stale>>

write_metadata_fails(t) ==
  /\ At(t, "header") /\ work[t].phase = "done"
  /\ Goes(t, Idle) /\ Put
  /\ GiveUp(t, inode)
  /\ UNCHANGED <<key, refs, sem, tok, listMutex, tokOnly, oops, mnt, mounted, feks, calls, stale>>

-----------------------------------------------------------------------------
(* The calls.  ecryptfs_create makes the lower file and a new, locked inode. *)
create(t) ==
  /\ Call(t, "create", "context") /\ ~lower.exists /\ ~inode.cached
  /\ lower' = [NoFile EXCEPT !.exists = TRUE] /\ inode' = Fresh(t)
  /\ UNCHANGED <<keyVars, mnt, mounted, csMutex, fileVars, seen, feks, stale>>

(* ecryptfs_lookup_interpose, of an inode in the cache or of a new one.    *)
lookup(t) ==
  /\ Call(t, "lookup", "get") /\ lower.exists /\ inode.new = None /\ ~inode.bad
  /\ inode' = IF inode.cached THEN inode ELSE Fresh(t)
  /\ UNCHANGED <<keyVars, mnt, mounted, lower, csMutex, fileVars, seen, feks, stale>>

(* ecryptfs_open, up to the lower file.                                    *)
open(t) ==
  /\ Call(t, "open", "get") /\ inode.cached /\ inode.new = None /\ ~inode.bad /\ csMutex = None
  /\ inode' = IF inode.policy THEN inode ELSE [inode EXCEPT !.policy = TRUE, !.encrypted = TRUE]
  /\ UNCHANGED <<keyVars, mnt, mounted, lower, csMutex, fileVars, seen, feks, stale>>

(* ecryptfs_setattr, of whatever attribute: it needs the metadata of a     *)
(* file that no open has read, and takes cs_mutex before the lower file.   *)
setattr(t) ==
  /\ Call(t, "setattr", "attr") /\ inode.cached /\ inode.new = None /\ ~inode.bad
  /\ UNCHANGED <<keyVars, mnt, mounted, lower, inode, csMutex, fileVars, seen, feks, stale>>

setattr_lock(t) ==
  /\ At(t, "attr") /\ csMutex = None
  /\ IF inode.policy /\ inode.valid THEN To(t, "idle") /\ UNCHANGED csMutex ELSE To(t, "get") /\ csMutex' = t
  /\ UNCHANGED <<keyVars, mnt, mounted, lower, inode, fileVars, feks, calls, stale>>

setattr_read_metadata(t) ==
  /\ At(t, "metadata") /\ call[t] = "setattr" /\ To(t, "contents")
  /\ inode' = [inode EXCEPT !.inXattr = @ \/ mnt.xattr]
  /\ UNCHANGED <<keyVars, mnt, mounted, lower, csMutex, fileVars, feks, calls, stale>>

setattr_end(t) ==
  /\ ~oops /\ pc[t] \in {"attr read", "attr fails"} /\ Put /\ csMutex' = None /\ To(t, "idle")
  /\ inode' = IF pc[t] = "attr read" THEN inode
              ELSE [inode EXCEPT !.stray = @ \/ inode.valid,
                                 !.encrypted = @ /\ ~mnt.passthrough, !.sized = @ /\ ~mnt.passthrough]
  /\ UNCHANGED <<keyVars, mnt, mounted, lower, feks, calls, stale>>

(* A write that makes the file longer: the page is stored, then the size   *)
(* is set, up to ecryptfs_write_inode_size_to_metadata.                    *)
write(t) ==
  /\ At(t, "opened") /\ inode.encrypted /\ inode.size < MaxSize
  /\ lower' = [lower EXCEPT !.nonempty = TRUE]
  /\ inode' = [inode EXCEPT !.size = @ + 1]
  /\ To(t, "size")
  /\ UNCHANGED <<keyVars, mnt, mounted, csMutex, fileVars, feks, calls, stale>>

release(t) ==
  /\ At(t, "opened") /\ To(t, "put")
  /\ UNCHANGED <<keyVars, mnt, mounted, lower, inode, csMutex, fileVars, feks, calls, stale>>

ecryptfs_put_lower_file(t) ==
  /\ At(t, "put") /\ Put /\ To(t, "idle")
  /\ UNCHANGED <<keyVars, mnt, mounted, lower, inode, csMutex, feks, calls, stale>>

ecryptfs_evict_inode ==
  /\ ~oops /\ inode.cached /\ \A t \in Tasks : pc[t] = "idle"
  /\ inode' = Gone
  /\ UNCHANGED <<keyVars, mnt, mounted, lower, csMutex, fileVars, taskVars, feks, calls, stale>>

-----------------------------------------------------------------------------
(* The sizes: a lookup reads the stored one and sets the inode's, a write  *)
(* reads the inode's and stores it, each without a lock.                   *)

Stored == IF inode.inXattr THEN lower.xattr ELSE lower.contents
Sees(t, size, place) == seen' = [seen EXCEPT ![t] = size] /\ pc' = [pc EXCEPT ![t] = place] /\ UNCHANGED call

read_and_validate_header_region(t) ==
  /\ At(t, "stat") /\ Put
  /\ IF IsMeta(lower.contents) THEN Sees(t, lower.contents.size, "stat set") ELSE To(t, "stat xattr")
  /\ UNCHANGED <<keyVars, mnt, mounted, lower, inode, csMutex, feks, calls, stale>>

read_and_validate_xattr_region(t) ==
  /\ At(t, "stat xattr")
  /\ IF IsMeta(lower.xattr) THEN Sees(t, lower.xattr.size, "stat set xattr") ELSE Sees(t, 0, "stat end")
  /\ UNCHANGED <<keyVars, mnt, mounted, lower, inode, csMutex, fileVars, feks, calls, stale>>

i_size_init(t) ==
  /\ ~oops /\ pc[t] \in {"stat set", "stat set xattr"}
  /\ stale' = (stale \/ (inode.new # t /\ seen[t] # inode.size))
  /\ inode' = [inode EXCEPT !.size = seen[t], !.sized = TRUE, !.inXattr = @ \/ pc[t] = "stat set xattr"]
  /\ Sees(t, 0, "stat end")
  /\ UNCHANGED <<keyVars, mnt, mounted, lower, csMutex, fileVars, feks, calls>>

lookup_end(t) ==
  /\ At(t, "stat end") /\ To(t, "idle")
  /\ inode' = [inode EXCEPT !.new = IF @ = t THEN None ELSE @]
  /\ UNCHANGED <<keyVars, mnt, mounted, lower, csMutex, fileVars, feks, calls, stale>>

write_inode_size_to_metadata(t) ==
  /\ At(t, "size") /\ Sees(t, inode.size, "size store")
  /\ UNCHANGED <<keyVars, mnt, mounted, lower, inode, csMutex, fileVars, feks, calls, stale>>

(* Mutant: the size goes to the header, wherever the metadata are.         *)
write_inode_size_store_header(t) ==
  /\ At(t, "size store") /\ Sees(t, 0, "opened")
  /\ lower' = [lower EXCEPT !.contents.size = seen[t], !.nonempty = TRUE]
  /\ stale' = (stale \/ seen[t] # inode.size)
  /\ UNCHANGED <<keyVars, mnt, mounted, inode, csMutex, fileVars, feks, calls>>

write_inode_size_store(t) ==
  /\ At(t, "size store") /\ Sees(t, 0, "opened")
  /\ lower' = IF inode.inXattr THEN [lower EXCEPT !.xattr.size = seen[t]]
              ELSE [lower EXCEPT !.contents.size = seen[t], !.nonempty = TRUE]
  /\ stale' = (stale \/ seen[t] # inode.size)
  /\ UNCHANGED <<keyVars, mnt, mounted, inode, csMutex, fileVars, feks, calls>>

-----------------------------------------------------------------------------
(* read_or_initialize_metadata and ecryptfs_read_metadata, under cs_mutex. *)

(* Mutant: KEY_VALID is looked at without cs_mutex.                        *)
read_or_initialize_metadata_unlocked(t) ==
  /\ At(t, "metadata")
  /\ \/ inode.policy /\ inode.valid /\ To(t, "opened") /\ UNCHANGED <<inode, csMutex>>
     \/ /\ ~inode.valid /\ csMutex = None /\ To(t, "contents") /\ csMutex' = t
        /\ inode' = [inode EXCEPT !.inXattr = @ \/ mnt.xattr]
  /\ UNCHANGED <<keyVars, mnt, mounted, lower, fileVars, feks, calls, stale>>

read_or_initialize_metadata(t) ==
  /\ At(t, "metadata") /\ csMutex = None
  /\ IF inode.policy /\ inode.valid
     THEN To(t, "opened") /\ UNCHANGED <<inode, csMutex>>
     ELSE /\ To(t, "contents") /\ csMutex' = t
          /\ inode' = [inode EXCEPT !.inXattr = @ \/ mnt.xattr]
  /\ UNCHANGED <<keyVars, mnt, mounted, lower, fileVars, feks, calls, stale>>

(* The lower file is read-only and the open is not.                        *)
open_refused(t) ==
  /\ At(t, "metadata") /\ call[t] = "open" /\ To(t, "put")
  /\ UNCHANGED <<keyVars, mnt, mounted, lower, inode, csMutex, fileVars, feks, calls, stale>>

(* ecryptfs_read_headers_virt, up to the packets: the flag and, unless it  *)
(* is known, the size are taken from the header.                           *)
Headed(meta, inXattr) ==
  [inode EXCEPT !.encrypted = TRUE, !.inXattr = inXattr, !.sized = TRUE,
                !.size = IF inode.sized THEN @ ELSE meta.size]

read_headers(t, place, meta, inXattr, next, otherwise) ==
  /\ At(t, place)
  /\ \/ /\ IsMeta(meta)
        /\ inode' = Headed(meta, inXattr)
        /\ Goes(t, Begin("read", Reverse(meta.sigs))) /\ To(t, next)
     \/ /\ To(t, otherwise) /\ UNCHANGED <<inode, work>>
  /\ UNCHANGED <<key, refs, sem, tok, listMutex, tokOnly, oops, mnt, mounted, lower, csMutex,
                 fileVars, feks, calls, stale>>

read_contents(t) == read_headers(t, "contents", lower.contents, FALSE, "parse contents", "xattr")
read_xattr(t) == read_headers(t, "xattr", lower.xattr, TRUE, "parse xattr", "no metadata")

(* ecryptfs_parse_packet_set.  KEY_VALID is set with the key; the root IV  *)
(* and the cipher may fail after it.                                       *)
Keyed(meta, stray) == [inode EXCEPT !.valid = TRUE, !.fek = meta.fek, !.stray = stray]
Opened(t, i) ==
  /\ inode' = i
  /\ IF call[t] = "setattr" THEN To(t, "attr read") /\ UNCHANGED csMutex ELSE csMutex' = None /\ To(t, "opened")

parse_contents(t) ==
  /\ At(t, "parse contents") /\ work[t].phase = "done"
  /\ Goes(t, Idle)
  /\ \/ work[t].ok /\ Opened(t, Keyed(lower.contents, FALSE))
     \/ work[t].ok /\ inode' = Keyed(lower.contents, TRUE) /\ To(t, "xattr") /\ UNCHANGED csMutex
     \/ ~work[t].ok /\ To(t, "xattr") /\ UNCHANGED <<inode, csMutex>>
  /\ UNCHANGED <<key, refs, sem, tok, listMutex, tokOnly, oops, mnt, mounted, lower, fileVars,
                 feks, calls, stale>>

(* Metadata in the xattr of a mount without the option is an error, which  *)
(* comes after the key was set.                                            *)
parse_xattr(t) ==
  /\ At(t, "parse xattr") /\ work[t].phase = "done"
  /\ Goes(t, Idle)
  /\ \/ work[t].ok /\ mnt.xattr /\ Opened(t, Keyed(lower.xattr, FALSE))
     \/ work[t].ok /\ inode' = Keyed(lower.xattr, TRUE) /\ To(t, "no metadata") /\ UNCHANGED csMutex
     \/ ~work[t].ok /\ To(t, "no metadata") /\ UNCHANGED <<inode, csMutex>>
  /\ UNCHANGED <<key, refs, sem, tok, listMutex, tokOnly, oops, mnt, mounted, lower, fileVars,
                 feks, calls, stale>>

no_metadata(t) ==
  /\ At(t, "no metadata")
  /\ IF call[t] = "setattr" THEN To(t, "attr fails") /\ UNCHANGED <<inode, csMutex>>
     ELSE IF mnt.passthrough THEN Opened(t, [inode EXCEPT !.encrypted = FALSE, !.sized = FALSE])
     ELSE IF ~mnt.xattr /\ ~lower.nonempty THEN To(t, "context") /\ UNCHANGED <<inode, csMutex>>
     ELSE To(t, "put") /\ csMutex' = None /\ UNCHANGED inode
  /\ UNCHANGED <<keyVars, mnt, mounted, lower, fileVars, feks, calls, stale>>

-----------------------------------------------------------------------------

keys(t) == KeyStep(t) /\ UNCHANGED <<mnt, mounted, lower, inode, csMutex, fileVars, taskVars, feks, calls, stale>>

user(k) == key_changes(k)
           /\ UNCHANGED <<mnt, mounted, lower, inode, csMutex, fileVars, taskVars, feks, calls, stale>>

GetsAndPuts(t) == \/ get_lower_file(t) \/ ecryptfs_threadfn(t) \/ get_lower_file_fails(t)
                \/ get_lower_file_again(t) \/ ecryptfs_put_lower_file(t)

Initialize(t) == \/ new_file_context(t) \/ new_file_context_fails(t) \/ generate_key_packet_set(t)
                 \/ write_metadata(t) \/ write_metadata_fails(t)

Metadata(t) == \/ read_or_initialize_metadata(t) \/ open_refused(t) \/ read_contents(t) \/ read_xattr(t)
               \/ parse_contents(t) \/ parse_xattr(t) \/ no_metadata(t)

Size(t) == \/ read_and_validate_header_region(t) \/ read_and_validate_xattr_region(t) \/ i_size_init(t)
           \/ lookup_end(t) \/ write_inode_size_to_metadata(t) \/ write_inode_size_store(t)

Attributes(t) == setattr_lock(t) \/ setattr_read_metadata(t) \/ setattr_end(t)

Step(t) == mount_end(t) \/ keys(t) \/ GetsAndPuts(t) \/ Initialize(t) \/ Metadata(t) \/ Size(t) \/ Attributes(t)

Next == \/ \E t \in Tasks : \/ Step(t)
                            \/ mount(t) \/ create(t) \/ lookup(t) \/ open(t) \/ write(t) \/ release(t) \/ setattr(t)
        \/ ecryptfs_evict_inode \/ kill_block_super
        \/ \E k \in Sigs : user(k)

Spec == Init /\ [][Next]_vars

(* A task that is in a call runs on, and so does the kernel thread; the    *)
(* wait for the user-space daemon ends by its answer or by its timeout.    *)
FairSpec == Spec /\ \A t \in Tasks : WF_vars(Step(t))

-----------------------------------------------------------------------------
(* The lower file is open while someone uses it and only then, and each    *)
(* use is counted once: by a call from its get to its put, by an opened    *)
(* file, and twice by an open that writes the file's first header.         *)
Uses(t) == IF \/ pc[t] \in {"idle", "mount", "get", "attr", "stat xattr", "stat set", "stat set xattr", "stat end"}
              \/ pc[t] = "context" /\ call[t] = "create" THEN 0
           ELSE IF pc[t] = "header" /\ call[t] = "open" THEN 2 ELSE 1

AllUses == UNION {{t} \X (1..Uses(t)) : t \in Tasks}

(* What is taken is given back, on every path: a key has the references of *)
(* those that use it, its semaphore is held only while a task copies the   *)
(* token, and the lower file is open exactly while it has users.           *)
AllReturned ==
  /\ RefsExact
  /\ \A k \in Sigs : sem[k] # None => Is(sem[k], "hold", k)
  /\ count = Cardinality(AllUses)
  /\ fileMutex = None => (file <=> count > 0)

(* Data are encrypted with the key that the file's metadata give: an       *)
(* opened file has its key, and the metadata in the lower file give it,    *)
(* whoever created, initialised or read them.  Not so after an attempt     *)
(* failed with KEY_VALID set, and, on a mount that passes plaintext        *)
(* through, while another open of an opened plain file tries its metadata. *)
KeyStored ==
  \A t \in Tasks :
    pc[t] = "opened" /\ inode.encrypted /\ ~inode.stray /\ (inode.valid \/ ~mnt.passthrough)
    => inode.valid /\ IsMeta(Stored) /\ Stored.fek = inode.fek

(* The size of the file is the stored one when no write is at work, unless *)
(* a lookup or another write overtook one.                                 *)
SizeKept ==
  ~stale /\ inode.valid /\ inode.encrypted /\ IsMeta(Stored)
    /\ (\A t \in Tasks : pc[t] \notin {"size", "size store", "header"})
    => inode.size = Stored.size

(* Every call ends, whatever becomes of the keys, of the daemon and of     *)
(* other calls: no lock is left and no two locks are waited for crosswise. *)
CallsEnd == \A t \in Tasks : []<>(oops \/ pc[t] \in {"idle", "opened"})
=============================================================================
