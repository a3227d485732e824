---------------------------- MODULE EcryptfsMount ----------------------------
(***************************************************************************)
(* Loading and unloading eCryptfs, and mounting it (main.c, super.c, and   *)
(* the set-up in kthread.c, messaging.c, miscdev.c and crypto.c): what     *)
(* each step acquires, what an error path gives back, who may come in      *)
(* between, and the options of a mount.                                    *)
(***************************************************************************)
EXTENDS Integers, Sequences, FiniteSets, SequencesExt

CONSTANTS Mounts, Daemons, Sigs,
          MountOptions   \* lists of options, each a record of a name and a value

ASSUME MountAssumption == IsFiniteSet(Mounts)

VARIABLES module,    \* "out", "coming", "live" or "going"
          parts,     \* what ecryptfs_init has set up
          undo,      \* what is left to take down
          opens,     \* daemons that have /dev/ecryptfs open
          mnt,       \* each mount: where it is, its options, what it holds
          refs,      \* references to each key in the user's keyring
          delayed,   \* inodes and dentries wait for RCU to be freed
          (* History. *)
          init_failure,    \* the step of ecryptfs_init that failed, or ""
          in_use     \* BUG_ON(ecryptfs_num_miscdev_opens != 0)

mountVars == <<module, parts, undo, opens, mnt, refs, delayed, init_failure, in_use>>
moduleVars == <<module, parts, undo, opens, init_failure, in_use>>

-----------------------------------------------------------------------------
(* Options.  Tokens are added at the front of the list.                    *)
NoStat == [tokens |-> << >>, cipher |-> "", bytes |-> 0, fnek |-> "", fn_cipher |-> "", fn_bytes |-> 0,
           flags |-> {}, set |-> {}]

Option(s, o) ==
  LET Token(fnek) == <<[sig |-> o.value, fnek |-> fnek]>> \o s.tokens
  IN CASE o.name = "sig" -> [s EXCEPT !.tokens = Token(FALSE)]
       [] o.name = "fnek_sig" -> [s EXCEPT !.tokens = Token(TRUE), !.fnek = o.value]
       [] o.name = "encrypted_view" -> [s EXCEPT !.flags = @ \cup {"xattr_metadata", "encrypted_view"}]
       [] o.name = "cipher" -> [s EXCEPT !.cipher = o.value, !.set = @ \cup {o.name}]
       [] o.name = "key_bytes" -> [s EXCEPT !.bytes = o.value, !.set = @ \cup {o.name}]
       [] o.name = "fn_cipher" -> [s EXCEPT !.fn_cipher = o.value, !.set = @ \cup {o.name}]
       [] o.name = "fn_key_bytes" -> [s EXCEPT !.fn_bytes = o.value, !.set = @ \cup {o.name}]
       [] OTHER -> [s EXCEPT !.flags = @ \cup {o.name}]

Defaults(s) ==
  LET cipher == IF "cipher" \in s.set THEN s.cipher ELSE "aes"
  IN [s EXCEPT !.cipher = cipher,
               !.fn_cipher = IF s.fnek # "" /\ "fn_cipher" \notin s.set THEN cipher ELSE @,
               !.fn_bytes = IF s.fnek # "" /\ "fn_key_bytes" \notin s.set THEN s.bytes ELSE @,
               !.set = {}]

Parsed(opts) == Defaults(FoldLeft(Option, NoStat, opts))

Accepted(s) == /\ \E i \in DOMAIN s.tokens : ~s.tokens[i].fnek
               /\ s.cipher = "aes" => s.bytes \in {16, 24, 32}

(* ecryptfs_show_options.                                                  *)
(* Mutant: every token as a sig, and nothing else.                         *)
Shown_sigs(s) == [i \in DOMAIN s.tokens |-> [name |-> "sig", value |-> s.tokens[i].sig]]
Shown(s) ==
  [i \in DOMAIN s.tokens |-> [name |-> IF s.tokens[i].fnek THEN "fnek_sig" ELSE "sig", value |-> s.tokens[i].sig]]
  \o <<[name |-> "cipher", value |-> s.cipher]>>
  \o (IF s.bytes = 0 THEN << >> ELSE <<[name |-> "key_bytes", value |-> s.bytes]>>)
  \o [i \in 1..Cardinality(s.flags \ {"check_dev_ruid"}) |->
        [name |-> SetToSeq(s.flags \ {"check_dev_ruid"})[i], value |-> ""]]

-----------------------------------------------------------------------------
(* The module.                                                             *)
Steps == <<"caches", "sysfs", "kthread", "hash", "contexts", "miscdev", "tfms", "fs">>
NoMount == [at |-> "none", opts |-> << >>, stat |-> NoStat, holds |-> {}, keys |-> 0]

MountInit ==
  /\ module = "out" /\ parts = {} /\ undo = << >> /\ opens = {}
  /\ mnt = [m \in Mounts |-> NoMount]
  /\ refs = [s \in Sigs |-> 0]
  /\ delayed = FALSE /\ init_failure = "" /\ in_use = FALSE

load ==
  /\ module = "out"
  /\ module' = "coming" /\ undo' = << >> /\ init_failure' = "" /\ parts' = {}
  /\ UNCHANGED <<opens, mnt, refs, delayed, in_use>>

Next_step == CHOOSE i \in 1..Len(Steps)+1 : \A j \in DOMAIN Steps : Steps[j] \in parts <=> j < i

loaded ==
  /\ module = "coming" /\ undo = << >> /\ Next_step > Len(Steps)
  /\ module' = "live"
  /\ UNCHANGED <<parts, undo, opens, mnt, refs, delayed, init_failure, in_use>>

(* The labels of ecryptfs_init; when a cache cannot be created, those      *)
(* before it are destroyed at once.  The contexts fail with the hash left. *)
Unwinding(s) ==
  CASE s = "fs" -> <<"tfms", "messaging", "kthread", "sysfs", "caches">>
    [] s = "miscdev" -> <<"messaging", "kthread", "sysfs", "caches">>
    [] s \in {"hash", "contexts"} -> <<"kthread", "sysfs", "caches">>
    [] s = "kthread" -> <<"sysfs", "caches">>
    [] OTHER -> <<"caches">>

Sets_up(p) ==
  /\ module = "coming" /\ undo = << >> /\ Next_step <= Len(Steps) /\ Steps[Next_step] = p
  /\ parts' = parts \cup {p}
  /\ UNCHANGED <<module, undo, opens, mnt, refs, delayed, init_failure, in_use>>

Fails(p) ==
  /\ module = "coming" /\ undo = << >> /\ Next_step <= Len(Steps) /\ Steps[Next_step] = p
  /\ undo' = Unwinding(p)
  /\ module' = "going"
  /\ init_failure' = p
  /\ UNCHANGED <<parts, opens, mnt, refs, delayed, in_use>>

init_kmem_caches == Sets_up("caches") \/ Fails("caches")
do_sysfs_registration == Sets_up("sysfs") \/ Fails("sysfs")
init_kthread == Sets_up("kthread") \/ Fails("kthread")
init_messaging == Sets_up("hash") \/ Fails("hash") \/ Sets_up("contexts") \/ Fails("contexts")
init_miscdev == Sets_up("miscdev") \/ Fails("miscdev")
init_crypto == Sets_up("tfms")
register_filesystem == Sets_up("fs") \/ Fails("fs")

ecryptfs_init == \/ init_kmem_caches \/ do_sysfs_registration \/ init_kthread \/ init_messaging
                 \/ init_miscdev \/ init_crypto \/ register_filesystem

(* Mounts and open files hold references to their module.                  *)
Referenced == opens # {} \/ \E m \in Mounts : mnt[m].at # "none"

unload ==
  /\ module = "live" /\ ~Referenced
  /\ module' = "going"
  /\ undo' = <<"tfms", "messaging", "kthread", "sysfs", "fs", "caches">>
  /\ UNCHANGED <<parts, opens, mnt, refs, delayed, init_failure, in_use>>

Takes_down(what, ps) ==
  /\ undo # << >> /\ Head(undo) = what /\ ~in_use
  /\ parts' = parts \ ps
  /\ undo' = Tail(undo)
  /\ module' = IF undo' = << >> THEN "out" ELSE module
  /\ UNCHANGED <<opens, mnt, refs, init_failure>>

take_down(p) == Takes_down(p, {p}) /\ UNCHANGED <<delayed, in_use>>

(* The daemons are exorcised first, the device must not be open.           *)
release_messaging ==
  /\ Takes_down("messaging", {"hash", "contexts", "miscdev"})
  /\ in_use' = (opens # {})
  /\ UNCHANGED delayed

(* Mutant: the caches do not wait for what RCU still has.                  *)
free_kmem_caches_now == Takes_down("caches", {"caches"}) /\ UNCHANGED <<delayed, in_use>>

free_kmem_caches == Takes_down("caches", {"caches"}) /\ delayed' = FALSE /\ UNCHANGED in_use

rcu == /\ delayed /\ delayed' = FALSE
       /\ UNCHANGED <<moduleVars, mnt, refs>>

Entered == module = "live" \/ (module = "coming" /\ undo = << >>)

miscdev_opened(d) ==
  /\ Entered /\ "miscdev" \in parts /\ d \notin opens
  /\ opens' = opens \cup {d}
  /\ UNCHANGED <<module, parts, undo, mnt, refs, delayed, init_failure, in_use>>

miscdev_closed(d) ==
  /\ d \in opens /\ ~in_use
  /\ opens' = opens \ {d}
  /\ UNCHANGED <<module, parts, undo, mnt, refs, delayed, init_failure, in_use>>

-----------------------------------------------------------------------------
(* A mount.                                                                *)
At_stage(m, at) == mnt[m].at = at
Goes(m, at, holds) == mnt' = [mnt EXCEPT ![m].at = at, ![m].holds = holds]
Gets(m, from, what, to) == At_stage(m, from) /\ Goes(m, to, mnt[m].holds \cup what)
Drops(m, n) ==
  refs' = [s \in Sigs |-> refs[s] - Cardinality({i \in 1..n : mnt[m].stat.tokens[i].sig = s})]

mount_begin(m, opts) ==
  /\ At_stage(m, "none") /\ Entered /\ "fs" \in parts
  /\ mnt' = [mnt EXCEPT ![m] = [NoMount EXCEPT !.at = "options", !.opts = opts, !.holds = {"sbi"}]]
  /\ UNCHANGED <<moduleVars, refs, delayed>>

(* Also refused: no memory for a token, a cipher the kernel does not have. *)
parse_options(m) ==
  /\ At_stage(m, "options")
  /\ \/ /\ Accepted(Parsed(mnt[m].opts))
        /\ mnt' = [mnt EXCEPT ![m].at = "keys", ![m].stat = Parsed(mnt[m].opts), ![m].opts = << >>]
     \/ mnt' = [mnt EXCEPT ![m].at = "out", ![m].opts = << >>]
  /\ UNCHANGED <<moduleVars, refs, delayed>>

(* ecryptfs_init_global_auth_toks: the first key that is not there ends it.*)
find_keys(m) ==
  LET k == mnt[m].keys + 1
  IN /\ At_stage(m, "keys")
     /\ \/ /\ k <= Len(mnt[m].stat.tokens)
           /\ mnt' = [mnt EXCEPT ![m].keys = k]
           /\ refs' = [refs EXCEPT ![mnt[m].stat.tokens[k].sig] = @ + 1]
        \/ k <= Len(mnt[m].stat.tokens) /\ Goes(m, "out", mnt[m].holds) /\ UNCHANGED refs
        \/ k > Len(mnt[m].stat.tokens) /\ Goes(m, "sget", mnt[m].holds) /\ UNCHANGED refs
  /\ UNCHANGED <<moduleVars, delayed>>

(* From "path" on, the superblock owns what was set up for it.             *)
mount_step(m) ==
  /\ \/ Gets(m, "sget", {"sb"}, "bdi") \/ Gets(m, "sget", {}, "out")
     \/ Gets(m, "bdi", {"bdi", "private"}, "path") \/ Gets(m, "bdi", {}, "out1")
     \/ Gets(m, "path", {"path"}, "checks") \/ Gets(m, "path", {}, "out1")
     \/ Gets(m, "checks", {}, "inode") \/ Gets(m, "checks", {}, "out_free")
     \/ Gets(m, "inode", {"inode"}, "root") \/ Gets(m, "inode", {}, "out_free")
     \/ Gets(m, "root", {"root"}, "root_info")
     \/ Gets(m, "root_info", {"root_info"}, "mounted") \/ Gets(m, "root_info", {}, "out_free")
  /\ UNCHANGED <<moduleVars, refs, delayed>>

(* It drops the inode.                                                     *)
d_make_root_fails(m) ==
  /\ At_stage(m, "root")
  /\ Goes(m, "out_free", mnt[m].holds \ {"inode"})
  /\ delayed' = TRUE
  /\ UNCHANGED <<moduleVars, refs>>

out_free(m) ==
  /\ At_stage(m, "out_free")
  /\ Goes(m, "out1", mnt[m].holds \ {"path"})
  /\ UNCHANGED <<moduleVars, refs, delayed>>

(* ecryptfs_kill_block_super and what the VFS calls for it: the root gives *)
(* its inode back, and the lower path when it has one.                     *)
Killed(h) == h \ ({"sb", "root"} \cup (IF "root" \in h THEN {"inode"} ELSE {})
                  \cup (IF "root_info" \in h THEN {"root_info", "path"} ELSE {})
                  \cup (IF "private" \in h THEN {"sbi", "bdi", "private"} ELSE {}))

(* Mutant: kill_block_super forgets the keys.                              *)
kill_sb_keys_kept(m, next) ==
  /\ mnt' = [mnt EXCEPT ![m].at = next, ![m].holds = Killed(@),
                        ![m].keys = IF "private" \in mnt[m].holds THEN 0 ELSE @]
  /\ UNCHANGED refs
  /\ delayed' = (delayed \/ "root" \in mnt[m].holds)

kill_sb(m, next) ==
  LET h == mnt[m].holds
  IN /\ mnt' = [mnt EXCEPT ![m].at = next, ![m].holds = Killed(h),
                           ![m].keys = IF "private" \in h THEN 0 ELSE @]
     /\ IF "private" \in h THEN Drops(m, mnt[m].keys) ELSE UNCHANGED refs
     /\ delayed' = (delayed \/ "root" \in h)

out1(m) == At_stage(m, "out1") /\ kill_sb(m, "out") /\ UNCHANGED moduleVars

(* ecryptfs_destroy_mount_crypt_stat, unless the superblock did it.        *)
out(m) ==
  /\ At_stage(m, "out")
  /\ IF "sbi" \in mnt[m].holds THEN Drops(m, mnt[m].keys) ELSE UNCHANGED refs
  /\ mnt' = [mnt EXCEPT ![m] = [NoMount EXCEPT !.holds = mnt[m].holds \ {"sbi"}]]
  /\ UNCHANGED <<moduleVars, delayed>>

umount(m) == At_stage(m, "mounted") /\ kill_sb(m, "umounted") /\ UNCHANGED moduleVars
umounted(m) ==
  /\ At_stage(m, "umounted")
  /\ mnt' = [mnt EXCEPT ![m] = [NoMount EXCEPT !.holds = mnt[m].holds]]
  /\ UNCHANGED <<moduleVars, refs, delayed>>

MountNext ==
  \/ load \/ ecryptfs_init \/ loaded \/ unload
  \/ \E p \in {"tfms", "kthread", "sysfs", "fs"} : take_down(p)
  \/ release_messaging \/ free_kmem_caches \/ rcu
  \/ \E d \in Daemons : miscdev_opened(d) \/ miscdev_closed(d)
  \/ \E m \in Mounts : \/ \E opts \in MountOptions : mount_begin(m, opts)
                       \/ parse_options(m) \/ find_keys(m) \/ mount_step(m) \/ d_make_root_fails(m)
                       \/ out_free(m) \/ out1(m) \/ out(m) \/ umount(m) \/ umounted(m)

-----------------------------------------------------------------------------
(* What is open or mounted, and what RCU still has to free, finds what it  *)
(* needs: nothing is taken down under it.  A daemon that opens the device  *)
(* while ecryptfs_init may still fail is caught by BUG_ON instead.         *)
UsedStays ==
  \/ in_use /\ init_failure = "fs"
  \/ /\ ~in_use
     /\ opens # {} => {"hash", "contexts", "miscdev"} \subseteq parts
     /\ \A m \in Mounts : mnt[m].at # "none" => ToSet(Steps) \subseteq parts
     /\ delayed => "caches" \in parts

Uses(m, s) == {k \in 1..mnt[m].keys : mnt[m].stat.tokens[k].sig = s}

(* Every error path gives back exactly what was acquired: a mount that     *)
(* failed or ended holds nothing, the keys have as many references as      *)
(* mounts hold, and a module that is not there left nothing.  It does      *)
(* leave the daemon hash when the message contexts cannot be allocated.    *)
NothingLeaks ==
  /\ \A m \in Mounts : mnt[m].at = "none" => mnt[m] = NoMount
  /\ \A s \in Sigs : refs[s] = Cardinality(UNION {{m} \X Uses(m, s) : m \in Mounts})
  /\ module = "out" => parts = IF init_failure = "contexts" THEN {"hash"} ELSE {}

(* The options that /proc/mounts shows mount the same file system again,   *)
(* with the same keys for the same things.  They do not when the file      *)
(* names have a cipher or a key size of their own, which are not shown, or *)
(* when several keys are given for file names: shown newest first, the     *)
(* oldest becomes the one in use.                                          *)
ShownRemounts ==
  \A m \in Mounts : mnt[m].at = "mounted" =>
    LET s == mnt[m].stat
        again == Parsed(Shown(s))
        Names == {i \in DOMAIN s.tokens : s.tokens[i].fnek}
    IN /\ Accepted(again)
       /\ again.tokens = Reverse(s.tokens) /\ again.cipher = s.cipher /\ again.bytes = s.bytes
       /\ again.flags = s.flags \ {"check_dev_ruid"}
       /\ Cardinality(Names) <= 1 => again.fnek = s.fnek
       /\ \/ again.fn_cipher = s.fn_cipher /\ again.fn_bytes = s.fn_bytes
          \/ s.fnek = "" \/ s.fn_cipher # s.cipher \/ s.fn_bytes # s.bytes
=============================================================================
