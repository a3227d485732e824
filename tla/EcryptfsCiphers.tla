--------------------------- MODULE EcryptfsCiphers ---------------------------
(***************************************************************************)
(* The ciphers of eCryptfs (crypto.c, with their users in keystore.c and   *)
(* main.c).  Keys and file names are encrypted with transforms that every  *)
(* mount shares, one for each cipher name, on a list.  The pages of a file *)
(* are encrypted, extent by extent, with the transform of its inode.       *)
(*                                                                         *)
(* A key is the token it comes from; an encryption is the key, the         *)
(* initialisation vector and the data it was made of, and it is two steps  *)
(* long for the shared transforms, to let others come in between.          *)
(***************************************************************************)
EXTENDS Integers, Sequences, FiniteSets

CONSTANTS Users,        \* tasks
          Known,        \* cipher names the kernel has
          Unknown,      \* names it does not have
          Tokens,       \* authentication tokens with a passphrase
          None,         \* nobody, nothing
          Pages, PerPage,   \* indices in a file, and extents in a page
          MaxOps        \* bound: operations begun

ASSUME CiphersAssumption ==
  /\ None \notin Users /\ None # "gaes_ecb"
  /\ Pages \subseteq Nat /\ PerPage \in Nat \ {0}

VARIABLES key_tfm_list,        \* name, key and holder of the mutex of each transform
          key_tfm_list_mutex,  \* its holder
          sem,                 \* holder of each token's semaphore
          op,                  \* what each task does
          crypt_stat,          \* of an inode
          lower_file,          \* its lower file: whether it has a header, extents
          ops,
          (* History. *)
          init_failed,         \* a first open failed after the key was valid
          warned,              \* a key, new or read, got zeros for its root vector
          bug                  \* BUG_ON(!crypt_stat->tfm)

cipherVars == <<key_tfm_list, key_tfm_list_mutex, sem, op, crypt_stat, lower_file, ops, init_failed, warned, bug>>
listVars == <<key_tfm_list, key_tfm_list_mutex>>
inodeVars == <<crypt_stat, lower_file, init_failed, warned, bug>>

Names == Known \cup Unknown
Extents == 0..PerPage-1
Idle == [kind |-> "none", pc |-> "idle", names |-> << >>, token |-> None, tfm |-> 0, keys |-> {},
         blocks |-> 0, page |-> 0, temp |-> << >>]

(* ecryptfs_init_crypt_stat.                                               *)
Fresh == [tfm |-> None, valid |-> FALSE, root |-> None, key_set |-> FALSE, holder |-> None, under |-> None]

CiphersInit ==
  /\ key_tfm_list = << >> /\ key_tfm_list_mutex = None
  /\ sem = [k \in Tokens |-> None]
  /\ op = [t \in Users |-> Idle] /\ ops = 0
  /\ crypt_stat = Fresh
  /\ lower_file = [header |-> FALSE, page |-> [p \in Pages |-> << >>]]
  /\ init_failed = FALSE /\ warned = FALSE /\ bug = FALSE

Goto(t, pc) == op' = [op EXCEPT ![t].pc = pc]
Ends(t) == /\ op' = [op EXCEPT ![t] = Idle]
           /\ sem' = [k \in Tokens |-> IF sem[k] = t THEN None ELSE sem[k]]
Begins(t) == op[t] = Idle /\ ops < MaxOps /\ ops' = ops + 1

-----------------------------------------------------------------------------
(* The list.  Mounting adds its ciphers for keys and for names; the others *)
(* look for one and add it when it is not there.                           *)
mount(t, names) ==
  /\ Begins(t)
  /\ op' = [op EXCEPT ![t] = [Idle EXCEPT !.kind = "mount", !.pc = "list", !.names = names]]
  /\ UNCHANGED <<listVars, sem, inodeVars>>

(* write_tag_70, parse_tag_70 and write_tag_3 hold the token's semaphore.  *)
use_cipher(t, kind, name, k) ==
  /\ Begins(t)
  /\ op' = [op EXCEPT ![t] = [Idle EXCEPT !.kind = kind, !.names = <<name>>, !.token = k,
                              !.pc = IF kind = "tag" THEN "sem" ELSE "list"]]
  /\ UNCHANGED <<listVars, sem, inodeVars>>

find_auth_tok(t) ==
  /\ op[t].pc = "sem" /\ sem[op[t].token] = None
  /\ sem' = [sem EXCEPT ![op[t].token] = t]
  /\ Goto(t, "list")
  /\ UNCHANGED <<listVars, inodeVars, ops>>

lock_list(t) ==
  /\ op[t].pc = "list" /\ key_tfm_list_mutex = None
  /\ key_tfm_list_mutex' = t
  /\ Goto(t, "exists")
  /\ UNCHANGED <<key_tfm_list, sem, inodeVars, ops>>

Found(name) == {i \in DOMAIN key_tfm_list : key_tfm_list[i].name = name}

(* The list is searched from its newest entry.                             *)
Latest(S) == CHOOSE i \in S : \A j \in S : j <= i

tfm_exists(t) ==
  LET found == Found(Head(op[t].names))
  IN /\ op[t].pc = "exists"
     /\ op' = [op EXCEPT ![t].pc = IF found = {} THEN "add" ELSE "unlock",
                         ![t].tfm = IF found = {} THEN 0 ELSE Latest(found)]
     /\ UNCHANGED <<listVars, sem, inodeVars, ops>>

(* A new transform has a random key.                                       *)
add_new_key_tfm(t) ==
  /\ op[t].pc = "add" /\ Head(op[t].names) \in Known
  /\ key_tfm_list' = Append(key_tfm_list, [name |-> Head(op[t].names), key |-> None, holder |-> None])
  /\ op' = [op EXCEPT ![t].pc = "unlock", ![t].tfm = Len(key_tfm_list')]
  /\ UNCHANGED <<key_tfm_list_mutex, sem, inodeVars, ops>>

(* Mutant: the error path of the list forgets the mutex.                   *)
add_fails_locked(t) == op[t].pc = "add" /\ Ends(t) /\ UNCHANGED <<listVars, inodeVars, ops>>

(* No memory, no such cipher, or a key size it does not take.              *)
add_fails(t) ==
  /\ op[t].pc = "add"
  /\ key_tfm_list_mutex' = None
  /\ Ends(t)
  /\ UNCHANGED <<key_tfm_list, inodeVars, ops>>

unlock_list(t) ==
  /\ op[t].pc = "unlock"
  /\ IF op[t].kind = "mount" /\ Len(op[t].names) > 1
     THEN /\ op' = [op EXCEPT ![t].pc = "exists", ![t].names = Tail(@)]
          /\ UNCHANGED <<listVars, sem>>
     ELSE /\ key_tfm_list_mutex' = None
          /\ IF op[t].kind = "mount" THEN Ends(t) ELSE Goto(t, "lock") /\ UNCHANGED sem
          /\ UNCHANGED key_tfm_list
  /\ UNCHANGED <<inodeVars, ops>>

-----------------------------------------------------------------------------
(* A user of a shared transform: mutex, key, encryption.                   *)
(* Mutant: without the transform's mutex.                                  *)
lock_tfm_not(t) == op[t].pc = "lock" /\ Goto(t, "setkey") /\ UNCHANGED <<listVars, sem, inodeVars, ops>>

lock_tfm(t) ==
  /\ op[t].pc = "lock" /\ key_tfm_list[op[t].tfm].holder = None
  /\ key_tfm_list' = [key_tfm_list EXCEPT ![op[t].tfm].holder = t]
  /\ Goto(t, "setkey")
  /\ UNCHANGED <<key_tfm_list_mutex, sem, inodeVars, ops>>

setkey(t) ==
  /\ op[t].pc = "setkey"
  /\ key_tfm_list' = [key_tfm_list EXCEPT ![op[t].tfm].key = op[t].token]
  /\ Goto(t, "crypt")
  /\ UNCHANGED <<key_tfm_list_mutex, sem, inodeVars, ops>>

crypt_block(t) ==
  /\ op[t].pc = "crypt" /\ op[t].blocks < 2
  /\ op' = [op EXCEPT ![t].blocks = @ + 1, ![t].keys = @ \cup {key_tfm_list[op[t].tfm].key}]
  /\ UNCHANGED <<listVars, sem, inodeVars, ops>>

(* The end, or an error on the way to it: no memory, a key of no good size. *)
unlock_tfm(t) ==
  /\ op[t].pc \in {"setkey", "crypt"}
  /\ key_tfm_list' = [key_tfm_list EXCEPT ![op[t].tfm].holder = None]
  /\ Ends(t)
  /\ UNCHANGED <<key_tfm_list_mutex, inodeVars, ops>>

-----------------------------------------------------------------------------
(* The inode.  The first open makes its key valid, then the root vector    *)
(* and the transform; the key stays valid when one of them cannot be had,  *)
(* and the next open does nothing more and succeeds: with a transform and  *)
(* zeros for the root vector, or without a transform.                      *)
RootIv(ok) == IF ok THEN "hash of the key" ELSE "zeros"

init_crypt_ctx(ok) == IF ok /\ crypt_stat.tfm = None THEN "gaes_ecb" ELSE crypt_stat.tfm

(* A new file: the result of ecryptfs_compute_root_iv is not looked at.    *)
new_file_context(t) ==
  /\ Begins(t) /\ ~crypt_stat.valid /\ ~lower_file.header
  /\ \E hashed, allocated \in BOOLEAN :
       /\ crypt_stat' = [crypt_stat EXCEPT !.valid = TRUE, !.root = RootIv(hashed), !.tfm = init_crypt_ctx(allocated)]
       /\ lower_file' = [lower_file EXCEPT !.header = allocated]
       /\ warned' = (warned \/ ~hashed)
       /\ init_failed' = (init_failed \/ ~allocated)
  /\ UNCHANGED <<listVars, sem, op, bug>>

(* The header of a file, read by ecryptfs_parse_packet_set.  A passphrase's *)
(* packet has the transform allocated while it is parsed.  Then a key is   *)
(* decrypted, or none is; one without a root vector ends the open, valid.  *)
read_header(t) ==
  /\ Begins(t) /\ ~crypt_stat.valid /\ lower_file.header
  /\ \E tag_3, decrypted, hashed, allocated \in BOOLEAN :
       LET parsed == init_crypt_ctx(tag_3 /\ allocated)
       IN  IF decrypted /\ (tag_3 => parsed # None)
           THEN /\ crypt_stat' = [crypt_stat EXCEPT !.valid = TRUE, !.root = RootIv(hashed),
                                     !.tfm = IF hashed THEN init_crypt_ctx(allocated) ELSE parsed]
                /\ warned' = (warned \/ ~hashed)
                /\ init_failed' = (init_failed \/ crypt_stat'.tfm = None)
           ELSE /\ crypt_stat' = [crypt_stat EXCEPT !.tfm = parsed]
                /\ UNCHANGED <<warned, init_failed>>
  /\ UNCHANGED <<listVars, sem, op, lower_file, bug>>

(* The inode leaves memory.                                                *)
destroy_crypt_stat ==
  /\ crypt_stat # Fresh /\ \A t \in Users : op[t].kind \notin {"read", "write"}
  /\ crypt_stat' = Fresh
  /\ UNCHANGED <<listVars, sem, op, lower_file, ops, init_failed, warned, bug>>

(* A page is written from an open file, or read into the page cache.       *)
page_io(t, kind, p) ==
  /\ crypt_stat.valid /\ Begins(t)
  /\ IF crypt_stat.tfm = None
     THEN bug' = TRUE /\ UNCHANGED op
     ELSE /\ kind = "read" => lower_file.page[p] # << >>
          /\ op' = [op EXCEPT ![t] = [Idle EXCEPT !.kind = kind, !.pc = "mutex", !.page = p]]
          /\ UNCHANGED bug
  /\ UNCHANGED <<listVars, sem, crypt_stat, lower_file, init_failed, warned>>

(* Mutant: the vector comes from the index of the page it is stored in,    *)
(* which for an encryption is a temporary page.                            *)
Vector_dst(t, e) == <<crypt_stat.root, IF op[t].kind = "write" THEN e ELSE op[t].page * PerPage + e>>

(* The hash of the root vector and of the extent's number in the file.     *)
Vector(t, e) == <<crypt_stat.root, op[t].page * PerPage + e>>

Encryption(t, e) == [key |-> crypt_stat.under, iv |-> Vector(t, e), data |-> <<op[t].page, e>>]
Decryption(t, e) ==
  LET x == lower_file.page[op[t].page][e + 1]
  IN IF x.key = crypt_stat.under /\ x.iv = Vector(t, e) THEN x.data ELSE None

(* crypt_scatterlist: the request and the key, under the inode's mutex.    *)
lock_inode_tfm(t) ==
  /\ op[t].pc = "mutex" /\ crypt_stat.holder = None
  /\ crypt_stat' = [crypt_stat EXCEPT !.holder = t]
  /\ Goto(t, IF crypt_stat.key_set THEN "set" ELSE "unset")
  /\ UNCHANGED <<listVars, sem, lower_file, init_failed, warned, bug, ops>>

set_inode_key(t) ==
  /\ op[t].pc = "unset"
  /\ crypt_stat' = [crypt_stat EXCEPT !.under = "file key", !.key_set = TRUE]
  /\ Goto(t, "set")
  /\ UNCHANGED <<listVars, sem, lower_file, init_failed, warned, bug, ops>>

crypt_fails(t) ==
  /\ op[t].pc \in {"set", "unset"}
  /\ crypt_stat' = [crypt_stat EXCEPT !.holder = None]
  /\ Ends(t)
  /\ UNCHANGED <<listVars, lower_file, init_failed, warned, bug, ops>>

unlock_inode_tfm(t) ==
  /\ op[t].pc = "set"
  /\ crypt_stat' = [crypt_stat EXCEPT !.holder = None]
  /\ Goto(t, "extent")
  /\ UNCHANGED <<listVars, sem, lower_file, init_failed, warned, bug, ops>>

(* The next extent goes through crypt_scatterlist again.                   *)
crypt_extent(t) ==
  LET e == Len(op[t].temp)
  IN /\ op[t].pc = "extent"
     /\ op' = [op EXCEPT ![t].temp = Append(@, IF op[t].kind = "write" THEN Encryption(t, e) ELSE Decryption(t, e)),
                         ![t].pc = IF e + 1 < PerPage THEN "mutex" ELSE "page"]
     /\ UNCHANGED <<listVars, sem, inodeVars, ops>>

(* A written page goes to the lower file, all its extents together.        *)
page_done(t) ==
  /\ op[t].pc = "page"
  /\ lower_file' = IF op[t].kind = "write" THEN [lower_file EXCEPT !.page[op[t].page] = op[t].temp] ELSE lower_file
  /\ Ends(t)
  /\ UNCHANGED <<listVars, crypt_stat, init_failed, warned, bug, ops>>

CiphersNext ==
  \E t \in Users :
    \/ \E a, b \in Names : mount(t, <<a>>) \/ mount(t, <<a, b>>)
    \/ \E kind \in {"tag", "decrypt"}, n \in Names, k \in Tokens : use_cipher(t, kind, n, k)
    \/ find_auth_tok(t) \/ lock_list(t) \/ tfm_exists(t) \/ add_new_key_tfm(t) \/ add_fails(t) \/ unlock_list(t)
    \/ lock_tfm(t) \/ setkey(t) \/ crypt_block(t) \/ unlock_tfm(t)
    \/ new_file_context(t) \/ read_header(t) \/ destroy_crypt_stat \/ lock_inode_tfm(t) \/ set_inode_key(t) \/ crypt_fails(t) \/ unlock_inode_tfm(t)
    \/ \E kind \in {"read", "write"}, p \in Pages : page_io(t, kind, p)
    \/ crypt_extent(t) \/ page_done(t)

-----------------------------------------------------------------------------
(* Mounts and users that race leave one transform for each cipher, and     *)
(* whoever encrypts a key or a name with it does so under the key it set,  *)
(* from the first block to the last.                                       *)
KeysOwn ==
  /\ \A i, j \in DOMAIN key_tfm_list : key_tfm_list[i].name = key_tfm_list[j].name => i = j
  /\ \A t \in Users : op[t].keys \subseteq {op[t].token}

(* A page is read back as it was written, whichever tasks set the key and  *)
(* encrypted which extent and although the inode left memory in between,   *)
(* as long as the root vector of every key, new or read from a header, was *)
(* computed; two extents of a file never share a vector; and a page meets  *)
(* no missing transform unless a first open failed to get one.             *)
ExtentsReadBack ==
  /\ \A t \in Users, e \in Extents : op[t].kind = "read" /\ e < Len(op[t].temp) =>
       warned \/ op[t].temp[e + 1] = <<op[t].page, e>>
  /\ \A p, q \in Pages : \A d \in DOMAIN lower_file.page[p], e \in DOMAIN lower_file.page[q] :
       lower_file.page[p][d].iv = lower_file.page[q][e].iv => p = q /\ d = e
  /\ bug => init_failed

(* However the token's semaphore, the list's mutex and the transforms'     *)
(* mutexes are held, some task that has begun need not wait for another.   *)
Waits(t) ==
  CASE op[t].pc = "sem" -> sem[op[t].token] # None
    [] op[t].pc = "list" -> key_tfm_list_mutex # None
    [] op[t].pc = "lock" -> key_tfm_list[op[t].tfm].holder # None
    [] op[t].pc = "mutex" -> crypt_stat.holder # None
    [] OTHER -> FALSE
SomeoneRuns == (\E t \in Users : op[t] # Idle) => \E t \in Users : op[t] # Idle /\ ~Waits(t)
=============================================================================
