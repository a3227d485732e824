---------------------------- MODULE EcryptfsKeys ----------------------------
(***************************************************************************)
(* How eCryptfs uses the authentication tokens of a mount: keystore.c.     *)
(* A token is a key of the kernel's keyring that the mount's list points   *)
(* to by its signature.  A task works through the signatures of a mount    *)
(* (to take its keys), of a new file (to write a packet for each) or of a  *)
(* file's header (to find one that gives the file's key).                  *)
(*                                                                         *)
(* The user may revoke, update or let expire a key at any time.  A private *)
(* key needs the user-space daemon; what happens between the request and   *)
(* its answer or its timeout is EcryptfsMessaging's.                       *)
(***************************************************************************)
EXTENDS Naturals, Sequences, FiniteSets, SequencesExt

CONSTANTS Tasks,
          Password, Private,   \* signatures of passphrase tokens and of private-key tokens
          MaxChanged,          \* bound: how many keys the user or the clock changes
          None

ASSUME KeysAssumption == Password \cap Private = {} /\ None \notin Tasks /\ MaxChanged \in Nat

Sigs == Password \cup Private

VARIABLES key,       \* of each signature: "ok", "garbled" by an update, "expired" or "revoked"
          refs,      \* references to the key
          sem,       \* who holds key->sem for writing
          tok,       \* the mount's entry: "none", "valid" or "invalid"
          listMutex, \* who holds global_auth_tok_list_mutex
          tokOnly,   \* ECRYPTFS_GLOBAL_MOUNT_AUTH_TOK_ONLY
          work,      \* of each task: what it does with a list of signatures
          oops       \* the payload of a revoked key, NULL, was followed; the kernel stops

keyVars == <<key, refs, sem, tok, listMutex, tokOnly, work, oops>>

Idle == [phase |-> "idle", for |-> "none", list |-> << >>, at |-> 0, ok |-> FALSE]

KeysInit ==
  /\ key = [k \in Sigs |-> "ok"] /\ refs = [k \in Sigs |-> 1]
  /\ sem = [k \in Sigs |-> None] /\ listMutex = None
  /\ tok = [k \in Sigs |-> "none"] /\ tokOnly \in BOOLEAN
  /\ work = [t \in Tasks |-> Idle] /\ oops = FALSE

-----------------------------------------------------------------------------
Finished(w, ok) == [w EXCEPT !.phase = "done", !.ok = ok]

Begin(for, list) ==
  LET w == [Idle EXCEPT !.phase = "find", !.for = for, !.list = list, !.at = 1]
  IN IF list = << >> THEN Finished(w, for # "read") ELSE w

Onward(w) == IF w.at = Len(w.list) THEN Finished(w, w.for # "read")
             ELSE [w EXCEPT !.phase = "find", !.at = @ + 1]

(* Without its token a header's packet is passed over; a mount and a new   *)
(* file need every token.                                                  *)
NotFound(w) == IF w.for = "read" THEN Onward(w) ELSE Finished(w, FALSE)

(* The packet that did not give the key leaves the list, and the search    *)
(* starts again.                                                           *)
Discarded(w) ==
  LET rest == RemoveAt(w.list, w.at)
  IN IF rest = << >> THEN Finished(w, FALSE)
     ELSE [w EXCEPT !.phase = "find", !.list = rest, !.at = 1]

Succeeded(w) == IF w.for = "read" THEN Finished(w, TRUE) ELSE Onward(w)
Failed(w) == IF w.for = "read" THEN Discarded(w) ELSE Finished(w, FALSE)

Is(t, phase, k) == ~oops /\ work[t].phase = phase /\ k = work[t].list[work[t].at]
Goes(t, w) == work' = [work EXCEPT ![t] = w]

(* ecryptfs_find_global_auth_tok_for_sig, up to the key's semaphore, which *)
(* it waits for with the list's mutex in its hands.                        *)

find_refused(t, k) ==
  /\ Is(t, "find", k) /\ work[t].for # "mount" /\ listMutex = None
  /\ \/ tok[k] = "invalid"
     \/ tok[k] = "valid" /\ key[k] = "expired"
  /\ Goes(t, NotFound(work[t]))
  /\ UNCHANGED <<key, refs, sem, tok, listMutex, tokOnly, oops>>

(* Mutant: a revoked key is put, and stays on the list.                    *)
find_revoked_kept(t, k) ==
  /\ Is(t, "find", k) /\ work[t].for # "mount" /\ listMutex = None
  /\ tok[k] = "valid" /\ key[k] = "revoked"
  /\ refs' = [refs EXCEPT ![k] = @ - 1]
  /\ Goes(t, NotFound(work[t]))
  /\ UNCHANGED <<key, sem, tok, listMutex, tokOnly, oops>>

find_revoked(t, k) ==
  /\ Is(t, "find", k) /\ work[t].for # "mount" /\ listMutex = None
  /\ tok[k] = "valid" /\ key[k] = "revoked"
  /\ tok' = [tok EXCEPT ![k] = "invalid"] /\ refs' = [refs EXCEPT ![k] = @ - 1]
  /\ Goes(t, NotFound(work[t]))
  /\ UNCHANGED <<key, sem, listMutex, tokOnly, oops>>

find_valid(t, k) ==
  /\ Is(t, "find", k) /\ work[t].for # "mount" /\ listMutex = None
  /\ tok[k] = "valid" /\ key[k] \in {"ok", "garbled"}
  /\ listMutex' = t
  /\ Goes(t, [work[t] EXCEPT !.phase = "lock"])
  /\ UNCHANGED <<key, refs, sem, tok, tokOnly, oops>>

(* A signature that is not on the mount's list, and the mount itself: the  *)
(* key is looked for in the keyring.                                       *)
find_not_listed(t, k) ==
  /\ Is(t, "find", k) /\ work[t].for = "read" /\ listMutex = None
  /\ tok[k] = "none" /\ tokOnly
  /\ Goes(t, NotFound(work[t]))
  /\ UNCHANGED <<key, refs, sem, tok, listMutex, tokOnly, oops>>

keyring_auth_tok_for_sig(t, k) ==
  /\ Is(t, "find", k)
  /\ \/ work[t].for = "mount"
     \/ work[t].for = "read" /\ listMutex = None /\ tok[k] = "none" /\ ~tokOnly
  /\ IF key[k] \in {"ok", "garbled"}
     THEN /\ refs' = [refs EXCEPT ![k] = @ + 1]
          /\ Goes(t, [work[t] EXCEPT !.phase = "lock"])
          /\ UNCHANGED tok
     ELSE /\ tok' = [tok EXCEPT ![k] = IF work[t].for = "mount" THEN "invalid" ELSE @]
          /\ Goes(t, NotFound(work[t]))
          /\ UNCHANGED refs
  /\ UNCHANGED <<key, sem, listMutex, tokOnly, oops>>

(* down_write(&key->sem) and ecryptfs_verify_auth_tok_from_key, which      *)
(* looks at the payload's version, not at what became of the key.          *)
verify_version(k) == key[k] \in {"ok", "expired"}
lock_key(t, k) ==
  /\ Is(t, "lock", k) /\ sem[k] = None /\ verify_version(k)
  /\ sem' = [sem EXCEPT ![k] = t]
  /\ refs' = [refs EXCEPT ![k] = IF listMutex = t THEN @ + 1 ELSE @]
  /\ listMutex' = IF listMutex = t THEN None ELSE listMutex
  /\ Goes(t, [work[t] EXCEPT !.phase = "hold"])
  /\ UNCHANGED <<key, tok, tokOnly, oops>>

lock_garbled(t, k) ==
  /\ Is(t, "lock", k) /\ sem[k] = None /\ key[k] = "garbled"
  /\ tok' = [tok EXCEPT ![k] = IF listMutex = t \/ work[t].for = "mount" THEN "invalid" ELSE @]
  /\ refs' = [refs EXCEPT ![k] = @ - 1]
  /\ listMutex' = IF listMutex = t THEN None ELSE listMutex
  /\ Goes(t, NotFound(work[t]))
  /\ UNCHANGED <<key, sem, tokOnly, oops>>

(* key_revoke has set the payload to NULL since the key was validated.     *)
lock_revoked(t, k) ==
  /\ Is(t, "lock", k) /\ sem[k] = None /\ key[k] = "revoked"
  /\ oops' = TRUE
  /\ UNCHANGED <<key, refs, sem, tok, listMutex, tokOnly, work>>

-----------------------------------------------------------------------------
Unlock(k) == sem' = [sem EXCEPT ![k] = None] /\ refs' = [refs EXCEPT ![k] = @ - 1]

(* ecryptfs_init_global_auth_toks keeps the reference for the list.        *)
init_global_auth_tok(t, k) ==
  /\ Is(t, "hold", k) /\ work[t].for = "mount"
  /\ tok' = [tok EXCEPT ![k] = "valid"] /\ sem' = [sem EXCEPT ![k] = None]
  /\ Goes(t, Onward(work[t]))
  /\ UNCHANGED <<key, refs, listMutex, tokOnly, oops>>

(* A passphrase token's part is taken with the key locked: write_tag_3, or *)
(* the copy that decrypt_passphrase_encrypted_session_key works on.        *)
use_password(t, k) ==
  /\ Is(t, "hold", k) /\ work[t].for # "mount" /\ k \in Password
  /\ Unlock(k)
  /\ Goes(t, Succeeded(work[t])) \/ Goes(t, Failed(work[t]))
  /\ UNCHANGED <<key, tok, listMutex, tokOnly, oops>>

(* A private key's token is copied into the request to the daemon, and the *)
(* key is unlocked before the request is sent.                             *)
use_private_key(t, k) ==
  /\ Is(t, "hold", k) /\ work[t].for # "mount" /\ k \in Private
  /\ Unlock(k)
  /\ Goes(t, [work[t] EXCEPT !.phase = "ask"]) \/ Goes(t, Failed(work[t]))
  /\ UNCHANGED <<key, tok, listMutex, tokOnly, oops>>

(* The daemon answers after it read the key itself, ...                    *)
answered(t, k) ==
  /\ Is(t, "ask", k) /\ sem[k] = None
  /\ Goes(t, Succeeded(work[t]))
  /\ UNCHANGED <<key, refs, sem, tok, listMutex, tokOnly, oops>>

(* ... or refuses, or there is none, or the wait times out.                *)
not_answered(t, k) ==
  /\ Is(t, "ask", k)
  /\ Goes(t, Failed(work[t]))
  /\ UNCHANGED <<key, refs, sem, tok, listMutex, tokOnly, oops>>

(* ecryptfs_destroy_mount_crypt_stat.                                      *)
destroy_mount_crypt_stat ==
  /\ refs' = [k \in Sigs |-> IF tok[k] = "valid" THEN refs[k] - 1 ELSE refs[k]]
  /\ tok' = [k \in Sigs |-> "none"]

(* The user and the clock.                                                 *)
key_changes(k) ==
  /\ ~oops /\ key[k] = "ok" /\ Cardinality({s \in Sigs : key[s] # "ok"}) < MaxChanged
  /\ \/ key' = [key EXCEPT ![k] = "expired"]
     \/ sem[k] = None /\ key' \in {[key EXCEPT ![k] = s] : s \in {"revoked", "garbled"}}
  /\ UNCHANGED <<refs, sem, tok, listMutex, tokOnly, work, oops>>

Find(t, k) == \/ find_refused(t, k) \/ find_revoked(t, k) \/ find_valid(t, k)
              \/ find_not_listed(t, k) \/ keyring_auth_tok_for_sig(t, k)

Lock(t, k) == lock_key(t, k) \/ lock_garbled(t, k) \/ lock_revoked(t, k)

Use(t, k) == \/ init_global_auth_tok(t, k) \/ use_password(t, k) \/ use_private_key(t, k)
             \/ answered(t, k) \/ not_answered(t, k)

KeyStep(t) == \E k \in Sigs : Find(t, k) \/ Lock(t, k) \/ Use(t, k)

-----------------------------------------------------------------------------
Users(k) == {t \in Tasks : \/ work[t].phase = "hold" /\ Is(t, "hold", k)
                           \/ work[t].phase = "lock" /\ listMutex # t /\ Is(t, "lock", k)}

(* Each reference of a key is accounted for: the keyring's, the list's and *)
(* those of the tasks at work, on every path of find, lock, use, mount and *)
(* unmount; a key is put once although several tasks see it revoked.       *)
RefsExact ==
  ~oops => \A k \in Sigs :
    refs[k] = 1 + (IF tok[k] = "valid" THEN 1 ELSE 0) + Cardinality(Users(k))

=============================================================================
