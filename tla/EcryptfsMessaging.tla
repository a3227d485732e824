------------------------- MODULE EcryptfsMessaging -------------------------
(***************************************************************************)
(* How eCryptfs asks its user-space daemon for key operations: messaging.c *)
(* and miscdev.c.  A task takes a message context, queues a request on the *)
(* daemon's out queue and sleeps until a response or a timeout; the daemon *)
(* opens /dev/ecryptfs, reads requests and writes responses.               *)
(*                                                                         *)
(* The out queue is the kernel's linked list, because the code adds to it  *)
(* under another lock than it removes from it, and adds contexts that may  *)
(* still be in it.  ecryptfs_daemon_hash_mux is held from the beginning to *)
(* the end of ecryptfs_send_message (sender), by open and by release.      *)
(***************************************************************************)
EXTENDS Naturals, FiniteSets

CONSTANTS Tasks,     \* kernel tasks of the daemon's user
          Ctxs,      \* message contexts, ecryptfs_message_buf_len of them
          MaxSeq,    \* requests sent in a behaviour
          MaxOpens   \* times a daemon opens the device

CONSTANTS None, OutQueue, Poison    \* NULL, the queue's list head, LIST_POISON

ASSUME MessagingAssumption == /\ MaxSeq \in Nat /\ MaxOpens \in Nat
                              /\ {None, OutQueue, Poison} \cap Ctxs = {} /\ OutQueue # Poison /\ None \notin Tasks

VARIABLES ctx,         \* context -> state, counter, and the message it points to
          counter,     \* ecryptfs_msg_counter
          nxt, prv,    \* list pointers of the contexts' daemon_out_list and of the head
          daemon,      \* "none", "open", "closing" (exorcised while releasing)
          opens, cur,  \* opens so far; where ecryptfs_exorcise_daemon's walk is
          packets,     \* requests read: by which daemon, with index and sequence number
          sender,      \* the task that holds ecryptfs_daemon_hash_mux, or None
          pc, held, seq, tail,  \* of each task: place, context, number of its request, prev in list_add_tail
          got,         \* of each task: the message it last took
          leaked, dropped, requeued, raced,   \* history, see below
          oops         \* a poisoned pointer was followed; the kernel stops

vars == <<ctx, counter, nxt, prv, daemon, opens, cur, packets, sender, pc, held, seq, tail, got,
          leaked, dropped, requeued, raced, oops>>
queue == <<nxt, prv>>
history == <<leaked, dropped, requeued, raced>>
tasks == <<pc, held, seq, tail, got>>

Nodes == Ctxs \cup {OutQueue}
Pointers == Nodes \cup {Poison}
NoMsg == [kind |-> "none", of |-> 0]
FreeCtx == [state |-> "FREE", counter |-> 0, msg |-> NoMsg]

(* A context is linked when its list pointers are those of a list: they    *)
(* are poisoned when it was removed, and name itself at first.             *)
Linked(c) == nxt[c] \notin {Poison, c}

Init ==
  /\ ctx = [c \in Ctxs |-> FreeCtx] /\ counter = 0
  /\ nxt = [x \in Nodes |-> x] /\ prv = [x \in Nodes |-> x]
  /\ daemon = "none" /\ opens = 0 /\ cur = OutQueue
  /\ packets = {} /\ sender = None
  /\ pc = [t \in Tasks |-> "idle"] /\ held = [t \in Tasks |-> None]
  /\ seq = [t \in Tasks |-> 0] /\ tail = [t \in Tasks |-> OutQueue]
  /\ got = [t \in Tasks |-> [asked |-> 0, of |-> 0]]
  /\ leaked = {} /\ dropped = FALSE /\ requeued = FALSE /\ raced = FALSE /\ oops = FALSE

-----------------------------------------------------------------------------
(* ecryptfs_send_message, under ecryptfs_daemon_hash_mux.  Without a       *)
(* daemon or a free context it fails and changes nothing.  A context whose *)
(* mutex is held is passed over, so any free one may be taken.             *)

acquire_free_msg_ctx(c) ==
  /\ ctx[c].state = "FREE"
  /\ counter' = counter + 1
  /\ ctx' = [ctx EXCEPT ![c] = [@ EXCEPT !.state = "PENDING", !.counter = counter + 1]]

send_message(t, c) ==
  /\ ~oops /\ pc[t] = "idle" /\ sender = None /\ counter < MaxSeq
  /\ daemon = "open" /\ acquire_free_msg_ctx(c)
  /\ sender' = t /\ held' = [held EXCEPT ![t] = c] /\ seq' = [seq EXCEPT ![t] = counter + 1]
  /\ pc' = [pc EXCEPT ![t] = "acquired"]
  /\ UNCHANGED <<queue, daemon, opens, cur, packets, tail, got, history, oops>>

(* kmalloc of the message fails: the send fails, the context stays on the  *)
(* alloc list and nobody will return it (leaked).                          *)
send_miscdev_fails(t) ==
  /\ ~oops /\ pc[t] = "acquired"
  /\ leaked' = leaked \cup {held[t]}
  /\ sender' = None /\ held' = [held EXCEPT ![t] = None] /\ pc' = [pc EXCEPT ![t] = "idle"]
  /\ UNCHANGED <<ctx, counter, queue, daemon, opens, cur, packets, seq, tail, got,
                 dropped, requeued, raced, oops>>

(* list_add_tail runs under the context's mutex, not under daemon->mux: it *)
(* reads the last element, and links the new one behind it afterwards.     *)
send_miscdev(t) ==
  /\ ~oops /\ pc[t] = "acquired"
  /\ ctx' = [ctx EXCEPT ![held[t]].msg = [kind |-> "request", of |-> seq[t]]]
  /\ tail' = [tail EXCEPT ![t] = prv[OutQueue]]
  /\ requeued' = (requeued \/ Linked(held[t]))
  /\ pc' = [pc EXCEPT ![t] = "adding"]
  /\ UNCHANGED <<counter, queue, daemon, opens, cur, packets, sender, held, seq, got,
                 leaked, dropped, raced, oops>>

send_miscdev_added(t) ==
  /\ ~oops /\ pc[t] = "adding"
  /\ LET c == held[t]
         n1 == [nxt EXCEPT ![c] = OutQueue]
     IN /\ prv' = [prv EXCEPT ![OutQueue] = c, ![c] = tail[t]]
        /\ nxt' = [n1 EXCEPT ![tail[t]] = c]
  /\ raced' = (raced \/ tail[t] # prv[OutQueue])
  /\ sender' = None /\ pc' = [pc EXCEPT ![t] = "waiting"]
  /\ UNCHANGED <<ctx, counter, daemon, opens, cur, packets, held, seq, tail, got,
                 leaked, dropped, requeued, oops>>

-----------------------------------------------------------------------------
(* ecryptfs_wait_for_response.  A wake-up that finds the context not DONE  *)
(* sleeps on and changes nothing.                                          *)

alloc_to_free(c) == ctx' = [ctx EXCEPT ![c] = [@ EXCEPT !.state = "FREE", !.msg = NoMsg]]

return(t) ==
  /\ held' = [held EXCEPT ![t] = None] /\ pc' = [pc EXCEPT ![t] = "idle"]
  /\ UNCHANGED <<counter, queue, daemon, opens, cur, packets, sender, seq, tail, history, oops>>

wait_for_response(t) ==
  /\ ~oops /\ pc[t] = "waiting" /\ ctx[held[t]].state = "DONE"
  /\ got' = [got EXCEPT ![t] = [asked |-> seq[t], of |-> ctx[held[t]].msg.of]]
  /\ alloc_to_free(held[t])
  /\ return(t)

(* Mutant: only a PENDING context ends the wait.                           *)
wait_timeout_if_pending(t) ==
  /\ ~oops /\ pc[t] = "waiting" /\ ctx[held[t]].state = "PENDING"
  /\ alloc_to_free(held[t])
  /\ return(t) /\ UNCHANGED got

(* Mutant: the context is not given back.                                  *)
wait_timeout_kept(t) ==
  /\ ~oops /\ pc[t] = "waiting" /\ ctx[held[t]].state # "DONE"
  /\ UNCHANGED ctx
  /\ return(t) /\ UNCHANGED got

wait_timeout(t) ==
  /\ ~oops /\ pc[t] = "waiting" /\ ctx[held[t]].state # "DONE"
  /\ alloc_to_free(held[t])
  /\ return(t) /\ UNCHANGED got

-----------------------------------------------------------------------------
(* The daemon's system calls.                                              *)

spawn_daemon == nxt' = [nxt EXCEPT ![OutQueue] = OutQueue] /\ prv' = [prv EXCEPT ![OutQueue] = OutQueue]

(* ecryptfs_miscdev_open: refused while the user has a daemon.             *)
miscdev_open ==
  /\ ~oops /\ daemon = "none" /\ sender = None /\ opens < MaxOpens
  /\ daemon' = "open" /\ opens' = opens + 1
  /\ spawn_daemon
  /\ UNCHANGED <<ctx, counter, cur, packets, sender, tasks, history, oops>>

(* list_del writes through both neighbours.                                *)
(* Mutant: the element before is not written to.                           *)
list_del_one_sided(c) ==
  /\ nxt' = [nxt EXCEPT ![c] = Poison]
  /\ prv' = [prv EXCEPT ![nxt[c]] = prv[c], ![c] = Poison]
  /\ UNCHANGED oops

list_del(c) ==
  IF Poison \in {nxt[c], prv[c]}
  THEN oops' = TRUE /\ UNCHANGED queue
  ELSE LET n1 == [nxt EXCEPT ![prv[c]] = nxt[c]]
           p1 == [prv EXCEPT ![nxt[c]] = prv[c]]
       IN /\ nxt' = [n1 EXCEPT ![c] = Poison]
          /\ prv' = [p1 EXCEPT ![c] = Poison]
          /\ UNCHANGED oops

Packet(c) == [by |-> opens, index |-> c, seq |-> ctx[c].counter, of |-> ctx[c].msg.of]

(* ecryptfs_miscdev_read: a context without a message makes a packet that  *)
(* has no index, which the daemon cannot answer.                           *)
miscdev_read ==
  /\ ~oops /\ daemon = "open" /\ nxt[OutQueue] # OutQueue
  /\ LET c == nxt[OutQueue] IN
       /\ packets' = IF ctx[c].msg = NoMsg THEN packets
                     ELSE packets \cup {Packet(c)}
       /\ list_del(c)
       /\ ctx' = [ctx EXCEPT ![c].msg = NoMsg]
  /\ UNCHANGED <<counter, daemon, opens, cur, sender, tasks, history>>

(* Mutant: the sequence number is not compared.                            *)
Expected_any(p) == ctx[p.index].state = "PENDING"
Expected(p) == ctx[p.index].state = "PENDING" /\ ctx[p.index].counter = p.seq

process_response(p) ==
  /\ Expected(p)
  /\ ctx' = [ctx EXCEPT ![p.index] = [@ EXCEPT !.state = "DONE", !.msg = [kind |-> "response", of |-> p.of]]]

(* ecryptfs_miscdev_write.  The daemon may answer late, in any order, and  *)
(* again; an answer that is not expected is refused and changes nothing.   *)
miscdev_write(p) ==
  /\ ~oops /\ daemon = "open" /\ p \in packets /\ p.by = opens
  /\ process_response(p)
  /\ UNCHANGED <<counter, queue, daemon, opens, cur, packets, sender, tasks, history, oops>>

(* ecryptfs_miscdev_release: it exorcises the daemon, which frees every    *)
(* context in the queue, waited for or not (dropped).                      *)
miscdev_release ==
  /\ ~oops /\ daemon = "open" /\ sender = None
  /\ daemon' = "closing" /\ cur' = nxt[OutQueue]
  /\ UNCHANGED <<ctx, counter, queue, opens, packets, sender, tasks, history, oops>>

exorcise_item ==
  /\ ~oops /\ daemon = "closing" /\ cur \in Ctxs
  /\ IF nxt[cur] = Poison
     THEN oops' = TRUE /\ UNCHANGED <<queue, ctx, cur, dropped, leaked>>
     ELSE /\ cur' = nxt[cur] /\ list_del(cur) /\ alloc_to_free(cur)
          /\ dropped' = (dropped \/ \E t \in Tasks : held[t] = cur)
          /\ leaked' = leaked \ {cur}
  /\ UNCHANGED <<counter, daemon, opens, packets, sender, tasks, requeued, raced>>

exorcise_daemon ==
  /\ ~oops /\ daemon = "closing" /\ cur = OutQueue
  /\ daemon' = "none"
  /\ UNCHANGED <<ctx, counter, queue, opens, cur, packets, sender, tasks, history, oops>>

-----------------------------------------------------------------------------
Send(t) == \/ \E c \in Ctxs : send_message(t, c)
           \/ send_miscdev_fails(t)
           \/ send_miscdev(t)
           \/ send_miscdev_added(t)

Daemon == \/ miscdev_open
          \/ miscdev_read
          \/ \E p \in packets : miscdev_write(p)
          \/ miscdev_release
          \/ exorcise_item
          \/ exorcise_daemon

Next == \/ \E t \in Tasks : Send(t) \/ wait_for_response(t) \/ wait_timeout(t)
        \/ Daemon

Spec == Init /\ [][Next]_vars

(* A task in a send goes on, a sleeper's timer expires, and the kernel     *)
(* finishes a release.  The daemon need not do anything.                   *)
FairSpec ==
  /\ Spec
  /\ \A t \in Tasks : /\ WF_vars(send_miscdev_fails(t) \/ send_miscdev(t) \/ send_miscdev_added(t))
                      /\ WF_vars(wait_for_response(t) \/ wait_timeout(t))
  /\ WF_vars(exorcise_item \/ exorcise_daemon)

-----------------------------------------------------------------------------
(* The queue is a list as long as no sender raced a removal and no         *)
(* context was queued again while it was in the queue.                     *)
Intact == ~raced /\ ~requeued

(* A task that is given a message is given the answer to its own request,  *)
(* although contexts are reused while answers are late, sent twice or out  *)
(* of order.  When the daemon died with the request unread the context is  *)
(* freed under the task that waits for it, and another one may reuse it.   *)
OwnResponse ==
  Intact /\ ~dropped => \A t \in Tasks : got[t].asked = got[t].of

(* A context is free exactly when no task has it and no failed send lost   *)
(* it, and no two tasks have the same one.                                 *)
ContextsAccounted ==
  ~dropped =>
    /\ \A c \in Ctxs : ctx[c].state = "FREE" <=> c \notin leaked /\ \A t \in Tasks : held[t] # c
    /\ \A t, u \in Tasks : t # u /\ held[t] = held[u] => held[t] = None

(* The kernel follows no poisoned pointer while the queue is intact.       *)
NoOops == oops => ~Intact

(* A task that waits comes back, whatever the daemon does and although the *)
(* context it waits for may be freed or reused under it.                   *)
WaitEnds == \A t \in Tasks : pc[t] = "waiting" ~> (pc[t] = "idle" \/ oops)
=============================================================================
