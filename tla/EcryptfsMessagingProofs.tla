----------------------- MODULE EcryptfsMessagingProofs -----------------------
(* For any number of tasks, contexts, requests and daemons, contexts are   *)
(* accounted for, and no task is given the answer to another's request, as *)
(* long as no daemon died with an unread request of a task that waits; and *)
(* while no race breaks it, the out queue is a list and answers are kept.  *)
EXTENDS EcryptfsMessaging, SequenceTheorems, TLAPS

Msg == [kind : {"none", "request", "response"}, of : Nat]
Context == [state : {"FREE", "PENDING", "DONE"}, counter : Nat, msg : Msg]
Places == {"idle", "acquired", "adding", "waiting"}

Typed ==
  /\ ctx \in [Ctxs -> Context]
  /\ counter \in Nat
  /\ pc \in [Tasks -> Places]
  /\ held \in [Tasks -> Ctxs \cup {None}]
  /\ seq \in [Tasks -> Nat]
  /\ got \in [Tasks -> [asked : Nat, of : Nat]]
  /\ leaked \in SUBSET Ctxs
  /\ opens \in Nat /\ packets \in SUBSET [by : Nat, index : Ctxs, seq : Nat, of : Nat]

DroppedTyped == dropped \in BOOLEAN

(* The head is never poisoned, so what a daemon reads is a context.        *)
Pointed ==
  /\ nxt \in [Nodes -> Pointers] /\ nxt[OutQueue] # Poison
  /\ prv \in [Nodes -> Pointers]
  /\ tail \in [Tasks -> Pointers]

(* A task has a context from its send to the end of its wait.              *)
Holding == \A t \in Tasks : pc[t] = "idle" <=> held[t] = None

(* What a task holds was not lost, and has the number of its request.      *)
HeldOwn ==
  ~dropped => \A t \in Tasks : held[t] # None => held[t] \notin leaked /\ ctx[held[t]].counter = seq[t]

(* A message carries its context's number, and so does what was made of it. *)
Numbered ==
  ~dropped =>
    /\ \A c \in Ctxs : ctx[c].msg # NoMsg => ctx[c].state # "FREE" /\ ctx[c].msg.of = ctx[c].counter
    /\ \A p \in packets : p.of = p.seq

(* A task is given the answer to its own request, or an empty message.     *)
NotAnothers == ~dropped => \A t \in Tasks : got[t].of \in {got[t].asked, 0}

IInv == Typed /\ DroppedTyped /\ Pointed /\ Holding /\ HeldOwn /\ Numbered /\ NotAnothers /\ ContextsAccounted

-----------------------------------------------------------------------------
LEMMA InitHolds == Init => IInv
<1>. SUFFICES ASSUME Init PROVE IInv
  OBVIOUS
<1>1. Typed /\ Pointed
  BY MessagingAssumption DEF Init, Typed, Pointed, FreeCtx, NoMsg, Context, Msg, Places, Nodes, Pointers
<1>2. DroppedTyped
  BY Zenon DEF Init, DroppedTyped
<1>3. Holding /\ HeldOwn /\ Numbered /\ NotAnothers
  BY DEF Init, Holding, HeldOwn, Numbered, NotAnothers, FreeCtx, NoMsg
<1>4. ContextsAccounted
  BY MessagingAssumption DEF Init, ContextsAccounted, FreeCtx
<1>. QED  BY <1>1, <1>2, <1>3, <1>4 DEF IInv

(* What each of the four changes of a context leaves in it.                *)
Fields(c, state, number, message) ==
  /\ ctx' \in [Ctxs -> Context]
  /\ ctx'[c].state = state /\ ctx'[c].counter = number /\ ctx'[c].msg = message
  /\ \A d \in Ctxs \ {c} : ctx'[d] = ctx[d]

LEMMA Taken ==
    ASSUME Typed, NEW c \in Ctxs, acquire_free_msg_ctx(c)
    PROVE  Fields(c, "PENDING", counter + 1, ctx[c].msg)
<1>1. ctx[c] \in Context /\ counter + 1 \in Nat
  BY DEF Typed
<1>2. ctx'[c] = [ctx[c] EXCEPT !.state = "PENDING", !.counter = counter + 1]
  BY DEF Typed, acquire_free_msg_ctx
<1>3. ctx'[c] \in Context /\ ctx'[c].state = "PENDING" /\ ctx'[c].counter = counter + 1 /\ ctx'[c].msg = ctx[c].msg
  BY <1>1, <1>2 DEF Context
<1>. QED  BY <1>3 DEF Typed, Fields, acquire_free_msg_ctx

LEMMA Freed ==
    ASSUME Typed, NEW c \in Ctxs, alloc_to_free(c)
    PROVE  Fields(c, "FREE", ctx[c].counter, NoMsg)
<1>1. ctx[c] \in Context /\ NoMsg \in Msg
  BY DEF Typed, NoMsg, Msg
<1>2. ctx'[c] = [ctx[c] EXCEPT !.state = "FREE", !.msg = NoMsg]
  BY DEF Typed, alloc_to_free
<1>3. ctx'[c] \in Context /\ ctx'[c].state = "FREE" /\ ctx'[c].counter = ctx[c].counter /\ ctx'[c].msg = NoMsg
  BY <1>1, <1>2 DEF Context
<1>. QED  BY <1>3 DEF Typed, Fields, alloc_to_free

LEMMA Answered ==
    ASSUME Typed, NEW p, p.index \in Ctxs, p.of \in Nat, process_response(p)
    PROVE  Fields(p.index, "DONE", ctx[p.index].counter, [kind |-> "response", of |-> p.of])
<1>1. ctx[p.index] \in Context /\ [kind |-> "response", of |-> p.of] \in Msg
  BY DEF Typed, Msg
<1>2. ctx'[p.index] = [ctx[p.index] EXCEPT !.state = "DONE", !.msg = [kind |-> "response", of |-> p.of]]
  BY DEF Typed, process_response
<1>3. /\ ctx'[p.index] \in Context /\ ctx'[p.index].state = "DONE"
      /\ ctx'[p.index].counter = ctx[p.index].counter /\ ctx'[p.index].msg = [kind |-> "response", of |-> p.of]
  BY <1>1, <1>2 DEF Context
<1>. QED  BY <1>3 DEF Typed, Fields, process_response

LEMMA Written ==
    ASSUME Typed, NEW c \in Ctxs, NEW message \in Msg, ctx' = [ctx EXCEPT ![c].msg = message]
    PROVE  Fields(c, ctx[c].state, ctx[c].counter, message)
<1>1. ctx[c] \in Context
  BY DEF Typed
<1>2. ctx'[c] = [ctx[c] EXCEPT !.msg = message]
  BY DEF Typed
<1>3. ctx'[c] \in Context /\ ctx'[c].state = ctx[c].state /\ ctx'[c].counter = ctx[c].counter /\ ctx'[c].msg = message
  BY <1>1, <1>2 DEF Context
<1>. QED  BY <1>3 DEF Typed, Fields

(* A free context is nobody's, so the task that takes it is its only one,  *)
(* and it has no message of its former user.                               *)
LEMMA SendKeeps ==
    ASSUME IInv, NEW t \in Tasks, NEW c \in Ctxs, send_message(t, c)
    PROVE  IInv'
<1>. USE DEF send_message
<1>0. Fields(c, "PENDING", counter + 1, ctx[c].msg) /\ ctx[c].state = "FREE" /\ counter' = counter + 1
  <2>1. acquire_free_msg_ctx(c)
    OBVIOUS
  <2>. QED  BY <2>1, Taken DEF IInv, acquire_free_msg_ctx
<1>1. Typed'
  BY <1>0 DEF IInv, Typed, Places, history, Fields
<1>2. DroppedTyped' /\ Pointed'
  BY Zenon DEF IInv, DroppedTyped, Pointed, queue, history
<1>3. held' = [held EXCEPT ![t] = c] /\ held[t] = None /\ c # None
  BY MessagingAssumption DEF IInv, Holding
<1>4. Holding'
  BY <1>3 DEF IInv, Typed, Holding
<1>5. UNCHANGED <<dropped, leaked, packets, got>>
  BY DEF history
<1>6. ASSUME ~dropped
      PROVE  c \notin leaked /\ ctx[c].msg = NoMsg /\ \A u \in Tasks : held[u] # c
  BY <1>0, <1>6 DEF IInv, ContextsAccounted, Numbered
<1>7. ASSUME ~dropped
      PROVE  \A u \in Tasks : held'[u] # None => held'[u] \notin leaked /\ ctx'[held'[u]].counter = seq'[u]
  BY <1>0, <1>3, <1>6, <1>7 DEF IInv, Typed, Fields, HeldOwn
<1>8. ASSUME ~dropped
      PROVE  \A d \in Ctxs : ctx'[d].msg # NoMsg => ctx'[d].state # "FREE" /\ ctx'[d].msg.of = ctx'[d].counter
  BY <1>0, <1>6, <1>8 DEF Fields, IInv, Typed, Numbered
<1>9. ASSUME ~dropped
      PROVE  /\ \A d \in Ctxs : ctx'[d].state = "FREE" <=> d \notin leaked /\ \A u \in Tasks : held'[u] # d
             /\ \A u, v \in Tasks : u # v /\ held'[u] = held'[v] => held'[u] = None
  <2>1. \A d \in Ctxs : ctx'[d].state = "FREE" <=> d \notin leaked /\ \A u \in Tasks : held'[u] # d
    <3>1. ctx'[c].state # "FREE" /\ held'[t] = c
      BY <1>0, <1>3 DEF Fields, IInv, Typed
    <3>2. \A d \in Ctxs \ {c} : ctx'[d] = ctx[d] /\ \A u \in Tasks : held'[u] = d <=> held[u] = d
      BY <1>0, <1>3, MessagingAssumption DEF Fields, IInv, Typed
    <3>. QED  BY <3>1, <3>2, <1>9 DEF IInv, ContextsAccounted
  <2>2. \A u, v \in Tasks : u # v /\ held'[u] = held'[v] => held'[u] = None
    BY <1>3, <1>6, <1>9 DEF IInv, Typed, ContextsAccounted
  <2>. QED  BY <2>1, <2>2
<1>10. HeldOwn'
  BY <1>5, <1>7, Zenon DEF HeldOwn
<1>11. Numbered' /\ NotAnothers'
  BY <1>5, <1>8, Zenon DEF IInv, Numbered, NotAnothers
<1>12. ContextsAccounted'
  BY <1>5, <1>9, Zenon DEF ContextsAccounted
<1>. QED  BY <1>1, <1>2, <1>4, <1>10, <1>11, <1>12 DEF IInv

(* A step that leaves the contexts, what the tasks hold and what they got  *)
(* alone keeps what is said of them.                                       *)
LEMMA ContextsAlone ==
    ASSUME IInv, UNCHANGED <<ctx, held, leaked, seq, got, dropped, packets>>
    PROVE  HeldOwn' /\ Numbered' /\ NotAnothers' /\ ContextsAccounted'
<1>. QED  BY Zenon DEF IInv, HeldOwn, Numbered, NotAnothers, ContextsAccounted

LEMMA AddedKeeps ==
    ASSUME IInv, NEW t \in Tasks, send_miscdev_added(t)
    PROVE  IInv'
<1>. USE DEF send_miscdev_added
<1>1. Typed' /\ Holding'
  BY MessagingAssumption DEF IInv, Typed, Holding, Places
<1>2. DroppedTyped'
  BY Zenon DEF IInv, DroppedTyped
<1>3. held[t] \in Ctxs
  BY DEF IInv, Typed, Holding
<1>4. Pointed'
  BY <1>3, MessagingAssumption DEF IInv, Pointed, Nodes, Pointers
<1>. QED  BY <1>1, <1>2, <1>4, ContextsAlone DEF IInv

LEMMA DaemonKeeps ==
    ASSUME IInv, miscdev_open \/ miscdev_release \/ exorcise_daemon
    PROVE  IInv'
<1>. USE DEF miscdev_open, miscdev_release, exorcise_daemon, spawn_daemon, queue, tasks, history
<1>1. Typed' /\ Holding'
  BY DEF IInv, Typed, Holding
<1>2. DroppedTyped'
  BY Zenon DEF IInv, DroppedTyped
<1>3. Pointed'
  BY MessagingAssumption DEF IInv, Pointed, Nodes, Pointers
<1>4. UNCHANGED <<ctx, held, leaked, seq, got, dropped, packets>>
  BY Zenon
<1>. QED  BY <1>1, <1>2, <1>3, <1>4, ContextsAlone DEF IInv

(* The context is lost with the task that held it.                         *)
LEMMA FailsKeeps ==
    ASSUME IInv, NEW t \in Tasks, send_miscdev_fails(t)
    PROVE  IInv'
<1>1. held[t] \in Ctxs /\ held' = [held EXCEPT ![t] = None]
  BY DEF IInv, Typed, Holding, send_miscdev_fails
<1>2. Typed' /\ Holding'
  BY <1>1 DEF IInv, Typed, Holding, Places, send_miscdev_fails
<1>3. DroppedTyped' /\ Pointed'
  BY Zenon DEF IInv, DroppedTyped, Pointed, queue, send_miscdev_fails
<1>4. UNCHANGED <<ctx, seq, got, dropped, packets>>
  BY DEF send_miscdev_fails
<1>5. ASSUME ~dropped
      PROVE  \A u \in Tasks : held'[u] # None => held'[u] \notin leaked' /\ ctx[held'[u]].counter = seq[u]
  BY <1>1, <1>5 DEF IInv, Typed, HeldOwn, ContextsAccounted, send_miscdev_fails
<1>6. ASSUME ~dropped
      PROVE  /\ \A c \in Ctxs : ctx[c].state = "FREE" <=> c \notin leaked' /\ \A u \in Tasks : held'[u] # c
             /\ \A u, v \in Tasks : u # v /\ held'[u] = held'[v] => held'[u] = None
  <2>1. \A c \in Ctxs \ {held[t]} : \A u \in Tasks : held'[u] = c <=> held[u] = c
    BY <1>1, MessagingAssumption DEF IInv, Typed
  <2>2. ctx[held[t]].state # "FREE"
    BY <1>1, <1>6 DEF IInv, ContextsAccounted
  <2>3. \A c \in Ctxs : ctx[c].state = "FREE" <=> c \notin leaked' /\ \A u \in Tasks : held'[u] # c
    BY <1>6, <2>1, <2>2 DEF IInv, ContextsAccounted, send_miscdev_fails
  <2>4. \A u, v \in Tasks : u # v /\ held'[u] = held'[v] => held'[u] = None
    BY <1>1, <1>6 DEF IInv, Typed, ContextsAccounted
  <2>. QED  BY <2>3, <2>4
<1>7. HeldOwn'
  BY <1>4, <1>5, Zenon DEF HeldOwn
<1>8. Numbered' /\ NotAnothers'
  BY <1>4, Zenon DEF IInv, Numbered, NotAnothers
<1>9. ContextsAccounted'
  BY <1>4, <1>6, Zenon DEF ContextsAccounted
<1>. QED  BY <1>2, <1>3, <1>7, <1>8, <1>9 DEF IInv

(* The message has the number of the task's request, which is its          *)
(* context's.                                                              *)
LEMMA AddingKeeps ==
    ASSUME IInv, NEW t \in Tasks, send_miscdev(t)
    PROVE  IInv'
<1>1. held[t] \in Ctxs
  BY DEF IInv, Typed, Holding, send_miscdev
<1>2. Fields(held[t], ctx[held[t]].state, ctx[held[t]].counter, [kind |-> "request", of |-> seq[t]])
  <2>1. [kind |-> "request", of |-> seq[t]] \in Msg
    BY DEF IInv, Typed, Msg
  <2>2. ctx' = [ctx EXCEPT ![held[t]].msg = [kind |-> "request", of |-> seq[t]]]
    BY DEF send_miscdev
  <2>. QED  BY <1>1, <2>1, <2>2, Written DEF IInv
<1>3. Typed' /\ Holding'
  BY <1>2 DEF IInv, Typed, Fields, Holding, Places, send_miscdev
<1>4. DroppedTyped'
  BY Zenon DEF IInv, DroppedTyped, send_miscdev
<1>5. Pointed'
  BY DEF IInv, Pointed, queue, Nodes, send_miscdev
<1>6. UNCHANGED <<held, leaked, seq, got, dropped, packets>>
  BY DEF send_miscdev
<1>7. \A c \in Ctxs : ctx'[c].state = ctx[c].state /\ ctx'[c].counter = ctx[c].counter
  BY <1>2 DEF Fields
<1>8. ASSUME ~dropped
      PROVE  \A c \in Ctxs : ctx'[c].msg # NoMsg => ctx'[c].state # "FREE" /\ ctx'[c].msg.of = ctx'[c].counter
  <2>1. ctx[held[t]].state # "FREE" /\ ctx[held[t]].counter = seq[t]
    BY <1>1, <1>8, MessagingAssumption DEF IInv, ContextsAccounted, HeldOwn
  <2>. QED  BY <1>2, <1>8, <2>1 DEF IInv, Fields, Numbered
<1>9. HeldOwn'
  <2>1. \A u \in Tasks : held[u] # None => held[u] \in Ctxs
    BY DEF IInv, Typed
  <2>. QED  BY <1>6, <1>7, <2>1, Zenon DEF IInv, HeldOwn
<1>10. Numbered' /\ NotAnothers'
  BY <1>6, <1>8, Zenon DEF IInv, Numbered, NotAnothers
<1>11. ContextsAccounted'
  BY <1>6, <1>7, Zenon DEF IInv, ContextsAccounted
<1>. QED  BY <1>3, <1>4, <1>5, <1>9, <1>10, <1>11 DEF IInv

(* A wait gives the context back, with the answer or without one.          *)
LEMMA WaitKeeps ==
    ASSUME IInv, NEW t \in Tasks, wait_for_response(t) \/ wait_timeout(t)
    PROVE  IInv'
<1>1. held[t] \in Ctxs /\ pc[t] = "waiting" /\ alloc_to_free(held[t]) /\ return(t)
  BY DEF IInv, Typed, Holding, wait_for_response, wait_timeout
<1>2. Fields(held[t], "FREE", ctx[held[t]].counter, NoMsg)
  BY <1>1, Freed DEF IInv
<1>3. /\ held' = [held EXCEPT ![t] = None] /\ pc' = [pc EXCEPT ![t] = "idle"]
      /\ UNCHANGED <<counter, queue, opens, packets, seq, tail, leaked, dropped>>
  BY <1>1 DEF return, history
<1>4. \/ got' = got
      \/ /\ ctx[held[t]].msg.of \in Nat
         /\ got' = [got EXCEPT ![t] = [asked |-> seq[t], of |-> ctx[held[t]].msg.of]]
  <2>1. ctx[held[t]].msg.of \in Nat
    BY <1>1 DEF IInv, Typed, Context, Msg
  <2>. QED  BY <2>1 DEF wait_for_response, wait_timeout
<1>5. Typed' /\ Holding'
  BY <1>2, <1>3, <1>4 DEF IInv, Typed, Holding, Places, Fields
<1>6. DroppedTyped' /\ Pointed'
  BY <1>3, Zenon DEF IInv, DroppedTyped, Pointed, queue
<1>7. ASSUME ~dropped
      PROVE  /\ held[t] \notin leaked /\ ctx[held[t]].counter = seq[t]
             /\ \A u \in Tasks \ {t} : held[u] # held[t]
             /\ ctx[held[t]].msg = NoMsg \/ ctx[held[t]].msg.of = seq[t]
  BY <1>1, <1>7, MessagingAssumption DEF IInv, HeldOwn, Numbered, ContextsAccounted
<1>8. ASSUME ~dropped
      PROVE  \A u \in Tasks : held'[u] # None => held'[u] \notin leaked /\ ctx'[held'[u]].counter = seq[u]
  BY <1>1, <1>2, <1>3, <1>7, <1>8 DEF IInv, Typed, Fields, HeldOwn
<1>9. ASSUME ~dropped
      PROVE  \A c \in Ctxs : ctx'[c].msg # NoMsg => ctx'[c].state # "FREE" /\ ctx'[c].msg.of = ctx'[c].counter
  BY <1>1, <1>2, <1>9 DEF IInv, Fields, Numbered
<1>10. ASSUME ~dropped
       PROVE  \A u \in Tasks : got'[u].of \in {got'[u].asked, 0}
  <2>1. ctx[held[t]].msg.of \in {seq[t], 0}
    BY <1>7, <1>10 DEF NoMsg
  <2>. QED  BY <1>4, <1>10, <2>1 DEF IInv, Typed, NotAnothers
<1>11. ASSUME ~dropped
       PROVE  /\ \A c \in Ctxs : ctx'[c].state = "FREE" <=> c \notin leaked /\ \A u \in Tasks : held'[u] # c
              /\ \A u, v \in Tasks : u # v /\ held'[u] = held'[v] => held'[u] = None
  <2>1. \A c \in Ctxs \ {held[t]} : ctx'[c] = ctx[c] /\ \A u \in Tasks : held'[u] = c <=> held[u] = c
    BY <1>1, <1>2, <1>3, MessagingAssumption DEF IInv, Typed, Fields
  <2>2. ctx'[held[t]].state = "FREE" /\ held[t] \notin leaked /\ \A u \in Tasks : held'[u] # held[t]
    BY <1>1, <1>2, <1>3, <1>7, <1>11, MessagingAssumption DEF IInv, Typed, Fields
  <2>3. \A c \in Ctxs : ctx'[c].state = "FREE" <=> c \notin leaked /\ \A u \in Tasks : held'[u] # c
    BY <1>11, <2>1, <2>2 DEF IInv, ContextsAccounted
  <2>4. \A u, v \in Tasks : u # v /\ held'[u] = held'[v] => held'[u] = None
    BY <1>1, <1>3, <1>11 DEF IInv, Typed, ContextsAccounted
  <2>. QED  BY <2>3, <2>4
<1>12. HeldOwn'
  BY <1>3, <1>8, Zenon DEF HeldOwn
<1>13. Numbered'
  BY <1>3, <1>9, Zenon DEF IInv, Numbered
<1>14. NotAnothers'
  BY <1>3, <1>10, Zenon DEF NotAnothers
<1>15. ContextsAccounted'
  BY <1>3, <1>11, Zenon DEF ContextsAccounted
<1>. QED  BY <1>5, <1>6, <1>12, <1>13, <1>14, <1>15 DEF IInv

(* list_del writes no poison into the head.                                *)
LEMMA DelKeepsPointed ==
    ASSUME Pointed, NEW c \in Ctxs, list_del(c), UNCHANGED tail
    PROVE  Pointed'
<1>1. CASE Poison \in {nxt[c], prv[c]}
  BY <1>1 DEF list_del, Pointed, queue, Nodes
<1>2. CASE Poison \notin {nxt[c], prv[c]}
  <2>1. nxt[c] \in Nodes /\ prv[c] \in Nodes /\ c # OutQueue /\ c \in Nodes /\ OutQueue \in Nodes
    BY <1>2, MessagingAssumption DEF Pointed, Nodes, Pointers
  <2>2. /\ nxt' = [[nxt EXCEPT ![prv[c]] = nxt[c]] EXCEPT ![c] = Poison]
        /\ prv' = [[prv EXCEPT ![nxt[c]] = prv[c]] EXCEPT ![c] = Poison]
    BY <1>2, Zenon DEF list_del
  <2>. QED  BY <1>2, <2>1, <2>2 DEF Pointed, Pointers
<1>. QED  BY <1>1, <1>2

(* What the daemon reads has the number of the message it carries.         *)
LEMMA ReadKeeps ==
    ASSUME IInv, miscdev_read
    PROVE  IInv'
<1>. DEFINE c == nxt[OutQueue]
<1>1. c \in Ctxs
  BY MessagingAssumption DEF IInv, Pointed, Nodes, Pointers, miscdev_read
<1>2. /\ list_del(c) /\ ctx' = [ctx EXCEPT ![c].msg = NoMsg]
      /\ packets' = IF ctx[c].msg = NoMsg THEN packets ELSE packets \cup {Packet(c)}
      /\ UNCHANGED <<counter, opens, pc, held, seq, tail, got, leaked, dropped>>
  BY DEF miscdev_read, tasks, history
<1>. HIDE DEF c
<1>3. Fields(c, ctx[c].state, ctx[c].counter, NoMsg)
  <2>1. NoMsg \in Msg
    BY DEF NoMsg, Msg
  <2>. QED  BY <1>1, <1>2, <2>1, Written DEF IInv
<1>4. Packet(c) \in [by : Nat, index : Ctxs, seq : Nat, of : Nat]
  <2>1. ctx[c] \in Context /\ ctx[c].msg \in Msg
    BY <1>1 DEF IInv, Typed, Context
  <2>. QED  BY <1>1, <2>1 DEF IInv, Typed, Context, Msg, Packet
<1>5. Typed' /\ Holding'
  BY <1>2, <1>3, <1>4 DEF IInv, Typed, Fields, Holding
<1>6. DroppedTyped'
  BY <1>2, Zenon DEF IInv, DroppedTyped
<1>7. Pointed'
  BY <1>1, <1>2, DelKeepsPointed DEF IInv
<1>8. \A d \in Ctxs : ctx'[d].state = ctx[d].state /\ ctx'[d].counter = ctx[d].counter
  BY <1>3 DEF Fields
<1>9. ASSUME ~dropped
      PROVE  /\ \A d \in Ctxs : ctx'[d].msg # NoMsg => ctx'[d].state # "FREE" /\ ctx'[d].msg.of = ctx'[d].counter
             /\ \A p \in packets' : p.of = p.seq
  <2>1. \A d \in Ctxs : ctx'[d].msg # NoMsg => ctx'[d].state # "FREE" /\ ctx'[d].msg.of = ctx'[d].counter
    BY <1>1, <1>3, <1>9 DEF IInv, Fields, Numbered
  <2>2. ctx[c].msg # NoMsg => Packet(c).of = Packet(c).seq
    BY <1>1, <1>9 DEF IInv, Numbered, Packet
  <2>. QED  BY <1>2, <1>9, <2>1, <2>2 DEF IInv, Numbered
<1>10. HeldOwn'
  <2>1. \A u \in Tasks : held[u] # None => held[u] \in Ctxs
    BY DEF IInv, Typed
  <2>. QED  BY <1>2, <1>8, <2>1, Zenon DEF IInv, HeldOwn
<1>11. Numbered'
  BY <1>2, <1>9, Zenon DEF Numbered
<1>12. NotAnothers' /\ ContextsAccounted'
  BY <1>2, <1>8, Zenon DEF IInv, NotAnothers, ContextsAccounted
<1>. QED  BY <1>5, <1>6, <1>7, <1>10, <1>11, <1>12 DEF IInv

(* An answer is taken only by the context that has its number.             *)
LEMMA WriteKeeps ==
    ASSUME IInv, NEW p \in packets, miscdev_write(p)
    PROVE  IInv'
<1>1. p.index \in Ctxs /\ p.of \in Nat /\ process_response(p)
  BY DEF IInv, Typed, miscdev_write
<1>2. Fields(p.index, "DONE", ctx[p.index].counter, [kind |-> "response", of |-> p.of])
  BY <1>1, Answered DEF IInv
<1>3. ctx[p.index].state = "PENDING" /\ ctx[p.index].counter = p.seq
  BY <1>1 DEF process_response, Expected
<1>4. UNCHANGED <<counter, queue, opens, packets, pc, held, seq, tail, got, leaked, dropped>>
  BY DEF miscdev_write, tasks, history
<1>5. Typed' /\ Holding'
  BY <1>2, <1>4 DEF IInv, Typed, Fields, Holding
<1>6. DroppedTyped' /\ Pointed'
  BY <1>4, Zenon DEF IInv, DroppedTyped, Pointed, queue
<1>7. \A d \in Ctxs : (ctx'[d].state = "FREE" <=> ctx[d].state = "FREE") /\ ctx'[d].counter = ctx[d].counter
  BY <1>2, <1>3 DEF Fields
<1>8. ASSUME ~dropped
      PROVE  \A d \in Ctxs : ctx'[d].msg # NoMsg => ctx'[d].state # "FREE" /\ ctx'[d].msg.of = ctx'[d].counter
  <2>1. p.of = p.seq
    BY <1>8 DEF IInv, Numbered
  <2>. QED  BY <1>1, <1>2, <1>3, <1>8, <2>1 DEF IInv, Fields, Numbered
<1>9. HeldOwn'
  <2>1. \A u \in Tasks : held[u] # None => held[u] \in Ctxs
    BY DEF IInv, Typed
  <2>. QED  BY <1>4, <1>7, <2>1, Zenon DEF IInv, HeldOwn
<1>10. Numbered'
  BY <1>4, <1>8, Zenon DEF IInv, Numbered
<1>11. NotAnothers' /\ ContextsAccounted'
  BY <1>4, <1>7, Zenon DEF IInv, NotAnothers, ContextsAccounted
<1>. QED  BY <1>5, <1>6, <1>9, <1>10, <1>11 DEF IInv

(* The dying daemon frees a context: nobody's, or dropped says so.         *)
LEMMA ExorciseKeeps ==
    ASSUME IInv, exorcise_item
    PROVE  IInv'
<1>. USE DEF tasks
<1>1. CASE UNCHANGED <<queue, ctx, cur, dropped, leaked>>
  <2>1. UNCHANGED <<counter, opens, packets, pc, held, seq, tail, got>>
    BY DEF exorcise_item
  <2>2. Typed' /\ Holding'
    BY <1>1, <2>1 DEF IInv, Typed, Holding
  <2>3. DroppedTyped' /\ Pointed'
    BY <1>1, <2>1, Zenon DEF IInv, DroppedTyped, Pointed, queue
  <2>. QED  BY <1>1, <2>1, <2>2, <2>3, ContextsAlone DEF IInv
<1>2. CASE /\ list_del(cur) /\ alloc_to_free(cur)
           /\ dropped' = (dropped \/ \E t \in Tasks : held[t] = cur)
           /\ leaked' = leaked \ {cur}
  <2>1. cur \in Ctxs /\ UNCHANGED <<counter, opens, packets, pc, held, seq, tail, got>>
    BY DEF exorcise_item
  <2>2. Fields(cur, "FREE", ctx[cur].counter, NoMsg)
    BY <1>2, <2>1, Freed DEF IInv
  <2>3. Typed' /\ Holding'
    BY <1>2, <2>1, <2>2 DEF IInv, Typed, Fields, Holding
  <2>4. DroppedTyped'
    BY <1>2 DEF DroppedTyped
  <2>5. Pointed'
    BY <1>2, <2>1, DelKeepsPointed DEF IInv
  <2>6. ASSUME ~dropped'
        PROVE  ~dropped /\ \A t \in Tasks : held[t] # cur
    BY <1>2, <2>6
  <2>7. ASSUME ~dropped'
        PROVE  \A u \in Tasks : held[u] # None => held[u] \notin leaked' /\ ctx'[held[u]].counter = seq[u]
    BY <1>2, <2>2, <2>6, <2>7 DEF IInv, Typed, Fields, HeldOwn
  <2>8. ASSUME ~dropped'
        PROVE  /\ \A d \in Ctxs : ctx'[d].msg # NoMsg => ctx'[d].state # "FREE" /\ ctx'[d].msg.of = ctx'[d].counter
               /\ \A p \in packets : p.of = p.seq
    BY <2>1, <2>2, <2>6, <2>8 DEF IInv, Fields, Numbered
  <2>9. ASSUME ~dropped'
        PROVE  /\ \A d \in Ctxs : ctx'[d].state = "FREE" <=> d \notin leaked' /\ \A u \in Tasks : held[u] # d
               /\ \A u, v \in Tasks : u # v /\ held[u] = held[v] => held[u] = None
    BY <1>2, <2>1, <2>2, <2>6, <2>9 DEF IInv, Fields, ContextsAccounted
  <2>10. HeldOwn' /\ Numbered' /\ ContextsAccounted'
    BY <2>1, <2>7, <2>8, <2>9, Zenon DEF HeldOwn, Numbered, ContextsAccounted
  <2>11. NotAnothers'
    BY <2>1, <2>6, Zenon DEF IInv, NotAnothers
  <2>. QED  BY <2>3, <2>4, <2>5, <2>10, <2>11 DEF IInv
<1>. QED  BY <1>1, <1>2, Zenon DEF exorcise_item

-----------------------------------------------------------------------------
LEMMA StepKeeps == IInv /\ [Next]_vars => IInv'
<1>. SUFFICES ASSUME IInv, [Next]_vars PROVE IInv'
  OBVIOUS
<1>1. ASSUME NEW t \in Tasks, Send(t) PROVE IInv'
  BY <1>1, SendKeeps, FailsKeeps, AddingKeeps, AddedKeeps, Zenon DEF Send
<1>2. ASSUME NEW t \in Tasks, wait_for_response(t) \/ wait_timeout(t) PROVE IInv'
  BY <1>2, WaitKeeps
<1>3. ASSUME Daemon PROVE IInv'
  BY <1>3, DaemonKeeps, ReadKeeps, WriteKeeps, ExorciseKeeps, Zenon DEF Daemon
<1>4. CASE UNCHANGED vars
  <2>1. UNCHANGED <<ctx, counter, nxt, prv, opens, packets, pc, held, seq, tail, got, leaked, dropped>>
    BY <1>4, Zenon DEF vars
  <2>2. Typed' /\ Holding'
    BY <2>1 DEF IInv, Typed, Holding
  <2>3. DroppedTyped' /\ Pointed'
    BY <2>1, Zenon DEF IInv, DroppedTyped, Pointed
  <2>. QED  BY <2>1, <2>2, <2>3, ContextsAlone DEF IInv
<1>. QED  BY <1>1, <1>2, <1>3, <1>4, Zenon DEF Next

(* Contexts, tasks and packets stay what they are, and a context has the   *)
(* message of the request it was taken for.                                *)
THEOREM IInvAlways == Spec => []IInv
<1>. QED  BY InitHolds, StepKeeps, PTL DEF Spec

(* However sends fail, answers come and waits end, a context is free       *)
(* exactly when no task has it and no failed send lost it, and two tasks   *)
(* never share one, until a daemon dies with what a task waits for.        *)
THEOREM ContextsAlwaysAccounted == Spec => []ContextsAccounted
<1>1. IInv => ContextsAccounted
  BY Zenon DEF IInv
<1>. QED  BY <1>1, IInvAlways, PTL

(* A task that is given a message is given the answer to its own request   *)
(* or an empty one, never the answer to another's, although contexts are   *)
(* reused and the daemon answers late and again, and even when the out     *)
(* queue is no list any more.                                              *)
THEOREM NeverAnothersAnswer == Spec => []NotAnothers
<1>1. IInv => NotAnothers
  BY Zenon DEF IInv
<1>. QED  BY <1>1, IInvAlways, PTL
-----------------------------------------------------------------------------
(* The out queue.  It is the list of some sequence of contexts, until a    *)
(* sender races a removal or queues a context again.  Contexts are only    *)
(* added at its end and taken from its front: by the daemon that reads,    *)
(* and by the one that is exorcised.                                       *)
Node(s, i) == IF i \in 1..Len(s) THEN s[i] ELSE OutQueue

Represents(s) ==
  /\ \A i, j \in 1..Len(s) : s[i] = s[j] => i = j
  /\ \A i \in 0..Len(s) : nxt[Node(s, i)] = Node(s, i + 1) /\ prv[Node(s, i + 1)] = Node(s, i)
  /\ \A c \in Ctxs : (\A i \in 1..Len(s) : s[i] # c) => nxt[c] \in {c, Poison}

Listed == Intact => \E s \in Seq(Ctxs) : Represents(s)

Sending(t) == pc[t] \in {"acquired", "adding"}

(* One task sends at a time, to a daemon that has the device open.         *)
Senders == \A t \in Tasks : Sending(t) => sender = t /\ daemon = "open"

(* Without a daemon the queue is empty; one that is exorcised takes what   *)
(* is first.                                                               *)
Emptied == Intact => /\ daemon = "none" => nxt[OutQueue] = OutQueue
                     /\ daemon = "closing" => cur = nxt[OutQueue]

Unlinked == Intact => \A t \in Tasks : pc[t] = "adding" => ~Linked(held[t])

QueueInv == Senders /\ Listed /\ Emptied /\ Unlinked /\ NoOops

(* What is being sent was not read yet, so nothing answers it.             *)
Unread ==
  \A t \in Tasks : Sending(t) =>
    /\ ctx[held[t]].state = "PENDING" /\ (pc[t] = "acquired" => ctx[held[t]].msg = NoMsg)
    /\ \A p \in packets : p.index = held[t] => p.seq # ctx[held[t]].counter

(* What was read is not in the queue any more.                             *)
ReadOnce ==
  /\ \A c \in Ctxs : ctx[c].counter <= counter
  /\ \A p \in packets : p.seq <= counter /\ (ctx[p.index].counter = p.seq => ~Linked(p.index))

(* An answer stays with its context: nothing reads it from the queue.      *)
AnswerKept ==
  \A c \in Ctxs : ctx[c].state = "DONE" => ctx[c].msg # NoMsg /\ ~Linked(c)

Calm == Intact /\ ~dropped

AnswerInv == (Calm => Unread /\ ReadOnce /\ AnswerKept) /\ OwnResponse

LEMMA Distinct ==
    ASSUME NEW s \in Seq(Ctxs), Represents(s),
           NEW i \in 1..(Len(s) + 1), NEW j \in 1..(Len(s) + 1), Node(s, i) = Node(s, j)
    PROVE  i = j
<1>1. Len(s) \in Nat /\ \A k \in 1..Len(s) : s[k] \in Ctxs /\ s[k] # OutQueue
  BY MessagingAssumption
<1>2. CASE i \in 1..Len(s) /\ j \in 1..Len(s)
  BY <1>2 DEF Node, Represents
<1>3. CASE i = Len(s) + 1 \/ j = Len(s) + 1
  BY <1>1, <1>3 DEF Node
<1>. QED  BY <1>1, <1>2, <1>3

LEMMA ListFacts ==
    ASSUME NEW s \in Seq(Ctxs), Represents(s)
    PROVE  /\ Len(s) \in Nat
           /\ nxt[OutQueue] = Node(s, 1) /\ prv[OutQueue] = Node(s, Len(s))
           /\ nxt[OutQueue] \in Ctxs \cup {OutQueue}
           /\ nxt[OutQueue] = OutQueue <=> s = << >>
           /\ \A c \in Ctxs : Linked(c) <=> \E i \in 1..Len(s) : s[i] = c
<1>1. Len(s) \in Nat /\ \A k \in 1..Len(s) : s[k] \in Ctxs
  OBVIOUS
<1>2. \A k \in 1..Len(s) : s[k] # OutQueue /\ s[k] # Poison
  BY <1>1, MessagingAssumption
<1>3. Node(s, 0) = OutQueue /\ Node(s, Len(s) + 1) = OutQueue
  BY <1>1 DEF Node
<1>4. nxt[OutQueue] = Node(s, 1) /\ prv[OutQueue] = Node(s, Len(s))
  BY <1>1, <1>3 DEF Represents
<1>5. nxt[OutQueue] \in Ctxs \cup {OutQueue} /\ (nxt[OutQueue] = OutQueue <=> s = << >>)
  <2>1. CASE s = << >>
    BY <1>4, <2>1 DEF Node
  <2>2. CASE s # << >>
    <3>1. 1 \in 1..Len(s)
      BY <2>2, EmptySeq
    <3>. QED  BY <1>1, <1>2, <1>4, <2>2, <3>1 DEF Node
  <2>. QED  BY <2>1, <2>2
<1>6. ASSUME NEW c \in Ctxs, NEW i \in 1..Len(s), s[i] = c
      PROVE  Linked(c)
  <2>1. nxt[c] = Node(s, i + 1)
    BY <1>1, <1>6 DEF Represents, Node
  <2>2. Node(s, i + 1) # Node(s, i)
    BY <1>1, Distinct
  <2>3. Node(s, i) = c
    BY <1>6 DEF Node
  <2>4. Node(s, i + 1) # Poison
    BY <1>1, <1>2, MessagingAssumption DEF Node
  <2>. QED  BY <2>1, <2>2, <2>3, <2>4 DEF Linked
<1>7. ASSUME NEW c \in Ctxs, \A i \in 1..Len(s) : s[i] # c
      PROVE  ~Linked(c)
  BY <1>7 DEF Represents, Linked
<1>. QED  BY <1>1, <1>4, <1>5, <1>6, <1>7

(* list_add_tail of a context that is in no list, if nothing came between. *)
LEMMA AppendQueue ==
    ASSUME Pointed, NEW s \in Seq(Ctxs), Represents(s), NEW c \in Ctxs, ~Linked(c),
           prv' = [prv EXCEPT ![OutQueue] = c, ![c] = prv[OutQueue]],
           nxt' = [[nxt EXCEPT ![c] = OutQueue] EXCEPT ![prv[OutQueue]] = c]
    PROVE  /\ Represents(Append(s, c))'
           /\ \A d \in Ctxs : d # c /\ Linked(d)' => Linked(d)
<1>. DEFINE n == Len(s)
            x == prv[OutQueue]
            t == Append(s, c)
<1>1. /\ n \in Nat /\ \A k \in 1..n : s[k] \in Ctxs /\ s[k] # c /\ s[k] # OutQueue
      /\ c # OutQueue /\ x = Node(s, n)
  BY ListFacts, MessagingAssumption
<1>2. t \in Seq(Ctxs) /\ Len(t) = n + 1 /\ t[n + 1] = c /\ \A k \in 1..n : t[k] = s[k]
  BY AppendProperties
<1>. HIDE DEF t
<1>3. /\ \A i \in 0..n : Node(t, i) = Node(s, i)
      /\ Node(t, n + 1) = c /\ Node(t, n + 2) = OutQueue
  BY <1>1, <1>2 DEF Node
<1>4. \A i \in 0..n : Node(s, i) # c /\ Node(s, i) \in Nodes
  BY <1>1 DEF Node, Nodes
<1>5. x # c /\ x \in Nodes /\ c \in Nodes /\ OutQueue \in Nodes
  BY <1>1, <1>4 DEF Nodes
<1>6. /\ nxt'[x] = c /\ nxt'[c] = OutQueue
      /\ \A y \in Nodes : y # x /\ y # c => nxt'[y] = nxt[y]
      /\ prv'[OutQueue] = c /\ prv'[c] = x
      /\ \A y \in Nodes : y # OutQueue /\ y # c => prv'[y] = prv[y]
  BY <1>1, <1>5 DEF Pointed
<1>. HIDE DEF x, n
<1>7. \A i, j \in 1..Len(t) : t[i] = t[j] => i = j
  BY <1>1, <1>2 DEF Represents, n
<1>8. ASSUME NEW i \in 0..Len(t)
      PROVE  nxt'[Node(t, i)] = Node(t, i + 1) /\ prv'[Node(t, i + 1)] = Node(t, i)
  <2>1. CASE i < n
    <3>1. i \in 0..n /\ i + 1 \in 1..n /\ n \in 1..n
      BY <1>1, <2>1
    <3>2. Node(s, i) # x
      <4>1. CASE i = 0
        BY <1>1, <3>1, <4>1 DEF Node, n
      <4>2. CASE i # 0
        <5>1. i \in 1..(Len(s) + 1) /\ n \in 1..(Len(s) + 1) /\ i # n
          BY <1>1, <2>1, <4>2 DEF n
        <5>. QED  BY <1>1, <5>1, Distinct
      <4>. QED  BY <4>1, <4>2
    <3>3. nxt'[Node(s, i)] = Node(s, i + 1)
      BY <1>4, <1>6, <3>1, <3>2 DEF Represents, n
    <3>4. prv'[Node(s, i + 1)] = Node(s, i)
      <4>1. Node(s, i + 1) \in Ctxs /\ Node(s, i + 1) # c
        BY <1>1, <3>1 DEF Node, n
      <4>2. prv[Node(s, i + 1)] = Node(s, i)
        BY <3>1 DEF Represents, n
      <4>. QED  BY <1>6, <4>1, <4>2, MessagingAssumption DEF Nodes
    <3>. QED  BY <1>3, <3>1, <3>3, <3>4
  <2>2. CASE i = n
    BY <1>1, <1>3, <1>6, <2>2
  <2>3. CASE i = n + 1
    <3>1. i + 1 = n + 2
      BY <1>1, <2>3
    <3>. QED  BY <1>3, <1>6, <2>3, <3>1
  <2>. QED  BY <1>1, <1>2, <2>1, <2>2, <2>3
<1>9. ASSUME NEW d \in Ctxs, \A i \in 1..Len(t) : t[i] # d
      PROVE  nxt'[d] \in {d, Poison}
  <2>1. d # c /\ \A i \in 1..n : s[i] # d
    BY <1>1, <1>2, <1>9
  <2>2. d # x
    BY <1>1, <2>1, MessagingAssumption DEF Node, n
  <2>. QED  BY <1>6, <2>1, <2>2 DEF Represents, Nodes, n
<1>10. Represents(t)'
  BY <1>7, <1>8, <1>9 DEF Represents, Node
<1>11. ASSUME NEW d \in Ctxs, d # c, Linked(d)'
       PROVE  Linked(d)
  <2>1. PICK i \in 1..Len(t) : t[i] = d
    BY <1>9, <1>11 DEF Linked
  <2>2. i \in 1..n /\ s[i] = d
    BY <1>1, <1>2, <1>11, <2>1
  <2>. QED  BY <2>2, ListFacts DEF n
<1>. QED  BY <1>10, <1>11 DEF t

(* list_del of the first context.                                          *)
LEMMA TailQueue ==
    ASSUME Pointed, NEW s \in Seq(Ctxs), Represents(s), NEW c \in Ctxs, c = nxt[OutQueue],
           list_del(c)
    PROVE  /\ Tail(s) \in Seq(Ctxs) /\ Represents(Tail(s))'
           /\ UNCHANGED oops /\ nxt[c] # Poison /\ nxt'[OutQueue] = nxt[c]
           /\ ~Linked(c)' /\ \A d \in Ctxs : Linked(d)' => Linked(d)
<1>. DEFINE n == Len(s)
            t == Tail(s)
            y == Node(s, 2)
<1>1. n \in Nat /\ \A k \in 1..n : s[k] \in Ctxs /\ s[k] # OutQueue /\ s[k] # Poison
  BY MessagingAssumption
<1>2. s # << >> /\ n >= 1 /\ c = s[1] /\ c # OutQueue
  <2>1. s # << >> /\ c # OutQueue
    BY ListFacts, MessagingAssumption
  <2>2. n >= 1
    BY <2>1, EmptySeq
  <2>. QED  BY <1>1, <2>1, <2>2, ListFacts DEF Node
<1>3. t \in Seq(Ctxs) /\ Len(t) = n - 1 /\ \A i \in 1..(n - 1) : t[i] = s[i + 1]
  BY <1>1, <1>2, HeadTailProperties
<1>. HIDE DEF t
<1>4. /\ Node(s, 0) = OutQueue /\ Node(s, 1) = c /\ Node(s, n + 1) = OutQueue
      /\ Node(t, 0) = OutQueue /\ \A i \in 1..n : Node(t, i) = Node(s, i + 1)
  BY <1>1, <1>2, <1>3 DEF Node
<1>5. prv[c] = OutQueue /\ nxt[c] = y
  BY <1>1, <1>2, <1>4 DEF Represents
<1>6. y \in Nodes /\ y # c /\ y # Poison
  <2>1. y # c
    BY <1>1, <1>2, <1>4, Distinct
  <2>2. y \in Nodes /\ y # Poison
    BY <1>1, MessagingAssumption DEF Node, Nodes
  <2>. QED  BY <2>1, <2>2
<1>. HIDE DEF n, y
<1>7. /\ nxt' = [[nxt EXCEPT ![OutQueue] = y] EXCEPT ![c] = Poison]
      /\ prv' = [[prv EXCEPT ![y] = OutQueue] EXCEPT ![c] = Poison]
      /\ UNCHANGED oops
  BY <1>5, <1>6, MessagingAssumption DEF list_del
<1>8. /\ nxt'[OutQueue] = y /\ nxt'[c] = Poison /\ prv'[y] = OutQueue
      /\ \A z \in Nodes : z # OutQueue /\ z # c => nxt'[z] = nxt[z]
      /\ \A z \in Nodes : z # y /\ z # c => prv'[z] = prv[z]
  BY <1>2, <1>6, <1>7 DEF Pointed, Nodes
<1>9. \A i, j \in 1..Len(t) : t[i] = t[j] => i = j
  BY <1>1, <1>3 DEF Represents, n
<1>10. ASSUME NEW i \in 0..Len(t)
       PROVE  nxt'[Node(t, i)] = Node(t, i + 1) /\ prv'[Node(t, i + 1)] = Node(t, i)
  <2>1. CASE i = 0
    <3>1. Node(t, 1) = y
      BY <1>1, <1>2, <1>4 DEF y
    <3>. QED  BY <1>4, <1>8, <2>1, <3>1
  <2>2. CASE i # 0
    <3>1. i \in 1..(n - 1) /\ i \in 1..n /\ i + 1 \in 1..n /\ i + 1 \in 0..n /\ (i + 1) + 1 = i + 2
      BY <1>1, <1>3, <2>2
    <3>2. Node(t, i) = Node(s, i + 1) /\ Node(t, i + 1) = Node(s, i + 2)
      <4>1. Node(t, i + 1) = Node(s, (i + 1) + 1)
        BY <1>4, <3>1
      <4>. QED  BY <1>4, <3>1, <4>1
    <3>3. nxt[Node(s, i + 1)] = Node(s, i + 2) /\ prv[Node(s, i + 2)] = Node(s, i + 1)
      BY <3>1 DEF Represents, n
    <3>4. Node(s, i + 1) \in Ctxs /\ Node(s, i + 1) # OutQueue
      BY <1>1, <3>1 DEF Node, n
    <3>5. /\ 1 \in 1..(n + 1) /\ 2 \in 1..(n + 1) /\ i + 1 \in 1..(n + 1) /\ i + 2 \in 1..(n + 1)
          /\ i + 1 # 1 /\ i + 2 # 2 /\ i + 2 # 1
      BY <1>1, <3>1
    <3>6. Node(s, i + 1) # c /\ Node(s, i + 2) # c /\ Node(s, i + 2) # y
      BY <1>4, <3>5, Distinct DEF n, y
    <3>7. Node(s, i + 2) \in Nodes
      BY <1>1 DEF Node, Nodes, n
    <3>. QED  BY <1>8, <3>2, <3>3, <3>4, <3>6, <3>7 DEF Nodes
  <2>. QED  BY <2>1, <2>2
<1>11. ASSUME NEW d \in Ctxs, \A i \in 1..Len(t) : t[i] # d
       PROVE  nxt'[d] \in {d, Poison}
  <2>1. CASE d = c
    BY <1>8, <2>1
  <2>2. CASE d # c
    <3>1. \A i \in 1..n : s[i] # d
      <4>. SUFFICES ASSUME NEW i \in 1..n, i # 1 PROVE s[i] # d
        BY <1>2, <2>2
      <4>1. i - 1 \in 1..(n - 1) /\ (i - 1) + 1 = i
        BY <1>1
      <4>. QED  BY <1>3, <1>11, <4>1
    <3>2. d # OutQueue /\ d \in Nodes
      BY MessagingAssumption DEF Nodes
    <3>. QED  BY <1>8, <2>2, <3>1, <3>2 DEF Represents, n
  <2>. QED  BY <2>1, <2>2
<1>12. Represents(t)'
  BY <1>9, <1>10, <1>11 DEF Represents, Node
<1>13. ~Linked(c)' /\ \A d \in Ctxs : Linked(d)' => Linked(d)
  <2>1. \A d \in Ctxs \ {c} : nxt'[d] = nxt[d]
    BY <1>8, MessagingAssumption DEF Nodes
  <2>. QED  BY <1>8, <2>1 DEF Linked
<1>. QED  BY <1>3, <1>5, <1>6, <1>7, <1>8, <1>12, <1>13 DEF t

(* A step that leaves the queue alone, and starts no adding, keeps it.     *)
LEMMA QueueAlone ==
    ASSUME QueueInv, UNCHANGED <<nxt, prv, daemon, cur, oops>>, Intact' => Intact,
           Senders', \A u \in Tasks : pc'[u] = "adding" => pc[u] = "adding" /\ held'[u] = held[u]
    PROVE  QueueInv'
<1>1. Listed'
  BY Zenon DEF QueueInv, Listed, Represents, Node
<1>2. Emptied'
  BY Zenon DEF QueueInv, Emptied
<1>3. Unlinked'
  BY Zenon DEF QueueInv, Unlinked, Linked
<1>4. NoOops'
  BY Zenon DEF QueueInv, NoOops
<1>. QED  BY <1>1, <1>2, <1>3, <1>4, Zenon DEF QueueInv

(* No task is called None, so without a sender nobody sends.               *)
LEMMA NobodySends ==
    ASSUME QueueInv, sender = None
    PROVE  \A u \in Tasks : ~Sending(u)
<1>. QED  BY MessagingAssumption DEF QueueInv, Senders

(* A send, up to the moment it reads the last element.                     *)
LEMMA SendKeepsQueue ==
    ASSUME IInv, QueueInv, NEW t \in Tasks, NEW c \in Ctxs, send_message(t, c)
    PROVE  QueueInv'
<1>1. /\ sender = None /\ sender' = t /\ daemon = "open" /\ pc' = [pc EXCEPT ![t] = "acquired"]
      /\ held' = [held EXCEPT ![t] = c]
      /\ UNCHANGED <<nxt, prv, daemon, cur, raced, requeued, oops>> /\ pc[t] = "idle"
  BY Zenon DEF send_message, queue, history
<1>2. Intact' => Intact
  BY <1>1, Zenon DEF Intact
<1>3. \A u \in Tasks : ~Sending(u)
  BY <1>1, NobodySends
<1>4. Senders'
  <2>. SUFFICES ASSUME NEW u \in Tasks, Sending(u)' PROVE sender' = u /\ daemon' = "open"
    BY DEF Senders
  <2>1. CASE u = t
    BY <1>1, <2>1
  <2>2. CASE u # t
    BY <1>1, <1>3, <2>2 DEF Sending, IInv, Typed
  <2>. QED  BY <2>1, <2>2
<1>5. \A u \in Tasks : pc'[u] = "adding" => pc[u] = "adding" /\ held'[u] = held[u]
  BY <1>1 DEF IInv, Typed
<1>. QED  BY <1>1, <1>2, <1>4, <1>5, QueueAlone

LEMMA FailsKeepsQueue ==
    ASSUME IInv, QueueInv, NEW t \in Tasks, send_miscdev_fails(t)
    PROVE  QueueInv'
<1>1. /\ pc[t] = "acquired" /\ pc' = [pc EXCEPT ![t] = "idle"] /\ held' = [held EXCEPT ![t] = None]
      /\ UNCHANGED <<nxt, prv, daemon, cur, raced, requeued, oops>>
  BY Zenon DEF send_miscdev_fails, queue
<1>2. Intact' => Intact
  BY <1>1, Zenon DEF Intact
<1>3. Senders'
  <2>. SUFFICES ASSUME NEW u \in Tasks, Sending(u)' PROVE FALSE
    BY DEF Senders
  <2>1. u # t /\ Sending(u)
    BY <1>1 DEF Sending, IInv, Typed
  <2>2. Sending(t)
    BY <1>1 DEF Sending
  <2>. QED  BY <2>1, <2>2 DEF QueueInv, Senders
<1>4. \A u \in Tasks : pc'[u] = "adding" => pc[u] = "adding" /\ held'[u] = held[u]
  BY <1>1 DEF IInv, Typed
<1>. QED  BY <1>1, <1>2, <1>3, <1>4, QueueAlone

LEMMA AddingKeepsQueue ==
    ASSUME IInv, QueueInv, NEW t \in Tasks, send_miscdev(t)
    PROVE  QueueInv'
<1>1. /\ pc[t] = "acquired" /\ pc' = [pc EXCEPT ![t] = "adding"]
      /\ requeued' = (requeued \/ Linked(held[t]))
      /\ UNCHANGED <<nxt, prv, daemon, cur, sender, held, raced, oops>>
  BY Zenon DEF send_miscdev, queue
<1>2. (Intact' => Intact /\ ~Linked(held[t])) /\ \A c : Linked(c)' <=> Linked(c)
  BY <1>1, Zenon DEF Intact, Linked
<1>3. Senders'
  <2>1. \A u \in Tasks : Sending(u)' => Sending(u)
    BY <1>1 DEF Sending, IInv, Typed
  <2>. QED  BY <1>1, <2>1 DEF QueueInv, Senders
<1>4. Unlinked'
  <2>. SUFFICES ASSUME Intact', NEW u \in Tasks, pc'[u] = "adding" PROVE ~Linked(held[u])
    BY <1>1, <1>2 DEF Unlinked
  <2>1. CASE u = t
    BY <1>2, <2>1
  <2>2. CASE u # t
    <3>1. pc[u] = "adding"
      BY <1>1, <2>2 DEF IInv, Typed
    <3>. QED  BY <1>2, <3>1, Zenon DEF QueueInv, Unlinked
  <2>. QED  BY <2>1, <2>2
<1>5. Listed'
  BY <1>1, <1>2, Zenon DEF QueueInv, Listed, Represents, Node
<1>6. Emptied' /\ NoOops'
  BY <1>1, <1>2, Zenon DEF QueueInv, Emptied, NoOops
<1>. QED  BY <1>3, <1>4, <1>5, <1>6 DEF QueueInv

(* The context goes behind the last, unless that one was removed since.    *)
LEMMA AddedKeepsQueue ==
    ASSUME IInv, QueueInv, NEW t \in Tasks, send_miscdev_added(t)
    PROVE  /\ QueueInv'
           /\ Intact' => \A d \in Ctxs : d # held[t] /\ Linked(d)' => Linked(d)
<1>0. held[t] \in Ctxs
  BY DEF IInv, Typed, Holding, send_miscdev_added
<1>. PICK c \in Ctxs : c = held[t]
  BY <1>0
<1>1. /\ pc[t] = "adding" /\ pc' = [pc EXCEPT ![t] = "waiting"]
      /\ prv' = [prv EXCEPT ![OutQueue] = c, ![c] = tail[t]]
      /\ nxt' = [[nxt EXCEPT ![c] = OutQueue] EXCEPT ![tail[t]] = c]
      /\ raced' = (raced \/ tail[t] # prv[OutQueue])
      /\ UNCHANGED <<daemon, cur, held, requeued, oops>>
  BY DEF send_miscdev_added
<1>3. daemon = "open" /\ \A u \in Tasks \ {t} : pc[u] # "adding" /\ ~Sending(u)
  <2>1. Sending(t) /\ \A u \in Tasks : pc[u] = "adding" => Sending(u)
    BY <1>1 DEF Sending
  <2>. QED  BY <2>1 DEF QueueInv, Senders
<1>4. \A u \in Tasks : ~Sending(u)'
  BY <1>1, <1>3 DEF Sending, IInv, Typed
<1>5. Senders' /\ Unlinked'
  BY <1>4 DEF Senders, Unlinked, Sending
<1>6. ASSUME Intact'
      PROVE  Intact /\ tail[t] = prv[OutQueue]
  BY <1>1, <1>6, Zenon DEF Intact
<1>7. ASSUME Intact'
      PROVE  /\ \E s \in Seq(Ctxs) : Represents(s)'
             /\ \A d \in Ctxs : d # c /\ Linked(d)' => Linked(d)
  <2>1. PICK s \in Seq(Ctxs) : Represents(s)
    BY <1>6, <1>7, Zenon DEF QueueInv, Listed
  <2>2. ~Linked(c)
    BY <1>1, <1>6, <1>7, Zenon DEF QueueInv, Unlinked
  <2>3. Represents(Append(s, c))' /\ \A d \in Ctxs : d # c /\ Linked(d)' => Linked(d)
    <3>1. /\ prv' = [prv EXCEPT ![OutQueue] = c, ![c] = prv[OutQueue]]
          /\ nxt' = [[nxt EXCEPT ![c] = OutQueue] EXCEPT ![prv[OutQueue]] = c]
      BY <1>1, <1>6, <1>7
    <3>. QED  BY <2>1, <2>2, <3>1, AppendQueue DEF IInv
  <2>4. Append(s, c) \in Seq(Ctxs)
    BY AppendProperties
  <2>. QED  BY <2>3, <2>4
<1>8. Emptied'
  BY <1>1, <1>3 DEF Emptied
<1>9. NoOops'
  BY <1>1, <1>6, Zenon DEF QueueInv, NoOops
<1>10. Listed'
  BY <1>7, Zenon DEF Listed
<1>. QED  BY <1>5, <1>7, <1>8, <1>9, <1>10 DEF QueueInv

LEMMA WaitKeepsQueue ==
    ASSUME IInv, QueueInv, NEW t \in Tasks, wait_for_response(t) \/ wait_timeout(t)
    PROVE  QueueInv'
<1>1. /\ pc[t] = "waiting" /\ pc' = [pc EXCEPT ![t] = "idle"] /\ held' = [held EXCEPT ![t] = None]
      /\ UNCHANGED <<nxt, prv, daemon, cur, sender, raced, requeued, oops>>
  BY Zenon DEF wait_for_response, wait_timeout, return, queue, history
<1>2. Intact' => Intact
  BY <1>1, Zenon DEF Intact
<1>3. Senders'
  <2>1. \A u \in Tasks : Sending(u)' => Sending(u)
    BY <1>1 DEF Sending, IInv, Typed
  <2>. QED  BY <1>1, <2>1 DEF QueueInv, Senders
<1>4. \A u \in Tasks : pc'[u] = "adding" => pc[u] = "adding" /\ held'[u] = held[u]
  BY <1>1 DEF IInv, Typed
<1>. QED  BY <1>1, <1>2, <1>3, <1>4, QueueAlone

(* The first context is linked.                                            *)
LEMMA FirstListed ==
    ASSUME NEW s \in Seq(Ctxs), Represents(s), nxt[OutQueue] \in Ctxs
    PROVE  Linked(nxt[OutQueue])
<1>1. s # << >> /\ 1 \in 1..Len(s)
  <2>1. s # << >>
    BY ListFacts, MessagingAssumption
  <2>. QED  BY <2>1, EmptySeq
<1>2. nxt[OutQueue] = s[1]
  BY <1>1, ListFacts DEF Node
<1>. QED  BY <1>1, <1>2, ListFacts

LEMMA EmptyQueue ==
    ASSUME NEW s \in Seq(Ctxs), Represents(s), nxt[OutQueue] = OutQueue, Pointed,
           spawn_daemon
    PROVE  Represents(s)'
<1>1. s = << >> /\ Len(s) = 0
  BY ListFacts, EmptySeq
<1>2. nxt' = [nxt EXCEPT ![OutQueue] = OutQueue] /\ prv' = [prv EXCEPT ![OutQueue] = OutQueue]
  BY DEF spawn_daemon
<1>3. nxt'[OutQueue] = OutQueue /\ prv'[OutQueue] = OutQueue /\ \A c \in Ctxs : nxt'[c] = nxt[c]
  BY <1>2, MessagingAssumption DEF Pointed, Nodes
<1>4. \A i : Node(s, i) = OutQueue
  BY <1>1 DEF Node
<1>5. \A i \in 1..Len(s) : FALSE
  BY <1>1
<1>6. \A c \in Ctxs : nxt'[c] \in {c, Poison}
  BY <1>3, <1>5, Zenon DEF Represents
<1>. QED  BY <1>3, <1>4, <1>5, <1>6 DEF Represents, Node

LEMMA OpenKeepsQueue ==
    ASSUME IInv, QueueInv, miscdev_open
    PROVE  QueueInv'
<1>1. /\ daemon = "none" /\ daemon' = "open" /\ sender = None /\ spawn_daemon
      /\ UNCHANGED <<cur, sender, pc, held, raced, requeued, oops>>
  BY DEF miscdev_open, tasks, history
<1>2. Intact' => Intact
  BY <1>1, Zenon DEF Intact
<1>3. \A u \in Tasks : ~Sending(u)'
  BY <1>1, NobodySends DEF Sending
<1>4. Senders' /\ Unlinked'
  BY <1>3 DEF Senders, Unlinked, Sending
<1>5. Listed'
  <2>. SUFFICES ASSUME Intact PROVE \E s \in Seq(Ctxs) : Represents(s)'
    BY <1>2 DEF Listed
  <2>1. PICK s \in Seq(Ctxs) : Represents(s)
    BY Zenon DEF QueueInv, Listed
  <2>2. nxt[OutQueue] = OutQueue
    BY <1>1, Zenon DEF QueueInv, Emptied
  <2>. QED  BY <1>1, <2>1, <2>2, EmptyQueue DEF IInv
<1>6. Emptied'
  BY <1>1 DEF Emptied
<1>7. NoOops'
  BY <1>1, <1>2, Zenon DEF QueueInv, NoOops
<1>. QED  BY <1>4, <1>5, <1>6, <1>7 DEF QueueInv

LEMMA WriteKeepsQueue ==
    ASSUME IInv, QueueInv, NEW p \in packets, miscdev_write(p)
    PROVE  QueueInv'
<1>1. UNCHANGED <<nxt, prv, daemon, cur, sender, pc, held, raced, requeued, oops>>
  BY Zenon DEF miscdev_write, queue, tasks, history
<1>2. Intact' => Intact
  BY <1>1, Zenon DEF Intact
<1>3. Senders'
  BY <1>1 DEF QueueInv, Senders, Sending
<1>. QED  BY <1>1, <1>2, <1>3, QueueAlone

(* What is read is the first context, whose neighbours are the queue's.    *)
LEMMA ReadKeepsQueue ==
    ASSUME IInv, QueueInv, miscdev_read
    PROVE  /\ QueueInv'
           /\ Intact' => \A d \in Ctxs : (d = nxt[OutQueue] => ~Linked(d)') /\ (Linked(d)' => Linked(d))
<1>0. nxt[OutQueue] \in Ctxs
  BY MessagingAssumption DEF IInv, Pointed, Nodes, Pointers, miscdev_read
<1>. PICK c \in Ctxs : c = nxt[OutQueue]
  BY <1>0
<1>1. /\ daemon = "open" /\ c # OutQueue /\ list_del(c)
      /\ UNCHANGED <<daemon, cur, sender, pc, held, tail, raced, requeued>>
  BY DEF miscdev_read, tasks, history
<1>3. Intact' <=> Intact
  BY <1>1, Zenon DEF Intact
<1>4. Senders'
  BY <1>1 DEF QueueInv, Senders, Sending
<1>5. ASSUME Intact
      PROVE  /\ \E s \in Seq(Ctxs) : Represents(s)'
             /\ UNCHANGED oops /\ ~Linked(c)' /\ \A d \in Ctxs : Linked(d)' => Linked(d)
  <2>1. PICK s \in Seq(Ctxs) : Represents(s)
    BY <1>5, Zenon DEF QueueInv, Listed
  <2>2. /\ Tail(s) \in Seq(Ctxs) /\ Represents(Tail(s))'
        /\ UNCHANGED oops /\ ~Linked(c)' /\ \A d \in Ctxs : Linked(d)' => Linked(d)
    BY <1>1, <2>1, TailQueue DEF IInv
  <2>. QED  BY <2>2
<1>6. Listed'
  BY <1>3, <1>5, Zenon DEF Listed
<1>7. Emptied'
  BY <1>1 DEF Emptied
<1>8. Unlinked'
  <2>. SUFFICES ASSUME Intact, NEW u \in Tasks, pc[u] = "adding" PROVE ~Linked(held[u])'
    BY <1>1, <1>3, Zenon DEF Unlinked
  <2>1. held[u] \in Ctxs
    BY DEF IInv, Typed, Holding
  <2>2. ~Linked(held[u])
    BY Zenon DEF QueueInv, Unlinked
  <2>3. \A d \in Ctxs : Linked(d)' => Linked(d)
    BY <1>5
  <2>4. Linked(held[u])' => Linked(held[u])
    BY <1>1, <2>1, <2>3 DEF Linked
  <2>. QED  BY <2>2, <2>4
<1>9. NoOops'
  BY <1>3, <1>5, Zenon DEF QueueInv, NoOops
<1>10. Intact' => \A d \in Ctxs : (d = nxt[OutQueue] => ~Linked(d)') /\ (Linked(d)' => Linked(d))
  BY <1>3, <1>5
<1>. QED  BY <1>4, <1>6, <1>7, <1>8, <1>9, <1>10 DEF QueueInv

LEMMA ReleaseKeepsQueue ==
    ASSUME IInv, QueueInv, miscdev_release \/ exorcise_daemon
    PROVE  QueueInv'
<1>1. /\ \/ daemon = "open" /\ sender = None /\ daemon' = "closing" /\ cur' = nxt[OutQueue]
         \/ daemon = "closing" /\ cur = OutQueue /\ daemon' = "none" /\ cur' = cur
      /\ UNCHANGED <<nxt, prv, sender, pc, held, raced, requeued, oops>>
  BY Zenon DEF miscdev_release, exorcise_daemon, queue, tasks, history
<1>2. Intact' => Intact
  BY <1>1, Zenon DEF Intact
<1>3. \A u \in Tasks : ~Sending(u)
  <2>1. CASE sender = None
    BY <2>1, NobodySends
  <2>2. CASE daemon = "closing"
    BY <2>2 DEF QueueInv, Senders
  <2>. QED  BY <1>1, <2>1, <2>2
<1>4. Senders' /\ Unlinked'
  BY <1>1, <1>3 DEF Senders, Unlinked, Sending
<1>5. Listed'
  BY <1>1, <1>2, Zenon DEF QueueInv, Listed, Represents, Node
<1>6. Emptied'
  <2>1. CASE daemon' = "closing"
    BY <1>1, <2>1 DEF Emptied
  <2>2. CASE daemon' = "none"
    <3>1. Intact => cur = nxt[OutQueue]
      BY <1>1, <2>2, Zenon DEF QueueInv, Emptied
    <3>. QED  BY <1>1, <1>2, <2>2, <3>1 DEF Emptied
  <2>. QED  BY <1>1, <2>1, <2>2
<1>7. NoOops'
  BY <1>1, <1>2, Zenon DEF QueueInv, NoOops
<1>. QED  BY <1>4, <1>5, <1>6, <1>7 DEF QueueInv

(* The walk takes the first context, and goes on with the next.            *)
LEMMA ExorciseKeepsQueue ==
    ASSUME IInv, QueueInv, exorcise_item
    PROVE  /\ QueueInv'
           /\ Intact' => \A d \in Ctxs : Linked(d)' => Linked(d)
<1>1. /\ daemon = "closing" /\ cur \in Ctxs
      /\ UNCHANGED <<daemon, sender, pc, held, tail, raced, requeued>>
  BY DEF exorcise_item, tasks
<1>2. \/ nxt[cur] = Poison /\ UNCHANGED queue /\ UNCHANGED cur
      \/ nxt[cur] # Poison /\ cur' = nxt[cur] /\ list_del(cur)
  BY DEF exorcise_item
<1>3. Intact' <=> Intact
  BY <1>1, Zenon DEF Intact
<1>4. \A u \in Tasks : ~Sending(u)
  BY <1>1 DEF QueueInv, Senders
<1>5. Senders' /\ Unlinked'
  BY <1>1, <1>4 DEF Senders, Unlinked, Sending
<1>6. ASSUME Intact
      PROVE  /\ \E s \in Seq(Ctxs) : Represents(s)'
             /\ UNCHANGED oops /\ cur' = nxt'[OutQueue]
             /\ \A d \in Ctxs : Linked(d)' => Linked(d)
  <2>1. PICK s \in Seq(Ctxs) : Represents(s)
    BY <1>6, Zenon DEF QueueInv, Listed
  <2>2. cur = nxt[OutQueue]
    BY <1>1, <1>6, Zenon DEF QueueInv, Emptied
  <2>3. nxt[cur] # Poison
    <3>1. Linked(cur)
      BY <1>1, <2>1, <2>2, FirstListed
    <3>. QED  BY <3>1 DEF Linked
  <2>4. list_del(cur) /\ cur' = nxt[cur]
    BY <1>2, <2>3
  <2>5. /\ Tail(s) \in Seq(Ctxs) /\ Represents(Tail(s))'
        /\ UNCHANGED oops /\ nxt'[OutQueue] = nxt[cur] /\ \A d \in Ctxs : Linked(d)' => Linked(d)
    BY <1>1, <2>1, <2>2, <2>4, TailQueue DEF IInv
  <2>. QED  BY <2>4, <2>5
<1>7. Listed'
  BY <1>3, <1>6, Zenon DEF Listed
<1>8. Emptied'
  BY <1>1, <1>3, <1>6 DEF Emptied
<1>9. NoOops'
  BY <1>3, <1>6, Zenon DEF QueueInv, NoOops
<1>. QED  BY <1>3, <1>5, <1>6, <1>7, <1>8, <1>9 DEF QueueInv

-----------------------------------------------------------------------------
(* Answers, while the queue is intact and no daemon died with a request    *)
(* that is waited for.                                                     *)

(* A step that changes what contexts hold, but gives no task a message.    *)
LEMMA AnswersKept ==
    ASSUME AnswerInv, Calm' => Calm, UNCHANGED got,
           Calm /\ Calm' => Unread' /\ ReadOnce' /\ AnswerKept'
    PROVE  AnswerInv'
<1>1. OwnResponse'
  BY Zenon DEF AnswerInv, OwnResponse, Calm
<1>. QED  BY <1>1, Zenon DEF AnswerInv

(* The number is new, so no packet has it.                                 *)
LEMMA SendKeepsAnswers ==
    ASSUME IInv, QueueInv, AnswerInv, NEW t \in Tasks, NEW c \in Ctxs, send_message(t, c)
    PROVE  AnswerInv'
<1>1. Fields(c, "PENDING", counter + 1, ctx[c].msg) /\ ctx[c].state = "FREE" /\ counter' = counter + 1
  <2>1. acquire_free_msg_ctx(c)
    BY DEF send_message
  <2>. QED  BY <2>1, Taken DEF IInv, acquire_free_msg_ctx
<1>2. /\ sender = None /\ pc' = [pc EXCEPT ![t] = "acquired"] /\ held' = [held EXCEPT ![t] = c]
      /\ UNCHANGED <<nxt, prv, packets, got, raced, requeued, dropped>>
  BY Zenon DEF send_message, queue, history
<1>3. Calm' => Calm
  BY <1>2, Zenon DEF Calm, Intact
<1>. SUFFICES ASSUME Calm PROVE Unread' /\ ReadOnce' /\ AnswerKept'
  BY <1>2, <1>3, AnswersKept
<1>4. ReadOnce /\ AnswerKept /\ ~dropped
  BY Zenon DEF AnswerInv, Calm
<1>5. \A d : Linked(d)' <=> Linked(d)
  BY <1>2 DEF Linked
<1>6. \A p \in packets : p.seq \in Nat /\ p.index \in Ctxs /\ p.seq <= counter /\ counter \in Nat
  BY <1>4 DEF ReadOnce, IInv, Typed
<1>7. Unread'
  <2>. SUFFICES ASSUME NEW u \in Tasks, Sending(u)'
                PROVE  /\ ctx'[held'[u]].state = "PENDING"
                       /\ pc'[u] = "acquired" => ctx'[held'[u]].msg = NoMsg
                       /\ \A p \in packets : p.index = held'[u] => p.seq # ctx'[held'[u]].counter
    BY <1>2 DEF Unread
  <2>1. u = t
    <3>1. u # t => Sending(u)
      BY <1>2 DEF Sending, IInv, Typed
    <3>. QED  BY <1>2, <3>1, NobodySends
  <2>2. held'[u] = c
    BY <1>2, <2>1 DEF IInv, Typed
  <2>3. ctx[c].msg = NoMsg
    BY <1>1, <1>4 DEF IInv, Numbered
  <2>. QED  BY <1>1, <1>6, <2>2, <2>3 DEF Fields
<1>8. ReadOnce'
  <2>1. \A d \in Ctxs : ctx'[d].counter <= counter'
    BY <1>1, <1>4 DEF Fields, ReadOnce, IInv, Typed, Context
  <2>2. ASSUME NEW p \in packets
        PROVE  p.seq <= counter' /\ (ctx'[p.index].counter = p.seq => ~Linked(p.index))
    <3>1. p.seq <= counter' /\ p.seq # counter + 1
      BY <1>1, <1>6
    <3>2. CASE p.index = c
      BY <1>1, <3>1, <3>2 DEF Fields
    <3>3. CASE p.index # c
      BY <1>1, <1>4, <1>6, <3>1, <3>3 DEF Fields, ReadOnce
    <3>. QED  BY <3>2, <3>3
  <2>. QED  BY <1>2, <1>5, <2>1, <2>2 DEF ReadOnce
<1>9. AnswerKept'
  BY <1>1, <1>4, <1>5 DEF Fields, AnswerKept
<1>. QED  BY <1>7, <1>8, <1>9

LEMMA FailsKeepsAnswers ==
    ASSUME IInv, QueueInv, AnswerInv, NEW t \in Tasks, send_miscdev_fails(t)
    PROVE  AnswerInv'
<1>1. /\ pc' = [pc EXCEPT ![t] = "idle"] /\ held' = [held EXCEPT ![t] = None]
      /\ UNCHANGED <<ctx, counter, nxt, prv, packets, got, raced, requeued, dropped>>
  BY Zenon DEF send_miscdev_fails, queue
<1>2. Calm' => Calm
  BY <1>1, Zenon DEF Calm, Intact
<1>. SUFFICES ASSUME Calm PROVE Unread' /\ ReadOnce' /\ AnswerKept'
  BY <1>1, <1>2, AnswersKept
<1>3. Unread /\ ReadOnce /\ AnswerKept
  BY Zenon DEF AnswerInv
<1>4. ReadOnce' /\ AnswerKept'
  BY <1>1, <1>3, Zenon DEF ReadOnce, AnswerKept, Linked
<1>5. \A u \in Tasks : Sending(u)' => Sending(u) /\ pc'[u] = pc[u] /\ held'[u] = held[u]
  BY <1>1 DEF Sending, IInv, Typed
<1>6. Unread'
  BY <1>1, <1>3, <1>5 DEF Unread
<1>. QED  BY <1>4, <1>6

LEMMA AddingKeepsAnswers ==
    ASSUME IInv, QueueInv, AnswerInv, NEW t \in Tasks, send_miscdev(t)
    PROVE  AnswerInv'
<1>. PICK c \in Ctxs : c = held[t]
  BY DEF IInv, Typed, Holding, send_miscdev
<1>1. /\ pc[t] = "acquired" /\ pc' = [pc EXCEPT ![t] = "adding"]
      /\ ctx' = [ctx EXCEPT ![c].msg = [kind |-> "request", of |-> seq[t]]]
      /\ requeued' = (requeued \/ Linked(c))
      /\ UNCHANGED <<counter, nxt, prv, packets, held, got, raced, dropped>>
  BY Zenon DEF send_miscdev, queue
<1>2. Fields(c, ctx[c].state, ctx[c].counter, [kind |-> "request", of |-> seq[t]])
  <2>1. [kind |-> "request", of |-> seq[t]] \in Msg
    BY DEF IInv, Typed, Msg
  <2>. QED  BY <1>1, <2>1, Written DEF IInv
<1>3. Calm' => Calm
  BY <1>1, Zenon DEF Calm, Intact
<1>. SUFFICES ASSUME Calm PROVE Unread' /\ ReadOnce' /\ AnswerKept'
  BY <1>1, <1>3, AnswersKept
<1>4. Unread /\ ReadOnce /\ AnswerKept
  BY Zenon DEF AnswerInv
<1>5. \A d : Linked(d)' <=> Linked(d)
  BY <1>1 DEF Linked
<1>6. Sending(t) /\ \A u \in Tasks \ {t} : ~Sending(u)
  BY <1>1 DEF Sending, QueueInv, Senders
<1>7. ctx[c].state = "PENDING" /\ \A p \in packets : p.index = c => p.seq # ctx[c].counter
  BY <1>4, <1>6 DEF Unread
<1>8. \A d \in Ctxs : ctx'[d].counter = ctx[d].counter /\ ctx'[d].state = ctx[d].state
  BY <1>2 DEF Fields
<1>9. Unread'
  <2>. SUFFICES ASSUME NEW u \in Tasks, Sending(u)'
                PROVE  /\ ctx'[held[u]].state = "PENDING"
                       /\ pc'[u] = "acquired" => ctx'[held[u]].msg = NoMsg
                       /\ \A p \in packets : p.index = held[u] => p.seq # ctx'[held[u]].counter
    BY <1>1 DEF Unread
  <2>1. u = t
    BY <1>1, <1>6 DEF Sending, IInv, Typed
  <2>2. pc'[u] = "adding"
    BY <1>1, <2>1 DEF IInv, Typed
  <2>. QED  BY <1>7, <1>8, <2>1, <2>2
<1>10. ReadOnce'
  <2>1. \A p \in packets : p.index \in Ctxs
    BY DEF IInv, Typed
  <2>. QED  BY <1>1, <1>4, <1>5, <1>8, <2>1, Zenon DEF ReadOnce
<1>11. AnswerKept'
  BY <1>2, <1>4, <1>5, <1>7 DEF Fields, AnswerKept
<1>. QED  BY <1>9, <1>10, <1>11

LEMMA AddedKeepsAnswers ==
    ASSUME IInv, QueueInv, AnswerInv, NEW t \in Tasks, send_miscdev_added(t)
    PROVE  AnswerInv'
<1>1. /\ pc[t] = "adding" /\ pc' = [pc EXCEPT ![t] = "waiting"]
      /\ raced' = (raced \/ tail[t] # prv[OutQueue])
      /\ UNCHANGED <<ctx, counter, packets, held, got, requeued, dropped>>
  BY DEF send_miscdev_added
<1>2. Calm' => Calm /\ Intact'
  BY <1>1, Zenon DEF Calm, Intact
<1>. SUFFICES ASSUME Calm, Calm' PROVE Unread' /\ ReadOnce' /\ AnswerKept'
  BY <1>1, <1>2, AnswersKept
<1>3. Unread /\ ReadOnce /\ AnswerKept
  BY Zenon DEF AnswerInv
<1>4. \A d \in Ctxs : d # held[t] /\ Linked(d)' => Linked(d)
  BY <1>2, AddedKeepsQueue
<1>5. Sending(t) /\ \A u \in Tasks \ {t} : ~Sending(u)
  BY <1>1 DEF Sending, QueueInv, Senders
<1>6. ctx[held[t]].state = "PENDING" /\ \A p \in packets : p.index = held[t] => p.seq # ctx[held[t]].counter
  BY <1>3, <1>5 DEF Unread
<1>7. \A u \in Tasks : ~Sending(u)'
  BY <1>1, <1>5 DEF Sending, IInv, Typed
<1>8. Unread'
  BY <1>7 DEF Unread, Sending
<1>9. ReadOnce'
  <2>1. \A p \in packets : p.index \in Ctxs
    BY DEF IInv, Typed
  <2>2. \A p \in packets : ctx[p.index].counter = p.seq => ~Linked(p.index)'
    BY <1>3, <1>4, <1>6, <2>1 DEF ReadOnce
  <2>. QED  BY <1>1, <1>3, <2>2 DEF ReadOnce, Linked
<1>10. AnswerKept'
  <2>1. \A d \in Ctxs : ctx[d].state = "DONE" => ctx[d].msg # NoMsg /\ ~Linked(d)'
    BY <1>3, <1>4, <1>6 DEF AnswerKept
  <2>. QED  BY <1>1, <2>1 DEF AnswerKept, Linked
<1>. QED  BY <1>8, <1>9, <1>10

(* A context that is DONE has its answer, with the number of the request.  *)
LEMMA WaitKeepsAnswers ==
    ASSUME IInv, QueueInv, AnswerInv, NEW t \in Tasks, wait_for_response(t) \/ wait_timeout(t)
    PROVE  AnswerInv'
<1>. PICK c \in Ctxs : c = held[t]
  BY DEF IInv, Typed, Holding, wait_for_response, wait_timeout
<1>1. /\ pc[t] = "waiting" /\ pc' = [pc EXCEPT ![t] = "idle"] /\ held' = [held EXCEPT ![t] = None]
      /\ alloc_to_free(c)
      /\ UNCHANGED <<counter, nxt, prv, packets, raced, requeued, dropped>>
  BY Zenon DEF wait_for_response, wait_timeout, return, queue, history
<1>2. Fields(c, "FREE", ctx[c].counter, NoMsg)
  BY <1>1, Freed DEF IInv
<1>3. Calm' => Calm
  BY <1>1, Zenon DEF Calm, Intact
<1>4. ASSUME Calm
      PROVE  Unread' /\ ReadOnce' /\ AnswerKept' /\ \A u \in Tasks : got'[u].asked = got'[u].of
  <2>1. Unread /\ ReadOnce /\ AnswerKept /\ ~dropped /\ \A u \in Tasks : got[u].asked = got[u].of
    BY <1>4, Zenon DEF AnswerInv, OwnResponse, Calm
  <2>2. \A d : Linked(d)' <=> Linked(d)
    BY <1>1 DEF Linked
  <2>3. \A u \in Tasks \ {t} : held'[u] = held[u] /\ held[u] # c /\ pc'[u] = pc[u]
    BY <1>1, <2>1, MessagingAssumption DEF IInv, Typed, ContextsAccounted
  <2>4. Unread'
    <3>. SUFFICES ASSUME NEW u \in Tasks, Sending(u)'
                  PROVE  /\ ctx'[held'[u]].state = "PENDING"
                         /\ pc'[u] = "acquired" => ctx'[held'[u]].msg = NoMsg
                         /\ \A p \in packets : p.index = held'[u] => p.seq # ctx'[held'[u]].counter
      BY <1>1 DEF Unread
    <3>1. u # t
      BY <1>1 DEF Sending, IInv, Typed
    <3>2. Sending(u) /\ held[u] \in Ctxs
      BY <2>3, <3>1 DEF Sending, IInv, Typed, Holding
    <3>3. ctx'[held[u]] = ctx[held[u]]
      BY <1>2, <2>3, <3>1, <3>2 DEF Fields
    <3>. QED  BY <2>1, <2>3, <3>1, <3>2, <3>3 DEF Unread
  <2>5. \A d \in Ctxs : ctx'[d].counter = ctx[d].counter
    BY <1>2 DEF Fields
  <2>6. ReadOnce'
    <3>1. \A p \in packets : p.index \in Ctxs
      BY DEF IInv, Typed
    <3>. QED  BY <1>1, <2>1, <2>2, <2>5, <3>1, Zenon DEF ReadOnce
  <2>7. AnswerKept'
    BY <1>2, <2>1, <2>2 DEF Fields, AnswerKept
  <2>8. \A u \in Tasks : got'[u].asked = got'[u].of
    <3>1. CASE got' = got
      BY <2>1, <3>1
    <3>2. CASE wait_for_response(t)
      <4>1. ctx[c].state = "DONE" /\ got' = [got EXCEPT ![t] = [asked |-> seq[t], of |-> ctx[c].msg.of]]
        BY <3>2 DEF wait_for_response
      <4>2. ctx[c].msg.of = seq[t]
        BY <2>1, <4>1, MessagingAssumption DEF AnswerKept, IInv, Numbered, HeldOwn
      <4>. QED  BY <2>1, <4>1, <4>2 DEF IInv, Typed
    <3>. QED  BY <3>1, <3>2 DEF wait_timeout
  <2>. QED  BY <2>4, <2>6, <2>7, <2>8
<1>5. OwnResponse'
  BY <1>3, <1>4, Zenon DEF OwnResponse, Calm
<1>. QED  BY <1>3, <1>4, <1>5, Zenon DEF AnswerInv

LEMMA OpenKeepsAnswers ==
    ASSUME IInv, QueueInv, AnswerInv, miscdev_open
    PROVE  AnswerInv'
<1>1. /\ sender = None /\ spawn_daemon
      /\ UNCHANGED <<ctx, counter, packets, pc, held, got, raced, requeued, dropped>>
  BY DEF miscdev_open, tasks, history
<1>2. Calm' => Calm
  BY <1>1, Zenon DEF Calm, Intact
<1>. SUFFICES ASSUME Calm PROVE Unread' /\ ReadOnce' /\ AnswerKept'
  BY <1>1, <1>2, AnswersKept
<1>3. ReadOnce /\ AnswerKept
  BY Zenon DEF AnswerInv
<1>4. \A c \in Ctxs : Linked(c)' <=> Linked(c)
  BY <1>1, MessagingAssumption DEF spawn_daemon, Linked, IInv, Pointed, Nodes
<1>5. Unread'
  <2>1. \A u \in Tasks : ~Sending(u)'
    BY <1>1, NobodySends DEF Sending
  <2>. QED  BY <2>1 DEF Unread, Sending
<1>6. ReadOnce'
  <2>1. \A p \in packets : p.index \in Ctxs
    BY DEF IInv, Typed
  <2>. QED  BY <1>1, <1>3, <1>4, <2>1, Zenon DEF ReadOnce
<1>7. AnswerKept'
  BY <1>1, <1>3, <1>4, Zenon DEF AnswerKept
<1>. QED  BY <1>5, <1>6, <1>7

(* What is read is linked, so it is neither answered nor being sent with   *)
(* a message.                                                              *)
LEMMA ReadKeepsAnswers ==
    ASSUME IInv, QueueInv, AnswerInv, miscdev_read
    PROVE  AnswerInv'
<1>. PICK c \in Ctxs : c = nxt[OutQueue]
  BY MessagingAssumption DEF IInv, Pointed, Nodes, Pointers, miscdev_read
<1>1. /\ ctx' = [ctx EXCEPT ![c].msg = NoMsg]
      /\ packets' = IF ctx[c].msg = NoMsg THEN packets ELSE packets \cup {Packet(c)}
      /\ UNCHANGED <<counter, pc, held, got, raced, requeued, dropped>>
  BY DEF miscdev_read, tasks, history
<1>2. Fields(c, ctx[c].state, ctx[c].counter, NoMsg)
  <2>1. NoMsg \in Msg
    BY DEF NoMsg, Msg
  <2>. QED  BY <1>1, <2>1, Written DEF IInv
<1>3. Calm' => Calm /\ Intact'
  BY <1>1, Zenon DEF Calm, Intact
<1>. SUFFICES ASSUME Calm, Calm' PROVE Unread' /\ ReadOnce' /\ AnswerKept'
  BY <1>1, <1>3, AnswersKept
<1>4. Unread /\ ReadOnce /\ AnswerKept /\ Intact
  BY Zenon DEF AnswerInv, Calm
<1>5. ~Linked(c)' /\ \A d \in Ctxs : Linked(d)' => Linked(d)
  BY <1>3, ReadKeepsQueue
<1>6. Linked(c)
  <2>1. PICK s \in Seq(Ctxs) : Represents(s)
    BY <1>4, Zenon DEF QueueInv, Listed
  <2>. QED  BY <2>1, FirstListed
<1>7. Packet(c).index = c /\ Packet(c).seq = ctx[c].counter
  BY DEF Packet
<1>8. \A d \in Ctxs : ctx'[d].counter = ctx[d].counter /\ ctx'[d].state = ctx[d].state
  BY <1>2 DEF Fields
<1>9. Unread'
  <2>. SUFFICES ASSUME NEW u \in Tasks, Sending(u)
                PROVE  /\ ctx'[held[u]].state = "PENDING"
                       /\ pc[u] = "acquired" => ctx'[held[u]].msg = NoMsg
                       /\ \A p \in packets' : p.index = held[u] => p.seq # ctx'[held[u]].counter
    BY <1>1 DEF Unread, Sending
  <2>1. held[u] \in Ctxs
    BY DEF Sending, IInv, Typed, Holding
  <2>2. /\ ctx[held[u]].state = "PENDING" /\ (pc[u] = "acquired" => ctx[held[u]].msg = NoMsg)
        /\ \A p \in packets : p.index = held[u] => p.seq # ctx[held[u]].counter
    BY <1>4 DEF Unread
  <2>3. held[u] # c \/ ctx[c].msg = NoMsg
    <3>1. pc[u] = "adding" => ~Linked(held[u])
      BY <1>4, Zenon DEF QueueInv, Unlinked
    <3>. QED  BY <1>6, <2>2, <3>1 DEF Sending
  <2>4. pc[u] = "acquired" => ctx'[held[u]].msg = NoMsg
    BY <1>2, <2>1, <2>2 DEF Fields
  <2>. QED  BY <1>1, <1>7, <1>8, <2>1, <2>2, <2>3, <2>4
<1>10. ReadOnce'
  <2>1. ASSUME NEW p \in packets'
        PROVE  p.seq <= counter /\ (ctx'[p.index].counter = p.seq => ~Linked(p.index)')
    <3>1. CASE p = Packet(c)
      BY <1>4, <1>5, <1>7, <3>1 DEF ReadOnce
    <3>2. CASE p \in packets
      <4>1. p.index \in Ctxs
        BY <3>2 DEF IInv, Typed
      <4>. QED  BY <1>4, <1>5, <1>8, <3>2, <4>1 DEF ReadOnce
    <3>. QED  BY <1>1, <2>1, <3>1, <3>2
  <2>2. \A d \in Ctxs : ctx'[d].counter <= counter
    BY <1>4, <1>8 DEF ReadOnce
  <2>. QED  BY <1>1, <2>1, <2>2 DEF ReadOnce, Linked
<1>11. AnswerKept'
  <2>1. \A d \in Ctxs : ctx'[d].state = "DONE" => ctx'[d].msg # NoMsg /\ ~Linked(d)'
    BY <1>2, <1>4, <1>5, <1>6 DEF Fields, AnswerKept
  <2>. QED  BY <2>1 DEF AnswerKept, Linked
<1>. QED  BY <1>9, <1>10, <1>11

(* What is answered was read, so it is in no list and not being sent.      *)
LEMMA WriteKeepsAnswers ==
    ASSUME IInv, QueueInv, AnswerInv, NEW p \in packets, miscdev_write(p)
    PROVE  AnswerInv'
<1>1. p.index \in Ctxs /\ p.of \in Nat /\ process_response(p)
  BY DEF IInv, Typed, miscdev_write
<1>2. Fields(p.index, "DONE", ctx[p.index].counter, [kind |-> "response", of |-> p.of])
  BY <1>1, Answered DEF IInv
<1>3. ctx[p.index].counter = p.seq
  BY <1>1 DEF process_response, Expected
<1>4. UNCHANGED <<counter, nxt, prv, packets, pc, held, got, raced, requeued, dropped>>
  BY Zenon DEF miscdev_write, queue, tasks, history
<1>5. Calm' => Calm
  BY <1>4, Zenon DEF Calm, Intact
<1>. SUFFICES ASSUME Calm PROVE Unread' /\ ReadOnce' /\ AnswerKept'
  BY <1>4, <1>5, AnswersKept
<1>6. Unread /\ ReadOnce /\ AnswerKept
  BY Zenon DEF AnswerInv
<1>7. \A d : Linked(d)' <=> Linked(d)
  BY <1>4 DEF Linked
<1>8. Unread'
  <2>1. \A u \in Tasks : Sending(u) => held[u] # p.index /\ held[u] \in Ctxs
    BY <1>3, <1>6 DEF Unread, Sending, IInv, Typed, Holding
  <2>2. \A u \in Tasks : Sending(u) => ctx'[held[u]] = ctx[held[u]]
    BY <1>2, <2>1 DEF Fields
  <2>. QED  BY <1>4, <1>6, <2>2 DEF Unread, Sending
<1>9. \A d \in Ctxs : ctx'[d].counter = ctx[d].counter
  BY <1>2 DEF Fields
<1>10. ReadOnce'
  <2>1. \A q \in packets : q.index \in Ctxs
    BY DEF IInv, Typed
  <2>. QED  BY <1>4, <1>6, <1>7, <1>9, <2>1, Zenon DEF ReadOnce
<1>11. AnswerKept'
  <2>1. ~Linked(p.index) /\ [kind |-> "response", of |-> p.of] # NoMsg
    BY <1>3, <1>6 DEF ReadOnce, NoMsg
  <2>. QED  BY <1>2, <1>6, <1>7, <2>1 DEF Fields, AnswerKept
<1>. QED  BY <1>8, <1>10, <1>11

LEMMA ReleaseKeepsAnswers ==
    ASSUME IInv, QueueInv, AnswerInv, miscdev_release \/ exorcise_daemon
    PROVE  AnswerInv'
<1>1. UNCHANGED <<ctx, counter, nxt, prv, packets, pc, held, got, raced, requeued, dropped>>
  BY Zenon DEF miscdev_release, exorcise_daemon, queue, tasks, history
<1>2. Calm' => Calm
  BY <1>1, Zenon DEF Calm, Intact
<1>3. Calm => Unread' /\ ReadOnce' /\ AnswerKept'
  BY <1>1, Zenon DEF AnswerInv, Unread, ReadOnce, AnswerKept, Linked, Sending
<1>. QED  BY <1>1, <1>2, <1>3, AnswersKept

LEMMA ExorciseKeepsAnswers ==
    ASSUME IInv, QueueInv, AnswerInv, exorcise_item
    PROVE  AnswerInv'
<1>1. /\ cur \in Ctxs /\ daemon = "closing"
      /\ UNCHANGED <<counter, packets, pc, held, got, raced, requeued>>
      /\ \/ UNCHANGED <<ctx, dropped>>
         \/ alloc_to_free(cur) /\ dropped' = (dropped \/ \E t \in Tasks : held[t] = cur)
  BY Zenon DEF exorcise_item, tasks
<1>2. Calm' => Calm /\ Intact'
  BY <1>1, Zenon DEF Calm, Intact
<1>. SUFFICES ASSUME Calm, Calm' PROVE Unread' /\ ReadOnce' /\ AnswerKept'
  BY <1>1, <1>2, AnswersKept
<1>3. ReadOnce /\ AnswerKept
  BY Zenon DEF AnswerInv
<1>4. \A d \in Ctxs : Linked(d)' => Linked(d)
  BY <1>2, ExorciseKeepsQueue
<1>5. /\ \A d \in Ctxs : ctx'[d].counter = ctx[d].counter
      /\ \A d \in Ctxs : ctx'[d].state = "DONE" => ctx'[d] = ctx[d]
  <2>1. CASE alloc_to_free(cur)
    <3>1. Fields(cur, "FREE", ctx[cur].counter, NoMsg)
      BY <1>1, <2>1, Freed DEF IInv
    <3>. QED  BY <3>1 DEF Fields
  <2>. QED  BY <1>1, <2>1
<1>6. Unread'
  <2>1. \A u \in Tasks : ~Sending(u)'
    BY <1>1 DEF QueueInv, Senders, Sending
  <2>. QED  BY <2>1 DEF Unread, Sending
<1>7. ReadOnce'
  <2>1. \A p \in packets : p.index \in Ctxs
    BY DEF IInv, Typed
  <2>2. \A p \in packets : ctx'[p.index].counter = p.seq => ~Linked(p.index)'
    BY <1>3, <1>4, <1>5, <2>1 DEF ReadOnce
  <2>. QED  BY <1>1, <1>3, <1>5, <2>2 DEF ReadOnce, Linked
<1>8. AnswerKept'
  <2>1. \A d \in Ctxs : ctx'[d].state = "DONE" => ctx'[d].msg # NoMsg /\ ~Linked(d)'
    BY <1>3, <1>4, <1>5 DEF AnswerKept
  <2>. QED  BY <2>1 DEF AnswerKept, Linked
<1>. QED  BY <1>6, <1>7, <1>8

-----------------------------------------------------------------------------
FullInv == IInv /\ QueueInv /\ AnswerInv

LEMMA FullInitHolds == Init => FullInv
<1>. SUFFICES ASSUME Init PROVE FullInv
  OBVIOUS
<1>1. Senders /\ Unlinked /\ NoOops
  BY DEF Init, Senders, Sending, Unlinked, NoOops
<1>2. nxt = [x \in Nodes |-> x] /\ prv = [x \in Nodes |-> x] /\ OutQueue \in Nodes /\ Ctxs \subseteq Nodes
  BY DEF Init, Nodes
<1>3. Represents(<< >>)
  <2>1. Len(<< >>) = 0
    BY EmptySeq
  <2>2. \A i : Node(<< >>, i) = OutQueue
    BY <2>1 DEF Node
  <2>. QED  BY <1>2, <2>1, <2>2 DEF Represents
<1>4. Listed
  <2>1. << >> \in Seq(Ctxs)
    BY EmptySeq
  <2>. QED  BY <1>3, <2>1, Zenon DEF Listed
<1>5. Emptied
  BY <1>2 DEF Init, Emptied
<1>6. Unread /\ ReadOnce /\ AnswerKept /\ OwnResponse
  BY DEF Init, Unread, Sending, ReadOnce, AnswerKept, OwnResponse, FreeCtx
<1>. QED  BY <1>1, <1>4, <1>5, <1>6, InitHolds DEF FullInv, QueueInv, AnswerInv

LEMMA FullStepKeeps == FullInv /\ [Next]_vars => FullInv'
<1>. SUFFICES ASSUME FullInv, [Next]_vars PROVE FullInv'
  OBVIOUS
<1>1. IInv /\ QueueInv /\ AnswerInv
  BY DEF FullInv
<1>2. IInv'
  BY <1>1, StepKeeps
<1>3. ASSUME NEW t \in Tasks, Send(t) PROVE QueueInv' /\ AnswerInv'
  <2>1. CASE \E c \in Ctxs : send_message(t, c)
    BY <1>1, <2>1, SendKeepsQueue, SendKeepsAnswers
  <2>2. CASE send_miscdev_fails(t)
    BY <1>1, <2>2, FailsKeepsQueue, FailsKeepsAnswers
  <2>3. CASE send_miscdev(t)
    BY <1>1, <2>3, AddingKeepsQueue, AddingKeepsAnswers
  <2>4. CASE send_miscdev_added(t)
    BY <1>1, <2>4, AddedKeepsQueue, AddedKeepsAnswers
  <2>. QED  BY <1>3, <2>1, <2>2, <2>3, <2>4, Zenon DEF Send
<1>4. ASSUME NEW t \in Tasks, wait_for_response(t) \/ wait_timeout(t)
      PROVE  QueueInv' /\ AnswerInv'
  BY <1>1, <1>4, WaitKeepsQueue, WaitKeepsAnswers
<1>5. ASSUME Daemon PROVE QueueInv' /\ AnswerInv'
  <2>1. CASE miscdev_open
    BY <1>1, <2>1, OpenKeepsQueue, OpenKeepsAnswers
  <2>2. CASE miscdev_read
    BY <1>1, <2>2, ReadKeepsQueue, ReadKeepsAnswers
  <2>3. CASE \E p \in packets : miscdev_write(p)
    BY <1>1, <2>3, WriteKeepsQueue, WriteKeepsAnswers
  <2>4. CASE miscdev_release \/ exorcise_daemon
    BY <1>1, <2>4, ReleaseKeepsQueue, ReleaseKeepsAnswers
  <2>5. CASE exorcise_item
    BY <1>1, <2>5, ExorciseKeepsQueue, ExorciseKeepsAnswers
  <2>. QED  BY <1>5, <2>1, <2>2, <2>3, <2>4, <2>5, Zenon DEF Daemon
<1>6. ASSUME UNCHANGED vars PROVE QueueInv' /\ AnswerInv'
  <2>1. UNCHANGED <<ctx, counter, nxt, prv, daemon, cur, packets, sender, pc, held, got,
                    dropped, requeued, raced, oops>>
    BY <1>6, Zenon DEF vars
  <2>2. (Intact' => Intact) /\ (Calm' => Calm)
    BY <2>1, Zenon DEF Intact, Calm
  <2>3. Senders'
    BY <1>1, <2>1 DEF QueueInv, Senders, Sending
  <2>4. QueueInv'
    BY <1>1, <2>1, <2>2, <2>3, QueueAlone
  <2>5. Calm => Unread' /\ ReadOnce' /\ AnswerKept'
    BY <1>1, <2>1, Zenon DEF AnswerInv, Unread, ReadOnce, AnswerKept, Linked, Sending
  <2>. QED  BY <1>1, <2>1, <2>2, <2>4, <2>5, AnswersKept
<1>7. QueueInv' /\ AnswerInv'
  BY <1>3, <1>4, <1>5, <1>6, Zenon DEF Next
<1>. QED  BY <1>2, <1>7, Zenon DEF FullInv

(* Until a sender races a removal or queues a context twice, the out queue *)
(* is a list, a context in it was neither read nor answered, and one that  *)
(* is answered keeps its answer.                                           *)
THEOREM FullInvAlways == Spec => []FullInv
<1>. QED  BY FullInitHolds, FullStepKeeps, PTL DEF Spec

(* Neither a read nor the end of a daemon follows a pointer that list_del  *)
(* poisoned, unless a sender raced a removal or queued a context twice.    *)
THEOREM NeverPoisoned == Spec => []NoOops
<1>1. FullInv => NoOops
  BY Zenon DEF FullInv, QueueInv
<1>. QED  BY <1>1, FullInvAlways, PTL

(* A task that is given a message is given the answer to its own request,  *)
(* until a race breaks the queue or a daemon dies with what is waited for. *)
THEOREM AlwaysOwnResponse == Spec => []OwnResponse
<1>1. FullInv => OwnResponse
  BY Zenon DEF FullInv, AnswerInv
<1>. QED  BY <1>1, FullInvAlways, PTL
=============================================================================
