----------------------------- MODULE KoclHelper -----------------------------
(***************************************************************************)
(* The userspace helper kocl/helper.c with the command queues of           *)
(* kocl/gpuops.c: one thread whose main loop moves service requests        *)
(* through the lists init, memdone, prepared, running, post_exec and done, *)
(* and reads a new request whenever the driver has one.                    *)
(*                                                                         *)
(* One step is one operation on one item, or the turn from one pass of the *)
(* loop to the next.  A pass visits the items its list holds when it       *)
(* begins; a pass made with once = 1 ends after the first success.         *)
(*                                                                         *)
(* An OpenCL kernel object is shared by all requests of a service on a     *)
(* platform: prepare stores the arguments in it, launch runs it.           *)
(***************************************************************************)
EXTENDS Integers, Sequences, FiniteSets

CONSTANTS
    Ids,        \* ids of requests
    Services,   \* services that libraries have registered
    NoService,  \* the name of a service nobody registered
    Channels,   \* values of the channel field
    MaxQueueNr, \* MAX_QUEUE_NR: command queues per device
    None

ASSUME MaxQueueNrAssumption == MaxQueueNr \in Nat \ {0}
ASSUME NamesAssumption == NoService \notin Services /\ None \notin Ids

VARIABLES
    waiting,    \* the driver's reqs: what poll and read see
    lists,      \* the lists of requests of different states
    all_reqs,   \* the requests read and not yet answered
    item,       \* per request: the fields of its kocl_service_request
    Queueuses,  \* per device: which of its command queues are taken
    args,       \* per kernel object: the request whose arguments it holds
    computed,   \* requests in whose output buffer the GPU put a result
    pass,       \* the pass the main loop is in
    left        \* the items this pass has still to visit

vars == <<waiting, lists, all_reqs, item, Queueuses, args, computed, pass, left>>

Stages == {"init", "memdone", "prepared", "running", "post_exec", "done"}

(* The main loop: its passes in order, and the list each of them visits.   *)
Following == [done |-> "finish", finish |-> "post", post |-> "launch",
              launch |-> "prepare", prepare |-> "alloc", alloc |-> "next",
              next |-> "done"]
Visited == [done |-> "done", finish |-> "post_exec", post |-> "running",
            launch |-> "prepared", prepare |-> "memdone", alloc |-> "init"]

DeviceOf(channel) == IF channel \in {2, 3} THEN channel ELSE 1

(* Channels 2 and 3 share platform 2, and its context and kernel objects.  *)
PlatformOf(channel) == IF channel \in {2, 3} THEN 2 ELSE 1
Kernels == Services \X {1, 2}
KernelOf(r) == <<item[r].s, PlatformOf(item[r].channel)>>

Blank == [s |-> NoService, channel |-> 0, queue_id |-> -1, errcode |-> "OK"]

(* Every queue is created, and free.                                       *)
gpu_init == Queueuses = [d \in 1 .. 3 |-> {}]

Init ==
    /\ waiting = << >>
    /\ lists = [l \in Stages |-> << >>]
    /\ all_reqs = {}
    /\ item = [r \in Ids |-> Blank]
    /\ gpu_init
    /\ args = [k \in Kernels |-> None]
    /\ computed = {}
    /\ pass = "done" /\ left = << >>

-----------------------------------------------------------------------------
InSeq(s) == {s[i] : i \in DOMAIN s}
Pending(r) == r \in InSeq(waiting) \/ r \in all_reqs

(* A kernel caller offloads a request (the driver's side: KoclDev).        *)
offload(r, s, ch) ==
    /\ ~Pending(r)
    /\ waiting' = Append(waiting, r)
    /\ item' = [item EXCEPT ![r] = [Blank EXCEPT !.s = s, !.channel = ch]]
    /\ computed' = computed \ {r}
    /\ UNCHANGED <<lists, all_reqs, Queueuses, args, pass, left>>

-----------------------------------------------------------------------------
(* The passes.                                                             *)

Begin(p, ls) == pass' = p /\ left' = IF p = "next" THEN << >> ELSE ls[Visited[p]]

turn ==
    /\ pass # "next" /\ left = << >>
    /\ Begin(Following[pass], lists)
    /\ UNCHANGED <<waiting, lists, all_reqs, item, Queueuses, args, computed>>

(* __kh_process_request comes to its next item, r.                         *)
Visit(p, r) == pass = p /\ left # << >> /\ r = Head(left)
Continue == left' = Tail(left) /\ UNCHANGED pass
(* Mutant: the once flag is ignored.                                       *)
StopNever == left' = Tail(left) /\ UNCHANGED pass

Stop == left' = << >> /\ UNCHANGED pass

(* list_del of r, which s holds.                                           *)
Without(s, r) ==
    LET k == CHOOSE x \in DOMAIN s : s[x] = r
    IN  SubSeq(s, 1, k - 1) \o SubSeq(s, k + 1, Len(s))
Move(r, from, to) ==
    lists' = [lists EXCEPT ![from] = Without(@, r), ![to] = Append(@, r)]

(* kh_fail_request.                                                        *)
Fail(r, from, it) ==
    /\ Move(r, from, "done")
    /\ item' = [it EXCEPT ![r].errcode = "error"]

(* Mutant: the queue is given back to the first device always.             *)
kh_service_done_device1(r) ==
    /\ Visit("done", r) /\ Continue
    /\ lists' = [lists EXCEPT !["done"] = Without(@, r)]
    /\ all_reqs' = all_reqs \ {r}
    /\ Queueuses' = [Queueuses EXCEPT ![1] = @ \ {item[r].queue_id}]
    /\ item' = [item EXCEPT ![r] = Blank]
    /\ UNCHANGED <<waiting, args, computed>>

gpu_free_cmdQueue(r) ==
    Queueuses' = [Queueuses EXCEPT ![DeviceOf(item[r].channel)] = @ \ {item[r].queue_id}]

(* kh_service_done: write the response, give the queue back, forget r.     *)
kh_service_done(r) ==
    /\ Visit("done", r) /\ Continue
    /\ lists' = [lists EXCEPT !["done"] = Without(@, r)]
    /\ all_reqs' = all_reqs \ {r}
    /\ gpu_free_cmdQueue(r)
    /\ item' = [item EXCEPT ![r] = Blank]
    /\ UNCHANGED <<waiting, args, computed>>

(* kh_finish_post: wait for the queue (clFinish) and the request is done.  *)
kh_finish_post(r) ==
    /\ Visit("finish", r) /\ Continue
    /\ Move(r, "post_exec", "done")
    /\ UNCHANGED <<waiting, all_reqs, item, Queueuses, args, computed>>

(* kh_post_exec, once: wait for the queue, then the service's post.        *)
kh_post_exec(r) ==
    /\ Visit("post", r)
    /\ \/ Move(r, "running", "post_exec") /\ Stop /\ UNCHANGED item
       \/ Fail(r, "running", item) /\ Continue
    /\ UNCHANGED <<waiting, all_reqs, Queueuses, args, computed>>

(* kh_launch_exec, once: the kernel runs with the arguments it holds now.  *)
(* It returns 0 when the service's launch fails, too.                      *)
kh_launch_exec(r) ==
    /\ Visit("launch", r) /\ Stop
    /\ \/ /\ Move(r, "prepared", "running")
          /\ computed' = computed \cup {args[KernelOf(r)]}
          /\ UNCHANGED item
       \/ Fail(r, "prepared", item) /\ UNCHANGED computed
    /\ UNCHANGED <<waiting, all_reqs, Queueuses, args>>

FreeQueues(ch) == (0 .. (MaxQueueNr - 1)) \ Queueuses[DeviceOf(ch)]

(* kh_prepare_exec, once: take the first free command queue of the         *)
(* device, or leave r for a later pass; then the service's prepare sets    *)
(* the arguments of its kernel object, or fails.                           *)
kh_prepare_exec(r) ==
    LET free == FreeQueues(item[r].channel)
    IN  /\ Visit("prepare", r)
        /\ \/ /\ free = {}
              /\ Continue
              /\ UNCHANGED <<lists, item, Queueuses, args>>
           \/ \E q \in free :
              LET it == [item EXCEPT ![r].queue_id = q]
              IN  /\ \A q2 \in free : q <= q2
                  /\ Queueuses' = [Queueuses EXCEPT
                                     ![DeviceOf(item[r].channel)] = @ \cup {q}]
                  /\ \/ /\ Move(r, "memdone", "prepared") /\ Stop
                        /\ item' = it
                        /\ args' = [args EXCEPT ![KernelOf(r)] = r]
                     \/ Fail(r, "memdone", it) /\ Continue /\ UNCHANGED args
        /\ UNCHANGED <<waiting, all_reqs, computed>>

(* kh_request_alloc_mem: the context of the channel; it cannot fail.       *)
kh_request_alloc_mem(r) ==
    /\ Visit("alloc", r) /\ Continue
    /\ Move(r, "init", "memdone")
    /\ UNCHANGED <<waiting, all_reqs, item, Queueuses, args, computed>>

-----------------------------------------------------------------------------
(* kh_get_next_service_request.                                            *)

(* A request is there: read it, look its service up, put it in a list.     *)
kh_init_service_request(r) ==
    LET known == item[r].s # NoService
    IN  /\ pass = "next"
        /\ waiting # << >> /\ r = Head(waiting)
        /\ waiting' = Tail(waiting)
        /\ all_reqs' = all_reqs \cup {r}
        /\ lists' = [lists EXCEPT ![IF known THEN "init" ELSE "done"] = Append(@, r)]
        /\ item' = [item EXCEPT ![r].errcode = IF known THEN "OK" ELSE "NO_SERVICE"]
        /\ Begin("done", lists')
        /\ UNCHANGED <<Queueuses, args, computed>>

(* Mutant: poll always waits for the next request (timeout -1).            *)
kh_get_nothing_waits ==
    /\ pass = "next"
    /\ waiting # << >>
    /\ Begin("done", lists)
    /\ UNCHANGED <<waiting, lists, all_reqs, item, Queueuses, args, computed>>

(* poll returns with nothing to read, which it only does while requests    *)
(* are in the lists; or malloc fails and the request stays with the        *)
(* driver.                                                                 *)
kh_get_nothing ==
    /\ pass = "next"
    /\ waiting = << >> => all_reqs # {}
    /\ Begin("done", lists)
    /\ UNCHANGED <<waiting, lists, all_reqs, item, Queueuses, args, computed>>

HelperStep ==
    \/ turn
    \/ \E r \in Ids :
          \/ kh_service_done(r) \/ kh_finish_post(r) \/ kh_post_exec(r)
          \/ kh_launch_exec(r) \/ kh_prepare_exec(r) \/ kh_request_alloc_mem(r)
          \/ kh_init_service_request(r)
    \/ kh_get_nothing

Offload == \E r \in Ids, s \in Services \cup {NoService}, ch \in Channels :
               offload(r, s, ch)

Next == HelperStep \/ Offload

Spec == Init /\ [][Next]_vars

(* The helper's thread runs, the GPU finishes what it is given, and malloc *)
(* does not fail forever.                                                  *)
FairSpec == /\ Spec
            /\ WF_vars(HelperStep)
            /\ SF_vars(\E r \in Ids : kh_init_service_request(r))

-----------------------------------------------------------------------------
(* Every request that was read and not answered is in exactly one list,    *)
(* once, so no operation is applied to it twice and its answer is written  *)
(* once; and a command queue is taken exactly while one request holds it:  *)
(* queues are neither shared nor lost, on no error path.                   *)
Places(r) == UNION {{l} \X {i \in DOMAIN lists[l] : lists[l][i] = r} : l \in Stages}
Holders(d, q) == {r \in all_reqs : DeviceOf(item[r].channel) = d /\ item[r].queue_id = q}
QueuesAccounted ==
    /\ \A r \in Ids : Cardinality(Places(r)) = IF r \in all_reqs THEN 1 ELSE 0
    /\ \A d \in 1 .. 3, q \in 0 .. (MaxQueueNr - 1) :
            Cardinality(Holders(d, q)) = IF q \in Queueuses[d] THEN 1 ELSE 0

(* A request answered with success has its result in its own buffer: no    *)
(* other request's prepare came between its prepare and its launch and     *)
(* overwrote the arguments in the kernel object they share.                *)
ResultOwn ==
    \A r \in InSeq(lists["done"]) : item[r].errcode = "OK" => r \in computed

(* Every offloaded request is answered, whatever else is in the pipeline:  *)
(* the poll never sleeps on work to be done, queues in short supply come   *)
(* free again and nobody is passed over for ever.                          *)
EveryRequestAnswered == \A r \in Ids : Pending(r) ~> ~Pending(r)
=============================================================================
