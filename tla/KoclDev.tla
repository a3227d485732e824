------------------------------ MODULE KoclDev ------------------------------
(***************************************************************************)
(* The request path of the kernel driver kocl/main.c: kernel callers that  *)
(* offload work with kocl_offload_sync or kocl_offload_async, the lists    *)
(* reqs and rtdreqs, and the userspace helper's kocl_read and kocl_write.  *)
(*                                                                         *)
(* A list item is nothing but a pointer to a request, so a list is a       *)
(* sequence of request objects.  Requests and the call data of synchronous *)
(* calls are slab objects: they keep their fields, the id included, when   *)
(* they are freed and allocated again, so an object is its own id.         *)
(*                                                                         *)
(* Every section under reqlock or rtdreqlock is one step; what happens     *)
(* between two sections, and between the two statements of a callback,     *)
(* are separate steps.  The helper has one thread, so its system calls     *)
(* follow one another; which of its requests it answers next is left open. *)
(***************************************************************************)
EXTENDS Naturals, Sequences, FiniteSets

CONSTANTS
    Callers,        \* kernel threads that offload requests
    Requests,       \* objects of kocl_request_cache
    Data,           \* objects of kocl_sync_call_data_cache
    Null,           \* a NULL pointer, or nothing
    MaxSignals,     \* bound: signals that reach a waiting caller
    MaxDeaths,      \* bound: deaths of the helper process
    FreedIntact     \* freed call data stay what they were while a wake-up runs

ASSUME NullAssumption ==
    Null \notin Requests /\ Null \notin Data /\ Null \notin Callers
ASSUME KindsAssumption == Data \cap Callers = {}
ASSUME BoundsAssumption == MaxSignals \in Nat /\ MaxDeaths \in Nat
ASSUME FreedAssumption == FreedIntact \in BOOLEAN

VARIABLES
    state,      \* kocldev.state
    reqs,       \* requests waiting to be read by the helper
    rtdreqs,    \* requests the helper has read
    callback,   \* per request: its callback field
    kdata,      \* per request: its kdata field
    freeReqs,   \* free objects of kocl_request_cache
    freeData,   \* free objects of kocl_sync_call_data_cache
    old,        \* per call data: the saved callback and kdata
    done,       \* per call data: its done flag
    pc,         \* per caller: where it is
    req,        \* per caller: its request
    data,       \* per caller: the call data of its synchronous call
    completed,  \* per caller: its completion, for asynchronous calls
    hpc,        \* where the helper is: in user space or in a system call
    hreq,       \* the request of the item the system call works on
    hdata,      \* the call data sync_callback works on
    todo,       \* per request: how often the helper still has to answer it
    signals, deaths,
    oops        \* "callback": one was NULL, or wrote to memory not its caller's;
                \* "wake": a wake-up used call data that were freed; or "no"

devVars == <<state, reqs, rtdreqs>>
slabVars == <<callback, kdata, freeReqs, freeData, old, done>>
callerVars == <<pc, req, data, completed>>
helperVars == <<hpc, hreq, hdata, todo>>
boundVars == <<signals, deaths, oops>>
vars == <<devVars, slabVars, callerVars, helperVars, boundVars>>

Init ==
    /\ state = "OK"
    /\ reqs = << >> /\ rtdreqs = << >>
    /\ callback = [r \in Requests |-> "NULL"]
    /\ kdata = [r \in Requests |-> Null]
    /\ freeReqs = Requests /\ freeData = Data
    /\ old = [d \in Data |-> [callback |-> "NULL", kdata |-> Null]]
    /\ done = [d \in Data |-> FALSE]
    /\ pc = [c \in Callers |-> "idle"]
    /\ req = [c \in Callers |-> Null]
    /\ data = [c \in Callers |-> Null]
    /\ completed = [c \in Callers |-> FALSE]
    /\ hpc = "user" /\ hreq = Null /\ hdata = Null
    /\ todo = [r \in Requests |-> 0]
    /\ signals = 0 /\ deaths = 0 /\ oops = "no"

-----------------------------------------------------------------------------
(* Callers.                                                                *)

kocl_alloc_request(c, r) ==
    /\ pc[c] = "idle"
    /\ r \in freeReqs
    /\ freeReqs' = freeReqs \ {r}
    /\ req' = [req EXCEPT ![c] = r]
    /\ pc' = [pc EXCEPT ![c] = "filled"]
    /\ UNCHANGED <<devVars, callback, kdata, freeData, old, done, data,
                   completed, helperVars, boundVars>>

kocl_free_request(c) ==
    /\ pc[c] = "returned"
    /\ freeReqs' = freeReqs \cup {req[c]}
    /\ req' = [req EXCEPT ![c] = Null]
    /\ pc' = [pc EXCEPT ![c] = "idle"]
    /\ UNCHANGED <<devVars, callback, kdata, freeData, old, done, data,
                   completed, helperVars, boundVars>>

(* A call refused: the driver is terminated, or call data or list item     *)
(* cannot be allocated.  When it is the item, the call data is not freed.  *)
kocl_offload_refused(c) ==
    /\ pc[c] = "filled"
    /\ \/ UNCHANGED freeData
       \/ state = "OK" /\ \E d \in freeData : freeData' = freeData \ {d}
    /\ pc' = [pc EXCEPT ![c] = "returned"]
    /\ UNCHANGED <<devVars, callback, kdata, freeReqs, old, done, req, data,
                   completed, helperVars, boundVars>>

(* kocl_offload_sync up to the lock: state is checked, call data and item  *)
(* are allocated, the request's callback and kdata are put aside.          *)
sync_prepare(c, d) ==
    LET r == req[c]
    IN  /\ pc[c] = "filled"
        /\ state = "OK"
        /\ d \in freeData
        /\ freeData' = freeData \ {d}
        /\ old' = [old EXCEPT ![d] = [callback |-> callback[r], kdata |-> kdata[r]]]
        /\ done' = [done EXCEPT ![d] = FALSE]
        /\ kdata' = [kdata EXCEPT ![r] = d]
        /\ callback' = [callback EXCEPT ![r] = "sync_callback"]
        /\ data' = [data EXCEPT ![c] = d]
        /\ pc' = [pc EXCEPT ![c] = "sync"]
        /\ UNCHANGED <<devVars, freeReqs, req, completed, helperVars, boundVars>>

(* kocl_offload_async up to the lock; the caller has filled in its own     *)
(* callback, and data with the completion it is going to wait for.         *)
async_prepare(c) ==
    LET r == req[c]
    IN  /\ pc[c] = "filled"
        /\ state = "OK"
        /\ callback' = [callback EXCEPT ![r] = "async_callback"]
        /\ kdata' = [kdata EXCEPT ![r] = c]
        /\ pc' = [pc EXCEPT ![c] = "async"]
        /\ UNCHANGED <<devVars, freeReqs, freeData, old, done, req, data,
                       completed, helperVars, boundVars>>

(* Mutant: list_add instead of list_add_tail.                              *)
enqueue_head(c) ==
    /\ pc[c] \in {"sync", "async"}
    /\ reqs' = <<req[c]>> \o reqs
    /\ pc' = [pc EXCEPT ![c] = IF pc[c] = "sync" THEN "wait" ELSE "completion"]
    /\ UNCHANGED <<state, rtdreqs, slabVars, req, data, completed, helperVars,
                   boundVars>>

(* Under reqlock: list_add_tail and wake-up of the helper.                 *)
enqueue(c) ==
    /\ pc[c] \in {"sync", "async"}
    /\ reqs' = Append(reqs, req[c])
    /\ pc' = [pc EXCEPT ![c] = IF pc[c] = "sync" THEN "wait" ELSE "completion"]
    /\ UNCHANGED <<state, rtdreqs, slabVars, req, data, completed, helperVars,
                   boundVars>>

(* kocl_offload_sync after wait_event_interruptible, whose result it does  *)
(* not look at.                                                            *)
sync_return(c) ==
    LET r == req[c]
        d == data[c]
    IN  /\ kdata' = [kdata EXCEPT ![r] = old[d].kdata]
        /\ callback' = [callback EXCEPT ![r] = old[d].callback]
        /\ freeData' = freeData \cup {d}
        /\ data' = [data EXCEPT ![c] = Null]
        /\ pc' = [pc EXCEPT ![c] = "returned"]
        /\ UNCHANGED <<devVars, freeReqs, old, done, req, completed, helperVars,
                       deaths, oops>>

(* Mutant: the caller takes any wake-up for its own and does not look at   *)
(* the flag again.                                                         *)
sync_woken_unchecked(c) ==
    /\ pc[c] = "wait"
    /\ sync_return(c)
    /\ UNCHANGED signals

sync_woken(c) ==
    /\ pc[c] = "wait" /\ done[data[c]]
    /\ sync_return(c)
    /\ UNCHANGED signals

sync_interrupted(c) ==
    /\ pc[c] = "wait" /\ ~done[data[c]]
    /\ signals < MaxSignals
    /\ signals' = signals + 1
    /\ sync_return(c)

(* The asynchronous caller's wait for its completion ends; the callback    *)
(* has the request, and frees it.                                          *)
async_completed(c) ==
    /\ pc[c] = "completion" /\ completed[c]
    /\ completed' = [completed EXCEPT ![c] = FALSE]
    /\ req' = [req EXCEPT ![c] = Null]
    /\ pc' = [pc EXCEPT ![c] = "idle"]
    /\ UNCHANGED <<devVars, slabVars, data, helperVars, boundVars>>

-----------------------------------------------------------------------------
(* The helper's system calls.                                              *)

(* The helper polls before it reads.                                       *)
kocl_poll == reqs # << >>

(* Under reqlock: take the first request and copy it to the helper.        *)
kocl_read(r) ==
    /\ hpc = "user"
    /\ kocl_poll /\ r = Head(reqs)
    /\ reqs' = Tail(reqs)
    /\ hpc' = "read" /\ hreq' = r
    /\ UNCHANGED <<state, rtdreqs, slabVars, callerVars, hdata, todo, boundVars>>

(* Mutant: INIT_LIST_HEAD of the list, not of the item.                    *)
kocl_read_end_resets ==
    /\ hpc = "read"
    /\ rtdreqs' = <<hreq>>
    /\ todo' = [todo EXCEPT ![hreq] = @ + 1]
    /\ hpc' = "user" /\ hreq' = Null
    /\ UNCHANGED <<state, reqs, slabVars, callerVars, hdata, boundVars>>

(* Under rtdreqlock: remember it as read; the helper has it now.           *)
kocl_read_end ==
    /\ hpc = "read"
    /\ rtdreqs' = Append(rtdreqs, hreq)
    /\ todo' = [todo EXCEPT ![hreq] = @ + 1]
    /\ hpc' = "user" /\ hreq' = Null
    /\ UNCHANGED <<state, reqs, slabVars, callerVars, hdata, boundVars>>

Matches(id) == {i \in DOMAIN rtdreqs : rtdreqs[i] = id}

(* Mutant: offlist = 0, the item stays in the list.                        *)
find_request_kept(id) == Matches(id) # {} /\ UNCHANGED rtdreqs

(* Take the first item with this id off rtdreqs, under rtdreqlock.         *)
find_request(id) ==
    \E i \in Matches(id) :
        /\ \A j \in Matches(id) : i <= j
        /\ rtdreqs' = SubSeq(rtdreqs, 1, i - 1) \o SubSeq(rtdreqs, i + 1, Len(rtdreqs))

(* The helper answers a request.  -EFAULT, for an id that is not in        *)
(* rtdreqs, makes the helper abort.                                        *)
kocl_write(id) ==
    /\ hpc = "user"
    /\ todo[id] > 0
    /\ todo' = [todo EXCEPT ![id] = @ - 1]
    /\ \/ find_request(id) /\ hpc' = "found" /\ hreq' = id
       \/ Matches(id) = {} /\ hpc' = "aborted" /\ UNCHANGED <<rtdreqs, hreq>>
    /\ UNCHANGED <<state, reqs, slabVars, callerVars, hdata, boundVars>>

(* sync_callback: the flag first, the wake-up after.                       *)
sync_callback(d) ==
    /\ hpc = "found" /\ callback[hreq] = "sync_callback" /\ d = kdata[hreq]
    /\ done' = [done EXCEPT ![d] = TRUE]
    /\ oops' = IF d \in freeData THEN "callback" ELSE "no"
    /\ hpc' = "wake" /\ hdata' = d
    /\ UNCHANGED <<devVars, callback, kdata, freeReqs, freeData, old,
                   callerVars, hreq, todo, signals, deaths>>

(* The caller whose flag was set is still in its wait.                     *)
Waits(d) == \E c \in Callers : pc[c] = "wait" /\ data[c] = d /\ done[d]

(* wake_up_interruptible, and kocl_write frees the item and returns.  The  *)
(* caller may have seen the flag and freed the call data already.  If they *)
(* are still a wait queue, in use again or not, the wake-up finds nobody   *)
(* or a caller who looks at its own flag; otherwise anything may happen.   *)
sync_callback_end ==
    /\ hpc = "wake"
    /\ \/ oops' = "no"
       \/ ~FreedIntact /\ ~Waits(hdata) /\ oops' = "wake"
    /\ hpc' = "user" /\ hreq' = Null /\ hdata' = Null
    /\ UNCHANGED <<devVars, slabVars, callerVars, todo, signals, deaths>>

(* An asynchronous caller's callback: complete() ...                       *)
async_callback(c) ==
    /\ hpc = "found" /\ callback[hreq] = "async_callback" /\ c = kdata[hreq]
    /\ completed' = [completed EXCEPT ![c] = TRUE]
    /\ oops' = IF pc[c] = "completion" /\ req[c] = hreq /\ ~completed[c]
               THEN "no" ELSE "callback"
    /\ hpc' = "release"
    /\ UNCHANGED <<devVars, slabVars, pc, req, data, hreq, hdata, todo,
                   signals, deaths>>

(* ... and then kocl_free_request; kocl_write frees the item and returns.  *)
async_callback_end ==
    /\ hpc = "release"
    /\ freeReqs' = freeReqs \cup {hreq}
    /\ hpc' = "user" /\ hreq' = Null
    /\ UNCHANGED <<devVars, callback, kdata, freeData, old, done, callerVars,
                   hdata, todo, boundVars>>

null_callback ==
    /\ hpc = "found" /\ callback[hreq] = "NULL"
    /\ oops' = "callback"
    /\ UNCHANGED <<devVars, slabVars, callerVars, helperVars, signals, deaths>>

(* KOCL_IOC_SET_STOP.                                                      *)
terminate_all_requests ==
    /\ hpc = "user"
    /\ state = "OK"
    /\ state' = "TERMINATED"
    /\ UNCHANGED <<reqs, rtdreqs, slabVars, callerVars, helperVars, boundVars>>

(* Mutant: opening the device again initialises reqs.                      *)
helper_restart_clears ==
    /\ hpc = "user"
    /\ deaths < MaxDeaths
    /\ deaths' = deaths + 1
    /\ todo' = [r \in Requests |-> 0]
    /\ reqs' = << >>
    /\ UNCHANGED <<state, rtdreqs, slabVars, callerVars, hpc, hreq, hdata,
                   signals, oops>>

(* The helper dies and is started again: what it had read it forgets,      *)
(* rtdreqs stays as it was.                                                *)
helper_restart ==
    /\ hpc = "user"
    /\ deaths < MaxDeaths
    /\ deaths' = deaths + 1
    /\ todo' = [r \in Requests |-> 0]
    /\ UNCHANGED <<devVars, slabVars, callerVars, hpc, hreq, hdata, signals, oops>>

-----------------------------------------------------------------------------
CallerWakes(c) == sync_woken(c) \/ async_completed(c)

CallerStep(c) ==
    \/ \E r \in Requests : kocl_alloc_request(c, r)
    \/ kocl_free_request(c)
    \/ kocl_offload_refused(c)
    \/ \E d \in Data : sync_prepare(c, d)
    \/ async_prepare(c)
    \/ enqueue(c)
    \/ CallerWakes(c)
    \/ sync_interrupted(c)

InSyscall ==
    \/ kocl_read_end
    \/ \E d \in Data : sync_callback(d)
    \/ sync_callback_end
    \/ \E c \in Callers : async_callback(c)
    \/ async_callback_end
    \/ null_callback

Read == \E r \in Requests : kocl_read(r)

Next ==
    /\ oops = "no"
    /\ \/ \E c \in Callers : CallerStep(c)
       \/ Read
       \/ \E r \in Requests : kocl_write(r)
       \/ InSyscall
       \/ terminate_all_requests
       \/ helper_restart

Spec == Init /\ [][Next]_vars

(* The helper's loop reads whenever something can be read, answers every   *)
(* request it has read, and its system calls come to an end; a caller that *)
(* can run does.                                                           *)
Fairness ==
    /\ SF_vars(oops = "no" /\ Read)
    /\ \A r \in Requests : SF_vars(oops = "no" /\ kocl_write(r))
    /\ WF_vars(oops = "no" /\ InSyscall)
    /\ \A c \in Callers :
          /\ WF_vars(oops = "no" /\ enqueue(c))
          /\ WF_vars(oops = "no" /\ CallerWakes(c))

FairSpec == Spec /\ Fairness

-----------------------------------------------------------------------------
(* The driver owes c an answer.                                            *)
Owed(c) == \/ pc[c] = "wait" /\ ~done[data[c]]
           \/ pc[c] = "completion" /\ ~completed[c]

Answered(c) == \/ pc[c] = "wait" /\ done[data[c]]
               \/ pc[c] = "completion" /\ completed[c]

Occurrences(r, s) == Cardinality({i \in DOMAIN s : s[i] = r})

(* How many pointers to r the driver holds and will still use.             *)
Pointers(r) ==
    Occurrences(r, reqs) + Occurrences(r, rtdreqs)
      + (IF hpc \in {"read", "found"} /\ hreq = r THEN 1 ELSE 0)

(* At any moment each request whose call is owed an answer is in exactly   *)
(* one place - reqs, the reader's hands, rtdreqs, the writer's hands - and *)
(* no list points to any other request: none is lost, answered twice, or   *)
(* freed while the driver can still follow a pointer to it.                *)
OnePlace ==
    signals = 0 =>
        \A r \in Requests :
            /\ Pointers(r) <= 1
            /\ Pointers(r) = Cardinality({c \in Callers : req[c] = r /\ Owed(c)})
            /\ Pointers(r) = 1 => r \notin freeReqs

(* kocl_write calls only callbacks that are set, and a callback sets a     *)
(* flag or a completion only when the caller of this very request is still *)
(* waiting for it.  The wake-up after the flag is not safe: the caller may *)
(* be gone by then, and oops = "wake" says that its call data were.        *)
CallbacksSafe == signals = 0 => oops # "callback"

(* The helper, which aborts on any error, never sees -EFAULT: what it has  *)
(* read is in rtdreqs until it answers, even after it was restarted and    *)
(* when interrupted calls have left items for requests used again.         *)
HelperNotAborted == hpc # "aborted"

(* A helper that died had read c's request and not answered it.            *)
Lost(c) == Owed(c) /\ todo[req[c]] = 0 /\ Occurrences(req[c], rtdreqs) > 0

Status(c) == IF Lost(c) THEN "lost" ELSE IF Owed(c) THEN "pending"
             ELSE IF Answered(c) THEN "answered" ELSE "idle"

status == [c \in Callers |-> Status(c)]

(* What callers see is what KoclOffload promises, as long as no signal     *)
(* makes a caller give up its request before the answer.                   *)
Offload == INSTANCE KoclOffload WITH call <- status

OffloadSpec == Offload!Spec

(* A queued request is answered even if helpers come and go: a restart     *)
(* loses only what the dead helper had read.                               *)
QueuedSurvivesRestart ==
    \A c \in Callers :
        (Owed(c) /\ Occurrences(req[c], reqs) > 0)
        ~> (Answered(c) \/ Lost(c))
=============================================================================
