------------------------------ MODULE KoclStart ------------------------------
(***************************************************************************)
(* How a helper comes up: it opens the device (KoclOpen), registers its    *)
(* buffers, loads the service libraries and serves.  The driver rebases    *)
(* the addresses of a request from its own mapping of the buffers to the   *)
(* helper's (fill_ku_request), so what it remembers of a registration has  *)
(* to be the reading helper's.  A helper may die at any moment; another    *)
(* one is started; the driver may be unloaded.  kocl/helper.c, service.c,  *)
(* main.c; the libraries are those of gaes/libsrv_gaes.                    *)
(***************************************************************************)
EXTENDS KoclOpen, Sequences, Functions

CONSTANTS Libs,          \* the libraries in the order of glob: what each defines
          MaxRegistered, \* bound: registrations of buffers
          None

(* The services that clients ask for: those of the libraries that load.    *)
Names == UNION {Range(lib.names) : lib \in {l \in Range(Libs) : l.init}}

ASSUME StartAssumption ==
  /\ Libs \in Seq([names : Seq(STRING), init : BOOLEAN, setup : BOOLEAN]) /\ MaxRegistered \in Nat
  /\ {"none", "read"} \cap Names = {} /\ None \notin Nat

VARIABLES stage,      \* per process: "start", "opened", "registered" (libraries follow), "serving"
          next,       \* per process: the library it loads next
          open,       \* per process: libraries that are open
          services,   \* per process: the list of services: each one's name and its library's number
          nomem,      \* some service could not be registered
          registered, \* counts registrations; each is a piece of memory of its own
          uva, kva,   \* the registrations that the pool's addresses belong to, or None
          half,       \* the last registration set one address only
          owner,      \* of each registration: the process that made it
          buffer,     \* the buffer of a client: the registration it lies in, or None
          request,    \* its request: the name of its service while queued, "none", "read"
          given       \* what was read: by whom, at which registration (None: the kernel's
                      \* address, handed on), with which service found and its library open
                      \* (live), and whether half or overtaken held (sound)

startVars == <<stage, next, open, services, nomem, registered, uva, kva, half, owner,
               buffer, request, given>>
allVars == <<vars, startVars>>

StartInit ==
  /\ Init
  /\ stage = [p \in Procs |-> "start"] /\ next = [p \in Procs |-> 1]
  /\ open = [p \in Procs |-> {}] /\ services = [p \in Procs |-> {}] /\ nomem = FALSE
  /\ registered = 0 /\ uva = None /\ kva = None /\ half = FALSE /\ owner = << >>
  /\ buffer = None /\ request = "none" /\ given = None

pools == <<registered, uva, kva, half, owner>>
client == <<buffer, request, given>>
libraries == <<next, open, services, nomem>>

-----------------------------------------------------------------------------
(* kh_init: a helper that cannot open the device aborts.                   *)
helper_open(p) ==
  /\ stage[p] = "start" /\ kocl_open(p)
  /\ stage' = [stage EXCEPT ![p] = IF pc'[p] = "open" THEN "opened" ELSE @]
  /\ UNCHANGED <<libraries, pools, client>>
helper_refused(p) == kocl_open_busy(p) /\ UNCHANGED startVars

(* The end of a process, whatever ended it, closes the device.             *)
Ends(p) ==
  /\ kocl_release(p)
  /\ stage' = [stage EXCEPT ![p] = "start"] /\ next' = [next EXCEPT ![p] = 1]
  /\ open' = [open EXCEPT ![p] = {}] /\ services' = [services EXCEPT ![p] = {}]
  /\ UNCHANGED <<nomem, client>>
exits(p) == Ends(p) /\ UNCHANGED pools

(* KOCL_IOC_SET_GPU_BUFS: the ioctl works, or sets the user addresses and  *)
(* reports success although the pages could not be had, or fails having    *)
(* set them, and perhaps lost the mapping; then the helper aborts.         *)
gpu_alloc_pinned_mem(p) == registered' = registered + 1 /\ owner' = Append(owner, p)
Registers(p) == pc[p] = "open" /\ registered < MaxRegistered /\ gpu_alloc_pinned_mem(p)
set_gpu_bufs(p) ==
  /\ stage[p] = "opened" /\ Registers(p)
  /\ uva' = registered' /\ kva' = registered' /\ half' = FALSE
  /\ stage' = [stage EXCEPT ![p] = "registered"]
  /\ UNCHANGED <<vars, libraries, client>>
set_gpu_bufs_half(p) ==
  /\ stage[p] = "opened" /\ Registers(p)
  /\ uva' = registered' /\ half' = TRUE
  /\ stage' = [stage EXCEPT ![p] = "registered"]
  /\ UNCHANGED <<vars, kva, libraries, client>>
set_gpu_bufs_fails(p) ==
  /\ stage[p] = "opened" /\ Registers(p)
  /\ uva' = registered' /\ kva' \in {kva, None}
  /\ Ends(p) /\ UNCHANGED half

(* Mutant: a helper serves as soon as the first library is loaded.         *)
main_loop_early(p) ==
  /\ stage[p] = "registered" /\ next[p] > 1
  /\ stage' = [stage EXCEPT ![p] = "serving"]
  /\ UNCHANGED <<vars, libraries, pools, client>>

(* kh_load_service.  Without service_CLsetup the library is closed, and    *)
(* its init function is called all the same.  Registering may run out of   *)
(* memory at any service; then the library is closed and what was          *)
(* registered stays.                                                       *)
load_service(p) ==
  /\ stage[p] = "registered" /\ next[p] <= Len(Libs)
  /\ LET lib == Libs[next[p]]
     IN \E S \in SUBSET (IF lib.init THEN Range(lib.names) ELSE {}) :
          LET complete == lib.init /\ S = Range(lib.names)
          IN /\ services' = [services EXCEPT ![p] = @ \cup [name : S, lib : {next[p]}]]
             /\ open' = IF lib.setup /\ complete THEN [open EXCEPT ![p] = @ \cup {next[p]}]
                        ELSE open
             /\ nomem' = (nomem \/ (lib.init /\ ~complete))
  /\ next' = [next EXCEPT ![p] = @ + 1]
  /\ UNCHANGED <<vars, stage, pools, client>>

load_all_services(p) == next[p] = Len(Libs) + 1
main_loop(p) ==
  /\ stage[p] = "registered" /\ load_all_services(p)
  /\ stage' = [stage EXCEPT ![p] = "serving"]
  /\ UNCHANGED <<vars, libraries, pools, client>>

-----------------------------------------------------------------------------
(* A client's buffer lies in the pool the driver knows; it keeps it as     *)
(* long as it likes.                                                       *)
kocl_malloc == /\ buffer = None /\ request = "none" /\ kva # None /\ buffer' = kva
               /\ UNCHANGED <<vars, stage, libraries, pools, request, given>>
kocl_offload == /\ buffer # None /\ request = "none" /\ request' \in Names /\ given' = None
                /\ UNCHANGED <<vars, stage, libraries, pools, buffer>>

(* kh_lookup_service: the first service of that name, or none.  Libraries  *)
(* add theirs at the tail, so the first is that of the lowest library.     *)
lookup_service(p, name) ==
  LET found == {s.lib : s \in {s \in services[p] : s.name = name}}
  IN IF found = {} THEN None ELSE CHOOSE l \in found : \A k \in found : l <= k

(* kocl_read and kh_init_service_request: fill_ku_request rebases an       *)
(* address to base; the helper looks the service up.                       *)
Read(p, base) ==
  /\ stage[p] = "serving" /\ request \in Names /\ request' = "read"
  /\ LET lib == lookup_service(p, request)
     IN given' = [by |-> p, at |-> base, found |-> lib, live |-> lib \in open[p],
                  sound |-> ~half /\ ~overtaken]
  /\ UNCHANGED <<vars, stage, libraries, pools, buffer>>

(* Mutant: every address is rebased.                                       *)
kocl_read_always(p) == Read(p, uva)

(* An address outside the pool is handed on as it is.                      *)
kocl_read(p) == Read(p, IF buffer = kva THEN uva ELSE None)

(* The request is answered, or given up when its helper died.              *)
kocl_free == /\ request \notin Names /\ buffer # None
             /\ buffer' = None /\ request' = "none" /\ given' = None
             /\ UNCHANGED <<vars, stage, libraries, pools>>

(* rmmod: the module is in use as long as a client or a helper has it.     *)
mod_exit == /\ At("open") = {} /\ At("busy") = {} /\ buffer = None
            /\ uva' = None /\ kva' = None /\ half' = FALSE
            /\ UNCHANGED <<vars, stage, libraries, registered, owner, client>>

StartNext ==
  \/ \E p \in Procs : \/ helper_open(p) \/ helper_refused(p) \/ exits(p)
                      \/ set_gpu_bufs(p) \/ set_gpu_bufs_half(p) \/ set_gpu_bufs_fails(p)
                      \/ load_service(p) \/ main_loop(p) \/ kocl_read(p)
  \/ kocl_malloc \/ kocl_offload \/ kocl_free \/ mod_exit

StartSpec == StartInit /\ [][StartNext]_allVars

-----------------------------------------------------------------------------
(* As long as no memory was short, a request for a service that some       *)
(* library offers is served by one that is open, whichever helper reads    *)
(* it: helpers load every library before they serve, and again after a     *)
(* crash.  Libraries without service_CLsetup are closed and called         *)
(* (service.c:109).                                                        *)
ServiceFound ==
  given # None => (~nomem => /\ given.found # None
                             /\ Libs[given.found].setup => given.live)

(* A rebased address lies in memory that is the client's buffer and the    *)
(* reading helper's own, however helpers died and came - unless a          *)
(* registration was half done or a release overtook an open (KoclOpen).    *)
RebasedToOwn ==
  given # None => (given.sound /\ given.at # None =>
                     given.at = buffer /\ owner[given.at] = given.by)
=============================================================================
