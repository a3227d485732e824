# KOCL in TLA+

A verification development for KOCL (`src/kocl`), a framework that lets Linux
kernel code offload work to GPUs, for GAES (`src/gaes/gaes_ecb`,
`src/gaes/libsrv_gaes`), the AES cipher that uses it, and for the eCryptfs
(`src/gaes/ecryptfs_4.7_kocl`, `ecryptfs_4.7_orig`) that encrypts files with
that cipher. It has TLA+ modules translated from the C sources, TLC
configurations that check them on small instances, and TLAPS proofs.

To use it, in this directory:

    tlc -workers 2 -config MCKoclDev.cfg MCKoclDev
    tlapm KoclMempoolProofs.tla

## 1. Inventory

### How the parts interact

    user's system calls, page cache, mmap
        v
    eCryptfs        file.c, read_write.c, mmap.c      pages of a file
        |  crypto.c   ecryptfs_encrypt_pages2, extents, headers
        |  keystore.c, crypto.c    keys, packets, file names
        |  messaging.c, miscdev.c  <---> user-space daemon (private keys)
        |  inode.c, dentry.c       names;   main.c, super.c: module and mount
        v
    gaes_ecb   splits one encryption into parts for the GPU
        |  kocl_malloc / kocl_free      buffers in a pinned pool
        |  kocl_offload_sync / _async   a request; callback when it is answered
        v
    driver  kocl/main.c   /dev/kocl:  reqs --read--> rtdreqs --write--> callback
        ^                              SET_GPU_BUFS, SET_STOP by ioctl
        |  poll, read, write
        v
    helper  kocl/helper.c   one thread: init -> memdone -> prepared -> running
        |                               -> post_exec -> done
        +-- kocl/gpuops.c   command queues of three devices on two platforms
        +-- kocl/service.c  services from libsrv_*.so (GAES, jhash)

A client takes a buffer, fills it, and offloads a request that names a service
and a channel (a GPU). The driver queues the request; the helper reads it, runs
it on a command queue, and writes a response; the driver calls the request's
callback inside that `write`. Of a request, its id, its service's name and the
addresses of its buffers, rebased into the helper's mapping, go to user space;
the id and an error code come back.

### Components

**Driver: GPU memory pools** (`kocl/main.c:262-362, 572-819`). *State*: three
pools, each with `uva`, `kva`, `pages`, `bitmap`, `alloc_sz`, `nunits`; one
spin lock. *Operations*: `set_gpu_mempool` (ioctl), `kocl_malloc`, `kocl_free`,
`clear_gpu_mempool` (unload). *Hard*: `kocl_free` reads fields and `alloc_sz`
before it takes the lock; a registration can end at any of a dozen places with
the fields set so far; a restarted helper registers while clients still hold
buffers; `memset` clears a quarter of `alloc_sz`. *Correct when*: no unit is
handed out twice; bitmap and live buffers agree; no bad pointer is followed.

**Driver: request path** (`kocl/main.c:92-259, 364-570, 827-833`). *State*:
`reqs`, `rtdreqs`, `state`; slab objects for requests, items and call data.
*Operations*: `kocl_alloc_request`, `kocl_free_request`, `kocl_offload_sync`,
`kocl_offload_async`, `kocl_read` with `fill_ku_request`, `kocl_write` with the
callbacks, `SET_STOP`. *Hard*: two locks with a gap in which an item is in no
list; objects that are freed and reused between `done = 1` and the end of the
callback; signals that end a wait early; a helper that dies with requests in
`rtdreqs`; addresses rebased with the fields of the last registration. *Correct
when*: every accepted call is answered once and ends only then; a callback never
works on freed objects; the helper, which aborts on any error, never gets one.

**Driver: open, release, load, unload** (`kocl/main.c:390-405, 913-1080`).
*State*: `kocldev_av`. *Hard*: the count is changed in two steps by an open
that fails, and a release sets it whatever it is. *Correct when*: one opener at
most, and opening is possible again after the last release.

**Helper: main loop** (`kocl/helper.c`). *State*: six lists of requests,
`all_reqs`, each request's fields. *Operations*: the six passes and
`kh_get_next_service_request`. *Hard*: failures in every stage; a pass walks a
list while operations move its items; `poll` sleeps only if `all_reqs` is empty;
requests of a service share one kernel object, whose arguments a `prepare`
overwrites. *Correct when*: each request is in one list; each is answered, once;
each result is computed from the request's own arguments.

**Helper: OpenCL set-up and command queues** (`kocl/gpuops.c`, `gputils.h`).
*State*: which of `MAX_QUEUE_NR` queues of each device are taken. *Hard*: every
error path must give the queue back. *Correct when*: a queue is taken exactly
while one request holds it.

**Helper: service registry and start-up** (`kocl/service.c`, `main` and
`kh_init` of `helper.c`, `libsrv_gaes`). *State*: the list of services, open
libraries. *Operations*: open the device, register buffers, load libraries,
register and look up services. *Hard*: a library without `service_CLsetup` is
closed and called all the same; a library whose second registration fails; a
helper that replaces a dead one while requests wait. *Correct when*: a request
is served by a library that is open.

**GAES cipher** (`gaes/gaes_ecb/gaes_ecb.c`). *State*: per call, the parts'
completions, requests and buffers. *Operations*: split, submit, callback, wait.
*Hard*: responses in any order; a submission that breaks off; a signal during
the wait; lengths that do not divide into pages. *Correct when*: the parts make
up the data; the completions outlive the callbacks; the caller returns.

**GAES service library** (`gaes/libsrv_gaes`): the OpenCL kernels and the
`prepare`, `launch`, `post` functions. **GAES test callers** and **jhash**:
benchmarks in the pattern of the cipher.

**eCryptfs: file I/O with GPU offload** (kocl tree: `read_write.c:210-515`,
`crypto.c:330-720`, `mmap.c:230-330`, `file.c`). *State*: file size, page cache
with page locks, lower file. *Operations*: `ecryptfs_write2`, `ecryptfs_read2`
(now behind `.write` and `.read`), `ecryptfs_readpages`. *Hard*: no inode lock,
so calls interleave page by page; pages are encrypted unlocked, and decrypted in
place; ranges that do not begin or end at a page; failures that are not
reported; pages that another task put into the cache first. *Correct when*: what
was written is in the lower file and is what a read returns.

**eCryptfs: the page cache of Linux 4.7** (orig tree: `mmap.c`, `read_write.c`,
`inode.c:680-830`). *State*: pages with their flags, the size in memory and in
the metadata. *Operations*: `write_begin`, `write_end`, `writepage`, `readpage`,
`ecryptfs_write`, truncation. *Hard*: `ecryptfs_write` encrypts and stores
unlocked pages; growth that a signal interrupts; copies that come short; bytes
behind the end of the file. *Correct when*: the file holds what was written, and
the metadata its size.

**eCryptfs: messaging** (`messaging.c`, `miscdev.c`). *State*: message contexts
on a free and an allocated list, each daemon's out queue. *Operations*: send,
wait, the daemon's open, read, write and release. *Hard*: late, repeated and
reordered answers; a time-out against an answer; a daemon that dies with
requests queued; a queue that is changed under two different locks. *Correct
when*: a task gets the answer to its own request; contexts are not lost; waits
end.

**eCryptfs: keys and the life of a file** (`keystore.c`, `crypto.c`, `inode.c`,
`file.c`, `main.c`, `kthread.c`). *State*: the mount's tokens, references to
keys and their semaphores; a file's `crypt_stat`; the one lower file and its
count; the metadata. *Operations*: mount, create, lookup, open, growth,
`setattr`, release, eviction. *Hard*: keys that are revoked, expire or change
while used; two first opens; failures behind `KEY_VALID`; sizes that are read and
set without a lock; four locks. *Correct when*: what is taken is given back;
data are encrypted with the key the metadata give; the stored size is the
file's; calls end.

**eCryptfs: headers and names** (`keystore.c`, `crypto.c`). *State*: the packets
of a header; a lower name. *Operations*: write and parse tags 1, 3, 11, 64 to 67
and 70; encode and decode names. *Hard*: lengths at the limits of the page, the
buffer, the name and the length octets. *Correct when*: what was written is
what is read.

**eCryptfs: ciphers** (`crypto.c`, `keystore.c`, `main.c`). *State*: the shared
list of transforms, each inode's transform, its `KEY_SET`, root vectors.
*Hard*: `setkey` and use of a shared transform are two calls; failures that
leave a half-made `crypt_stat`. *Correct when*: everything is encrypted under
its own key and vector.

**eCryptfs: directories and inodes** (`inode.c`, `dentry.c`, `file.c`).
*State*: lower entries and inodes, cached entries, inodes of eCryptfs. *Hard*:
the lower operation is done and the upper one fails, or the reverse; attributes
copied without a lock. *Correct when*: cached names agree with the lower file
system.

**eCryptfs: module load and mount** (`main.c`, `super.c`, `kthread.c`,
`messaging.c`, `miscdev.c`). *State*: what each step has acquired. *Hard*: every
step can fail; daemons come while loading may still fail. *Correct when*: error
paths give back exactly what was taken; nothing in use is taken down.

## 2. Modules

| module | models | state and actions |
|---|---|---|
| `KoclMempool` | the pools | one action each for `set_gpu_mempool` (parameterised by where it ends) and `kocl_malloc`; `kocl_free` in three, as it reads without the lock |
| `KoclMempoolProofs` | | theorems about `KoclMempool` |
| `KoclOffload` | what a caller is promised | `Submit`, `Answer`, `Finish`, and `Lose` for what a helper that dies had read |
| `KoclDev` | the request path, with callers and an abstract helper | one action per locked section, and per statement of a callback |
| `KoclDevProofs` | | theorems about `KoclDev`, and that it implements `KoclOffload` |
| `KoclHelper` | main loop and command queues | one action per operation on one item, `turn` between passes |
| `KoclHelperProofs` | | theorems about `KoclHelper` |
| `KoclOpen` | who may open the device | an open that succeeds in one step, one that fails in two; release |
| `KoclOpenProofs` | | theorems about `KoclOpen` and `KoclStart` |
| `KoclStart` | a helper's start: open, registration, libraries, service, death; `fill_ku_request` | EXTENDS `KoclOpen`, whose actions are part of its own |
| `GaesEcb` | one encryption | split, submit, callback of a part, wait, return |
| `EcryptfsFile` | `ecryptfs_write2` and `ecryptfs_read2` on one file | one action per turn of each loop, per request to the cipher, and per way out; page reclaim |
| `EcryptfsReadahead` | `ecryptfs_readpages` | one action per page added, for the lower reads, the request and the end; faults, stores, write-back, reclaim |
| `EcryptfsPages` | the page cache of 4.7 | `write_begin`, copy, `write_end`; `ecryptfs_write` page by page, truncation; stores, write-back, reading, reclaim |
| `EcryptfsDataProofs` | | theorems about `GaesEcb`, `EcryptfsFile`, `EcryptfsPages` and `EcryptfsReadahead` |
| `EcryptfsMessaging` | messaging and miscdev | the out queue as linked list, with its pointers; adding in two steps, as it is not under the lock of removing |
| `EcryptfsMessagingProofs` | | theorems about `EcryptfsMessaging` |
| `EcryptfsKeys` | tokens of a mount | find, lock, use and put of one key per step; what the user does to keys |
| `EcryptfsOpen` | the life of a file | EXTENDS `EcryptfsKeys`; one action per section under a lock |
| `EcryptfsOpenProofs` | | theorems about `EcryptfsOpen` and `EcryptfsKeys` |
| `EcryptfsPackets` | headers | one action per packet written or parsed, and per token tried |
| `EcryptfsNames` | file names and link targets | encode, then show |
| `EcryptfsCiphers` | transforms, keys, vectors | one action per lock, `setkey`, block and extent |
| `EcryptfsDirs` | names and inodes | one action per operation of the VFS, with its ways to fail |
| `EcryptfsMount` | load, unload, mount, unmount | one action per step, per failing step and per step of taking down |
| `EcryptfsFormatsProofs` | | theorems about `EcryptfsDirs`, `EcryptfsCiphers` and `EcryptfsMount` |
| `MC*` | instances for TLC | |

What one module leaves open another one has: `KoclDev` leaves open which request
the helper answers next, `KoclHelper` has the order and takes the driver as a
queue. `GaesEcb` takes both as "a callback runs some time after the offload".
`EcryptfsFile` and `EcryptfsReadahead` take the cipher as a pair of inverse
operations that may fail. `EcryptfsOpen` takes a FEK as a number and a header as
"metadata with these signatures", which `EcryptfsPackets` spells out;
`EcryptfsKeys` takes the daemon's answer as success or failure, which is
`EcryptfsMessaging`. `MCEcryptfsFile` and `MCEcryptfsFormats` put several
modules side by side that share no state: a behavior is of one of them, named by
`part`, and the others rest.

Correspondence, where it is not by name:

* `KoclMempool`. A registration is a number: `kva[p] = r` when pool `p` was
  mapped by registration `r`. Old mappings are never unmapped while the module
  is loaded, so a pointer into an older one is out of the new one's range.
  `arrays[p]` says which pointers of the pool are not NULL. `FreshContents` is
  what `kmalloc` may return. `oops` is set when a NULL array is used or an
  address made from `kva = 0` is handed out; the kernel does nothing after it.
  `overtaken` is a history variable: a registration came between two steps of a
  `kocl_free`.
* `KoclDev`. A list item is a pointer to a request, so lists are sequences of
  request objects. The id of a request is given by the slab constructor and
  survives free and reuse, so an object is its own id, and a list may hold one
  object twice. `todo[r]` is how many answers the helper owes for `r`.
  `pc = "returned"` is the time between a call's end and `kocl_free_request`.
  `oops` is `"callback"` when a callback was NULL, or wrote to call data or a
  completion that nobody waits with, and `"wake"` when the wake-up of
  `sync_callback` (`main.c:138`) met call data whose caller had seen the flag and
  gone. `FreedIntact` says whether freed call data stay a wait queue: if so, such
  a wake-up finds nobody.
* `KoclHelper`. `left` is what is left of the walk of the current pass
  (`list_for_each_safe`); `Stop` and `Continue` are its `once` flag.
  `args[k]` is the request whose arguments the kernel object `k` holds, and a
  launch puts *that* request into `computed`.
* `KoclStart`. A registration is a piece of memory that belongs to the process
  that made it. `uva` and `kva` are the registrations the pool's two addresses
  come from: they differ after a registration that stopped between the two
  (`half`). `given` records what the last read handed out. `services[p]` is a set,
  as names are found whatever their place in the list; of two with one name the
  lookup takes the library that was loaded first, the first in the list.
* `GaesEcb`. `writes[x]` counts how often byte `x` was covered by a result. The
  walk over the scatterlist is `Walked`: pages that begin at `offset` or later.
* `KoclOpen`. `overtaken` is a history variable: a release came between the two
  steps of an open that fails.
* `EcryptfsFile`. A byte is who wrote it, for which offset, and how many times
  it was encrypted more often than decrypted, so that a page loaded from the
  lower file, an encrypted page that is encrypted again and a page of the wrong
  offset all look different. A page that enters the cache is `Junk`, as
  `grab_cache_page` does not read it. `file` is what finished writes wrote;
  `shared`, `spoiled`, `overlapped` and `failed` are history variables too.
  `spoiled` are the pages that a write damaged by what it does with parts of
  pages (`Spoils`, `Beyond`), until another fills the whole page.
* `EcryptfsReadahead`. A page of memory and an index in the file are different
  things: `frame[f].index` is what the page was chosen for, `slot[g]` the page
  the cache has for `g`. Contents are the number of the store that made them.
* `EcryptfsPages`. A byte of the lower file stands for what it decrypts to;
  bytes that memory or a hole happens to hold are `NoOne`. `want` is what calls
  and stores wrote. A byte that a failing call was to write may be `Anything`.
* `EcryptfsMessaging`. `nxt` and `prv` are the list pointers, `Poison` what
  `list_del` leaves. `oops` is a poisoned pointer that was followed. `leaked`,
  `dropped`, `requeued` and `raced` are history variables.
* `EcryptfsKeys`. `work[t]` is what task `t` does with a list of signatures: to
  mount, to write a packet for each, or to find one that gives a key.
* `EcryptfsOpen`. `inode` is the inode with its `crypt_stat`; `bad`, `stray`
  and `stale` are history: a lookup made it bad, a failure left `KEY_VALID`,
  a size that changed meanwhile was set. `pc` names the section a task is in.
* `EcryptfsPackets`. A packet stands at its offset, so lengths and limits are
  the code's numbers; an encrypted key is a record of what encrypted what.
  Tokens in `Preset` come with a `session_key.encrypted_key` that is not zero,
  which is written in place of the file's key (`keystore.c:2057`, `2249`).
* `EcryptfsNames`. Names and packets are lengths; the spelling in 64 characters
  is defined on octets. `size_t` is scaled to 24 bits.
* `EcryptfsCiphers`. An encryption is a record of the key, vector and data it
  was made of. `warned` and `init_failed` are history: a key was left with zeros
  for its root vector, an open with a valid key and no transform.
* `EcryptfsDirs`. A lower inode may have several inodes of eCryptfs: one that is
  used, `upper[i]`, and `bad[i]` that a lookup made bad. An entry or a copy of
  attributes says whether it stands on a bad one.
* `EcryptfsMount`. `parts` is what `ecryptfs_init` has set up, `mnt[m]` what a
  mount holds; options are records, `Parsed` and `Shown` go from option lists to
  the mount's state and back.

## 3. Runs

All bounds are constants in the `.cfg` files.

| run | shows | bounds |
|---|---|---|
| `mempool` | `NoSharedUnits`, `BitmapExact`, `NoOopsWhenMapped` | 2 clients, 2 of the 3 pools used, 4 units, sizes 1 and 2, 2 registrations, each ending in every way |
| `dev` | `OnePlace`, `CallbacksSafe`, `HelperNotAborted` | 3 callers, 2 requests, 1 call data, 1 signal, 1 death of the helper; freed call data may be anything |
| `dev_offload` | `KoclDev` implements `KoclOffload`, liveness included; a queued request survives a restart | 2 callers, 2 requests, 1 call data, no signal, 1 death; freed call data stay intact |
| `helper` | `QueuesAccounted`, `ResultOwn`, and every request is answered | 3 requests, the 2 devices of platform 2, 1 queue each |
| `gaes` | `WholeData`, `Returns` | 6 lengths, 2 or 4 parts, 1 signal |
| `gaes_gap` | finding 1 | as above, no signal |
| `open` | `OneOpener`, `CanBeOpened`, `ServiceFound`, `RebasedToOwn` | 3 processes, 3 libraries, 2 registrations |
| `ecryptfs` | `PagesStored`, `ReadMatches` (GPU I/O) | 2 processes, 3 calls, 2 pages of 2 bytes; writes of a byte, a page and both pages, from the start and the middle of pages and beyond the end; reads of 3 bytes, or what the file has of them, from both bytes of the first page |
| | `HoldsFile`, `SizeStored` (page cache of 4.7) | 2 pages of 3 bytes, 3 writes or truncations, 1 store through a mapping |
| | `ReadAheadCorrect` (read-ahead) | 2 tasks, 3 pages of memory, 2 indices, 3 calls, 2 stores |
| `ecryptfs_read` | finding 2 | 1 process, 2 calls |
| `messaging` | `OwnResponse`, `ContextsAccounted`, `NoOops`, `WaitEnds` | 2 tasks, 2 contexts, 3 requests, 2 daemons one after the other |
| `ecryptfs_open` | `AllReturned`, `KeyStored`, `SizeKept`, `CallsEnd` | 2 tasks with 3 calls, 2 kinds of mount and 4 lower files, or 1 task with 4 calls, 2 kinds of mount and 6 lower files; a passphrase and a private token, 1 key that changes, 2 pages |
| `formats` | `HeaderReadBack` (headers) | 9 ciphers and key sizes, 18 token lists, real sizes |
| | `NamesSurvive` (names) | all lengths around the limits, 7 lower limits, 2 block sizes, packets of up to 4 octets spelled |
| | `KeysOwn`, `ExtentsReadBack`, `SomeoneRuns` (ciphers) | 2 tasks, 2 tokens, 2 pages of 2 extents, 4 operations |
| | `NamesAgree`, `ListingComplete` (directories) | 2 directories of 2 names, 2 inodes, 5 operations, 2 copies of attributes at a time, 1 change by others |
| | `UsedStays`, `NothingLeaks`, `ShownRemounts` (mount) | 1 mount, 1 daemon, 2 signatures, lists of 2 options, and of 4 that begin with a signature and a key size |

Why these are enough to make the interesting things happen.

* *mempool*: 4 units is the least for which `memset` clears one entry
  (`NUnits \div 4`) and leaves others; two buffers of two units fill a pool; two
  registrations give clients with buffers of an old mapping.
* *dev*: there are fewer requests and call data than callers, so each is freed
  and reused while its former user is still in a callback; one signal leaves a
  stale item, which then meets a reused request.
* *helper*: with three requests on two devices with a queue each, one waits in
  `memdone`, also while the other device is free, and requests of both devices
  share a kernel object.
* *gaes*: the lengths are one that is not split, one that is split into
  `PartsAt`, and four split into `PartsAbove`: whole pages, whole pages with a
  remainder, half pages, odd bytes; pages are 4 bytes and blocks 2.
* *open*: a release, a failing open and an open take three processes. The
  libraries are one with two services, one that is none, and one more; a helper
  dies with a client's buffer in its memory and another registers its own.
* *ecryptfs*: three calls give a write that extends the file, another on the
  next page, over it or over a part of it, and a read at any time; a read within
  a page, one across both, and one at the end of the file. Writes within a page,
  across the border of pages (one page more than the count) and behind the end of
  the file (zeros first) all occur. In the page cache a truncation down and
  one up take a write before them, three operations, and pages of three bytes
  tell the first, an inner and the last byte apart; a store comes between two
  steps of either.
  Reading ahead, two tasks on two neighbouring places meet with the first page,
  the second, or both already there.
* *messaging*: with two contexts a timed-out one is taken again while the answer
  to its former request is still to come; three elements of the queue, head
  included, is what a race of add and remove needs.
* *ecryptfs_open*: two first opens race, with a create, a growing write or a
  `setattr` as the third call; the lower file is absent, empty, or has its header
  in its contents or in its xattr, for one token or two. One task alone makes a
  fourth call, on mounts with the xattr: a `setattr` reads the key, the next
  one fails with `KEY_VALID` set, and an open follows. The bounds are in
  `MCSpec`; they forbid calls only, which fairness does not ask for.
* *formats*: the token lists end within the page, in its last octets, behind it,
  and at or behind the end of the buffer.

**Conditions in the properties.** Where the code breaks a property in a way it
has no answer to, the property says so with a history variable, so that
everything else is covered.

* `OnePlace` and `CallbacksSafe` hold while no signal has ended a wait, and
  `WholeData` asks that completions outlive the callbacks while none came: the
  code gives up on a request in flight when a signal comes
  (`main.c:187`, `gaes_ecb.c:269`). `HelperNotAborted` holds with signals too.
  `CallbacksSafe` does not cover the wake-up that follows the flag: without any
  signal the caller can see `done`, return and free its call data before
  `wake_up_interruptible` (`main.c:138`) works on them. The code has no answer to
  that; the model stops there (`oops = "wake"`), and `OffloadSpec` is checked for
  freed memory that is still a wait queue (`FreedIntact`).
* The pool invariants hold unless a registration overtook a running `kocl_free`
  (`overtaken`). `kocl_free` racing `kocl_malloc` and other `kocl_free`s, and a
  registration while buffers are out, are covered without such a condition.
* `OneOpener` and `CanBeOpened` hold unless a release overtook a failing open:
  then the count becomes 2: opens one at a time all fail, and two at once can
  leave two openers. `RebasedToOwn` has the same condition, and that no
  registration stopped half-way with the ioctl reporting success
  (`main.c:685`). `ServiceFound` asks for memory to register the services.
* `Returns` excepts parts marked `lost`: when `kzalloc` of the async data fails
  `crypto_gaes_ecb_crypt` returns 0 and nobody will signal that part's completion
  (`gaes_ecb.c:193`), or when `kocl_offload_async`, whose result is ignored,
  refuses the request (`gaes_ecb.c:208`). The caller then waits for ever.
* `PagesStored` leaves out the pages that another call worked on during a
  write: there an `ecryptfs_read2` can put the old lower page back into the cache
  before the write encrypts it, which loses the write without an error or
  encrypts the page twice. Of writes of parts of pages it leaves out, as
  `spoiled`, until the page is written from end to end: a page that a turn begins
  in its middle without having it in the cache, as nothing reads it from the lower
  file (`read_write.c:273`); one whose bytes of the file behind the end of the
  write are set to zero (`read_write.c:291`); and the pages beyond as many as the
  size of the write is long (`read_write.c:231`), which are there when an unaligned
  range touches one page more or zeros come first. All other writes of parts of
  pages are covered: within a page that is cached, at the end of the file, from a
  page's start up to or past the end of the file. Failures of the cipher are
  dropped by the code. `ReadMatches` is about reads from the first page, finding 2.
  A read at the end of the file leaves its pages locked (`read_write.c:490`): later
  calls wait for ever.
* `HoldsFile` leaves out pages whose write-back ends or fails between the
  encryption and the store of `ecryptfs_write` (`raced`), the holes of plain
  files, bytes of failing calls, bytes behind a size that could not be stored and
  was read back with the inode, and bytes stored through a mapping behind the new
  end of a file between the zeroing and `truncate_setsize` (they may be there
  again when the file grows). `SizeStored` excepts a size that could not be stored.
* `ReadAheadCorrect` allows wrong contents in pages whose lower read failed
  (`crypto.c:657` overwrites the result), and pages that stay locked by a task
  that died of the NULL mapping of a first page that could not be added
  (`crypto.c:649`).
* `OwnResponse` and `NoOops` hold while the queue is intact (`Intact`): no
  context was queued while it still was in the queue, after a time-out, and no
  add raced a removal. `OwnResponse` and `ContextsAccounted` except a daemon that
  died with a request unread (`dropped`); a context lost by a send without
  memory is counted (`leaked`).
* `KeyStored` excepts files for which an attempt failed with `KEY_VALID` set
  (`stray`: `crypto.c:972`, `crypto.c:1612`, and a `setattr`, `inode.c:911`, whose
  failed reading leaves `METADATA_IN_XATTR` as the mount's options set it while
  `KEY_VALID` keeps the next open from reading again), and on a mount that passes plain
  files through, an opened one while another open tries its metadata.
  `SizeKept` excepts a size that was overtaken (`stale`).
* `HeaderReadBack` speaks of reading for headers that fit the page that is read.
  A header of many private keys does not: its file cannot be opened again. A
  token that comes with an encrypted key gives that key, not the file's
  (`keystore.c:2249`), or, for a private key, none, as its size stays zero.
* `ExtentsReadBack` excepts files with zeros for a root vector that could not be
  computed, for a new key (`crypto.c:858`) or one that a header gave
  (`keystore.c:1965`): that open fails with `KEY_VALID` set and, from a
  passphrase's packet, with a transform (`keystore.c:1475`), so the next open
  succeeds and works under wrong vectors (`warned`). It excepts the missing
  transform after a failed first open too (`init_failed`, `keystore.c:1971`).
* `NamesAgree` excepts names that others changed below, those of new files that
  could neither be initialised nor unlinked, a link that got no inode, and links
  shown by a copy of attributes that was overtaken, or changed through a bad inode.
  It counts the inodes that a lookup made bad and never put, when the size of the
  file could not be read (`inode.c:364-369`): each keeps its reference to the
  lower inode for ever. `NothingLeaks` names the daemon hash, which
  stays when the contexts cannot be allocated (`messaging.c:400`), `UsedStays`
  the BUG_ON for a daemon that came before `register_filesystem` failed,
  `ShownRemounts` the mounts that `/proc/mounts` does not tell apart.

**Fairness.** `KoclDev!FairSpec`: strong fairness of `kocl_read` and of
`kocl_write` for each request, because the helper alternates - every turn of its
loop writes all finished responses and reads one request, so neither can be put
off for ever though each disables the other while it runs; that each request
read is finished is what `EveryRequestAnswered` shows. Weak fairness of the system calls
in progress, of the restart, and of callers that are woken or about to take the
lock: they run on kernel threads that the scheduler does not starve. Nobody is
obliged to offload or to free. `KoclHelper!FairSpec`: weak fairness of the
helper's thread (which includes that `clFinish` returns), and strong fairness of
reading, that is `malloc` of 100 bytes does not fail for ever.
`GaesEcb!FairSpec`: the driver answers what was offloaded, and the caller's
thread runs. `EcryptfsMessaging!FairSpec`: tasks go on with a send, a sleeper's
timer expires, the kernel finishes a release; the daemon owes nothing.
`EcryptfsOpen!FairSpec`: weak fairness of each task's next step, so a wait for
the daemon ends, which `WaitEnds` shows. No signal is ever assumed to come.

**Deadlock** is checked in `helper` and `open`. It is not in the other runs
because the system may really stop there: after an oops, when registrations are
used up and no buffer is freed (`mempool`); when the helper died with everybody's
request in `rtdreqs` (`dev`, `dev_offload`); after a call returned (`gaes`);
when a call waits for a page that a read left locked (`ecryptfs`); when the
bounded numbers of calls or requests were made (the others). `CallsEnd` and
`SomeoneRuns` say what deadlock would: `CallsEnd` that no task waits for ever for
the key semaphores, `cs_mutex`, `lower_file_mutex` or the token list.

## 4. Findings

1. The comment at `gaes_ecb.c:260` says the parts make up the data. When the
   length of a part is not a multiple of the page size the bytes between a
   part's offset and the next page are in no part, and the call returns 0. Run
   `gaes_gap`.
2. `ecryptfs_read2`, "from an arbitrary location" (`read_write.c:419`), copies
   from the first page on wherever the read begins. Run `ecryptfs_read`.

## 5. Proofs

`KoclMempoolProofs` proves, for any number of clients, units, sizes and
registrations:

| theorem | states |
|---|---|
| `IInvAlways` | `Spec => []IInv` |
| `TypeCorrect` | `Spec => []TypeOK`: no bit or size outside the arrays |
| `BuffersDisjoint` | `Spec => []NoSharedUnits` |
| `BitmapIsExact` | `Spec => []BitmapExact` |
| `NoOopsOnceMapped` | `Spec => []NoOopsWhenMapped` |

*Assumptions*: those of `KoclMempool` on its constants: `NUnits` is a positive
multiple of 4 (it is 1024), sizes are positive, `FreshContents` are functions
from units to naturals. TLC evaluates them in the run `mempool`.

*The argument.* None of the invariants is inductive. `NoSharedUnits` follows
from `BitmapExact`'s half "live units are marked": `kocl_malloc` takes a run
with no marked unit. But `kocl_free` clears as many bits as `alloc_sz` says, so
the invariant must say that `alloc_sz` holds each live buffer's length at its
first unit (`SizesKnown`), and that a `kocl_free` past its unlocked reads still
works with its own client's index and length (`FreeingOwn`): other clients'
operations do not touch that entry, and this is why the missing lock is
harmless as long as no registration comes between. A registration empties the
bitmap of pools in which nothing is live afterwards, if it reaches the mapping
step; the conjunct `Complete` (a pool that is mapped has all its arrays) is what
excludes one that zeroes a mapped pool's bitmap and then fails to allocate.
`Bounds` keeps runs inside the pool. `NoOopsWhenMapped` needs `Complete` again:
a mapped pool has no NULL array.

`KoclOpenProofs` proves, for any finite set of processes:

| theorem | states |
|---|---|
| `CountAlways` | `Spec => []IInv` |
| `CountBounded` | `Spec => []TypeOK`: the count stays near 1 |
| `OneOpenerAlways` | `Spec => []OneOpener` |
| `OpenableAgain` | `Spec => []CanBeOpened` |

*Assumption*: `Procs` is finite. *The argument.* An open, and an open that fails,
leave the sum of the count, the processes that have the device open and those
that are being refused alone. It is 1 to begin with, and a release sets it to 1
plus those that are being refused, so it is exactly 1 until a release overtakes
one (`CountExact`), and from 1 to 1 plus the number of processes after that
(`SumBounds`). A count of 1 before an open then means that nobody has the device.

The same module proves, for `KoclStart`, any libraries and any number of
registrations:

| theorem | states |
|---|---|
| `StartImplementsOpen` | `StartSpec => Spec`: the composition implements `KoclOpen` |
| `StartIInvAlways` | `StartSpec => []StartIInv` |
| `AlwaysRebasedToOwn` | `StartSpec => []RebasedToOwn` |
| `ServiceAlwaysFound` | `StartSpec => []ServiceFound` |

*Assumption*: `StartAssumption`, that `Libs` is a sequence of libraries and the
model values are no names and no numbers. *The argument.* `RebasedToOwn` is about
two processes: the one whose memory the pool is in, and the one that reads.
`OwnPool` says that these are the same once the reader is past its registration:
both addresses of the pool come from its memory. That no other process registers
meanwhile is `OneOpener`, so the invariant of `KoclOpen` is a part of this one.
`BufferKept` says that a request that is queued or read has a buffer, and
`GivenOwn` states the property for the last read with the range of its address. `ServiceFound` rests on `Loaded`: what a helper that serves has in its
list is, name by name, what the libraries before `next` offer; that the first
with a name exists is that a non-empty set of numbers has a least element
(`LeastNumber`).

`KoclHelperProofs` proves, for any number of requests, services, devices and
queues:

| theorem | states |
|---|---|
| `KoclHelperProofs!IInvAlways` | `Spec => []IInv` |
| `QueuesAlwaysAccounted` | `Spec => []QueuesAccounted` |
| `ResultsAlwaysOwn` | `Spec => []ResultOwn` |

*Assumptions*: those of `KoclHelper`: there are command queues, and `MaxQueueNr`
of each. *The argument.* `Listed`: the lists have no element twice and no element
in common, so moving an item with `list_del` and `list_add_tail` keeps each request
in one place; `QueuesAccounted` adds that exactly the requests in lists behind the
allocation of a queue have one, each its own (`Queued`). `ResultOwn` is about
requests that share a kernel object: `clSetKernelArg` for a second one before the
launch of the first would make the launch compute the second twice. No line of
the code forbids that. It does not happen because the launch pass comes before
the prepare pass, and each ends after one success, so that at most one request is
in `prepared`, and none when the prepare pass begins (`Loaded`).

`EcryptfsDataProofs` proves, about one encryption, for any length, any size of pages
and blocks and any number of parts:

| theorem | states |
|---|---|
| `EcryptfsDataProofs!IInvAlways` | `Spec => []IInv` |
| `DataAlwaysWhole` | `Spec => []WholeData` |

*Assumption*: `SizesAssumption`: sizes are positive, lengths and pages are whole
blocks. *The argument.* The scatterlist walk of a part begins at the first page
that starts at its offset or later, so a part takes no byte before its offset and
none behind its end, and two parts share none, even where parts are not whole
pages and leave gaps (finding 1). When parts are whole pages, each offset is the
begin of a page and the walk takes every byte from there, so parts cover the data
(lemmas about `\div` and `%`, `PartBounds`, `InPart`). `Answered` then says that a
byte was written as often as there are answered parts that contain it, and that
the caller, waiting for one part after the other, is behind parts that have all
been answered; a signal ends that.

The same module proves, about the GPU file I/O, for any processes, any number and size
of pages, and any offsets and sizes of reads and writes:

| theorem | states |
|---|---|
| `FileIInvAlways` | `FileSpec => []FileIInv` |
| `PagesAlwaysStored` | `FileSpec => []PagesStored` |
| `ReadsAlwaysMatch` | `FileSpec => []ReadMatches` |

*Assumption*: `FileAssumption`: pages have bytes, and calls are of one byte at least.
*The argument.* `FileIInv` holds up to the first call that fails (`failed`). `Shapes` says
which pages a call has at each place of its loops and how far its position can be from
their number: a write that begins with zeros has a page in its array twice when the data
begin in the page the zeros end in. It makes `Touched`, the pages a call is on, the same
set in every step. `Notes`: pages that two calls are on at a time, one of them a write,
are `shared`; of these, and of the `spoiled` ones, nothing is said. `Stored` is then that
a page which no write is on is on the lower file as last written, encrypted once, and
`CacheHolds` that a cached page which no call is half-way through (`Halfway`) has the
same bytes, decrypted: this is what a write of a part of a page builds on. `WriteKnown`
and `ReadKnown` carry a call's own pages from step to step. For a write, `Right` says of
each byte of a page, by its place before, in or behind what the call has filled, what it
is; a turn at the start of a page zeroes the rest, so behind the end of the write only
bytes that are none of the file's are right, unless the turn spoils the page. For a read:
loaded with one layer, decrypted, copied up to `pos`. What is in the cache may be
reclaimed or replaced between two steps, unless the call has the page locked or, in a
write, keeps it (`Locks`). That the count of pages leaves none out which `spoiled` does
not name takes arithmetic (`CountWithin`, `CountsAgree`), and so does reading back: a copy
ends at a page's end or at the call's, so the bytes got are those from `off` to `pos`
(lemmas on `PageOf` and `%`).

It proves, about the page cache of 4.7, for any pages and number of calls:

| theorem | states |
|---|---|
| `SizeAlwaysStored` | `PagesSpec => []SizeStored` |
| `PagesInvAlways` | `PagesSpec => []PagesInv` |
| `FileAlwaysHeld` | `PagesSpec => []HoldsFile` |

*Assumption*: `EcryptfsPagesAssumption`: pages have bytes, a write stays in one page of
the file, as the kernel's `generic_perform_write` calls `write_begin`, and truncations
are to sizes within the bound. *The argument for the size.* Every step leaves inode size,
header and `sizeLost` alone, or ends with `StoreSize`, which sets the header or notes that
it could not (`SizeKnown`, `SizeStepKeeps`). *For the bytes.* `HoldsFile` speaks of pages
nobody works on; the steps between need, for each byte, what its four copies are: in the
page (`Cache`), in the lower file (`Below`), in what the running call is about to store
(`OpByte`) and in what write-back has encrypted (`BackByte`). `PagesInv` says of each copy
when it is as `Due`: what was written last, or zero behind the end of the file. The page
has it when up to date; the lower file has it when the page is `Clean`, unless the call has
copied or zeroed bytes it has not stored (`Pending`); the other two have it until the page
is dirtied again. That the rest of the last page is zero is what lets a file grow into it.
Growth needs more: `ecryptfs_write` fills from the old end up to `pos` before the size
changes, in bytes that no `want` covers yet, so `FilledKnown` says that these are zero in
all four copies, which is false of a page whose write-back came between the encryption and
the store (`raced`). `PagesPlaces` says where each call is, that a write holds its page
against write-back, and that growth ends at the page it was for. Each action then keeps
what is known of one byte (`ByteKnown`), by the place of the byte: in the page worked on,
in another, before or behind the end; lemmas on `Index`, `Start` and `%` tell which.

It proves, about read-ahead, for any tasks, pages of memory and indices:

| theorem | states |
|---|---|
| `ReadaheadIInvAlways` | `ReadaheadSpec => []ReadaheadIInv` |
| `ReadsAheadCorrectly` | `ReadaheadSpec => []ReadAheadCorrect` |

*Assumption*: `ReadaheadAssumption`: indices are numbers, and `Nothing` is neither an
index nor a page. *The argument.* The pages of a call are its own, each in one of its two
lists and none in another call's (`OwnPages`, `OthersPages`), and cache and pages agree on
where a page is (`InPlace`). So a page that is locked is one that a call still has, and
nobody else sets its contents. `ReadPages` is what makes the contents right although the
lower reads, the request and the end are separate steps: the pages of a call between
them are in the cache, locked and not up to date, so no store reaches them and no
write-back changes what is stored at their index. `Newest` then says that what is not
dirty is stored and what is up to date is newest, up to pages whose lower read failed.

`KoclDevProofs` proves, for any sets of callers,
requests and call data and any numbers of signals and deaths of the helper:

| theorem | states |
|---|---|
| `KoclDevProofs!IInvAlways` | `Spec => []IInv` |
| `RequestsInOnePlace` | `Spec => []OnePlace` |
| `CallbacksAlwaysSafe` | `Spec => []CallbacksSafe`: flags and completions, not the wake-up after a flag |
| `HelperNeverAborted` | `Spec => []HelperNotAborted` |
| `ImplementsOffload` | `Spec => Offload!Safety`, if `MaxSignals = 0` |

*Assumptions*: those of `KoclDev` on its constants: `Null` is none of the
objects, callers are not call data, the bounds are naturals. No set need be
finite, and freed call data may be intact or not. *The argument.* `HelperNotAborted` rests on `Awaited` alone: what the
helper is still to answer is in `rtdreqs` at least as often; signals and restarts
do not disturb it. The others hold until a signal ends a wait, and so does the
part of the invariant they rest on (`Own`). `Placed` says that a request is in
one place when its caller is owed an answer and in none otherwise. That a
callback then finds the right caller takes `Held` (a request has one owner, and
one that a callback is about to free has none), `SyncOwn` (call data of waiting
callers are theirs alone, and the request's `kdata` and `callback` name them:
here slab objects that are reused would show), and `AsyncOwn`. The first lemmas
count the pointers to a request in a list when one is appended, taken from the
head, or found and removed. For the refinement, `Elsewhere` says that what the
driver has in its hands is not in `rtdreqs`: a read or a write of the helper
therefore never changes whether a call is lost. Only a restart does, and it maps
to `Lose`; `enqueue` maps to `Submit`, a callback's first statement to `Answer`,
a wake-up to `Finish`, and everything else to a stutter. The fairness half of
`Offload!Spec` is checked in `dev_offload`.

`EcryptfsMessagingProofs` proves, for any tasks, contexts, and numbers of
requests and daemons:

| theorem | states |
|---|---|
| `EcryptfsMessagingProofs!IInvAlways` | `Spec => []IInv` |
| `ContextsAlwaysAccounted` | `Spec => []ContextsAccounted` |
| `NeverAnothersAnswer` | `Spec => []NotAnothers`: a task's message is the answer to its own request, or empty |
| `FullInvAlways` | `Spec => []FullInv` |
| `NeverPoisoned` | `Spec => []NoOops` |
| `AlwaysOwnResponse` | `Spec => []OwnResponse` |

*Assumption*: `MessagingAssumption`, that `None`, `OutQueue` and `Poison` are no
contexts and differ, and `None` is no task. *The argument.* Up to the death of a daemon with an unread
request of a waiting task (`dropped`), what a task holds was not lost and has the
number of its request (`HeldOwn`), and a message carries its context's number
(`Numbered`): a late answer is told apart by that number. Nothing is said of the
out queue but that its pointers are pointers (`Pointed`), so these theorems hold
when a race has broken the queue. `NoOops` and `OwnResponse`, that a task gets an
*answer*, do need the queue. `Listed` says that the pointers are those of the list
of some sequence of different contexts (`Represents`), until a sender races a
removal or queues a context a second time: adding at the end and taking from the
front keep it so, the pointers in question being those of at most three elements
(`AppendQueue`, `TailQueue`). A context that is being sent has no message that a
daemon has read, so nothing answers it yet (`Unread`); what was read under its
present number is not in the queue any more (`ReadOnce`); and one that is
answered is not in the queue either, so that no read and no end of a daemon
touches its answer until its task takes it (`AnswerKept`).

`EcryptfsFormatsProofs` proves, about names, for any directories, names and inodes
and any number of operations:

| theorem | states |
|---|---|
| `DirsIInvAlways` | `DirsSpec => []DirsIInv` |
| `NamesAlwaysAgree` | `DirsSpec => []NamesAgree` |
| `ListingsAlwaysComplete` | `DirsSpec => []ListingComplete` |

*Assumption*: `DirsAssumption`: `Absent` is no inode, number or cached entry, and
directories have a number of slots. *The argument.* `NamesAgree` is nearly
inductive: an operation changes one or two entries and inodes and leaves every
other one alone (`NamesChange` and the lemmas before it say so once for all
operations). What it lacks is that an inode which a cached name or a running copy
of attributes stands for is one that eCryptfs has (`Kept`), in use or bad: without it an
eviction could take the inode that a copy then shows the links of, and a relinked inode
could be unknown. `ListingComplete` needs what the reader has been given so far:
all the names that were there from the beginning and lie before its position,
and nothing behind it (`Listing`). A call that fills the caller's buffer moves the
position to the greatest name it gave (`Maximum`), so the next call gives none
twice; a name that goes while the directory is read leaves `must`.

The same module proves, about ciphers, for any mounts, tasks, tokens, transforms
and sizes of extents:

| theorem | states |
|---|---|
| `CiphersIInvAlways` | `CiphersSpec => []CiphersIInv` |
| `KeysAlwaysOwn` | `CiphersSpec => []KeysOwn` |
| `ExtentsAlwaysReadBack` | `CiphersSpec => []ExtentsReadBack` |
| `SomeoneAlwaysRuns` | `CiphersSpec => []SomeoneRuns` |

*Assumption*: `CiphersAssumption`: `None` is no user, pages are numbers, and a page
has at least one extent. *The argument.* For each task the invariant says what it
relies on in what others can change (`SharedBy` for the shared transforms, `IoBy`
for a file): where it is in its operation tells exactly which mutexes it holds, and
the other way round. So no two tasks are between `setkey` and the last block of one
transform, which is `KeysOwn`; and since the list's mutex is held from the search
to the addition, there is one transform for each name (`OneEach`). What is on the
lower file is `Sealed`: encrypted under the file's key and the vector of its
extent, unless a key's root vector could not be computed (`warned`). That extents of
different pages have different vectors is a fact about numbers, `p * n + d`
(`ExtentNumbers`). `SomeoneRuns` orders what tasks wait for: one that waits for a
token waits for a task that shares transforms, and one that waits for the list, for
a transform or for the inode waits for a task that runs.

It proves, about loading and mounting, for any daemons, any finite set of mounts and any
options:

| theorem | states |
|---|---|
| `MountIInvAlways` | `MountSpec => []MountIInv` |
| `UsedAlwaysStays` | `MountSpec => []UsedStays` |
| `NothingEverLeaks` | `MountSpec => []NothingLeaks` |

*Assumption*: `MountAssumption`, that there are finitely many mounts, so that what they
hold can be counted. *The argument.* While `ecryptfs_init` runs, what is set up is
a prefix of its steps (`Before(n)`), and a mount is there only after the last, a
daemon only after the sixth. When it fails, or the module is unloaded, the list of
what is left to take down covers what is set up, up to the daemon hash of a failure
in the contexts (`Going`, `UnwindingCovers`, one case per label of the code); it
ends with the caches, so what RCU frees late finds them. That nothing is taken down
under a mount holds because a mount excludes `unload`, and the failing steps come
before the file system is registered. `Fit` says what a mount holds at each stage
and on each way out; with it, a key is put by the superblock or by the error path
of `ecryptfs_mount` but not by both, and the number of references is the number of
the mounts' uses (`RefsAdded`, `RefsDropped` count them).

`EcryptfsOpenProofs` proves, about the keys of a mount and the life of a file, for any
tasks, keys, mounts, lower files and number of calls:

| theorem | states |
|---|---|
| `OpenIInvAlways` | `Spec => []OpenIInv` |
| `AllAlwaysReturned` | `Spec => []AllReturned` |
| `KeyAlwaysStored` | `Spec => []KeyStored` |
| `SizeAlwaysKept` | `Spec => []SizeKept` |

*Assumptions*: `KeysAssumption`: a token is a passphrase or a private key, and `None`
is no task. `OpenAssumption`: a mount has a signature, as `ecryptfs_parse_options` asks,
and names each once, which no code asks: the model has one entry for each key. A lower
file has its metadata in its contents or in its xattr and not in both, and none that
give a size when it is empty, which is what eCryptfs itself leaves. *The argument.* Three
invariants are stacked. `Control` says which call can be where, and that where a task
is tells which of `cs_mutex` and `lower_file_mutex` it holds, and the other way round;
who mounts or makes the inode known is alone. With it `LowerCounted` says that
`lower_file_count` is the number of uses that places account for: a step moves one
task and changes its uses by at most one (`CountedPut`, `CountedOn`). `KeysHeld` counts
references. Tasks may work with the same key at a time, each in any phase, but a step
changes the phase of one task and what becomes of one key, so that reference, list and
use change together (`WorksOnKeeps`, `StepsTo`): a key has one reference, one more while
the list has it, and one for each task between its search and its put.

`KeyInv` is what `KeyStored` needs. `OneMeta`: the lower file's metadata are in one place
still, and `Flagged`: once others know the inode, the flag for the xattr is set if they
are there, so that `Stored` is where the key is written and where it is read. `Free(t)` is
what a task relies on that no other can take away, `Kept(t)` what it relies on because
it holds `cs_mutex`; one lemma (`OthersKeep`) shows that a step that respects both
(`Calm`) leaves every other task what it relies on, and one lemma per group of actions
that its steps do. `KeyGiven` says that a valid key is the stored one unless a task is
about to store it or is reading for `setattr`; an opened file excludes those, except on a
mount that passes plain files through. It is false for a reading that fails after
another had set `KEY_VALID`, which takes four calls; the proof found the case, `setattr_end`
marks it (`stray`), and `ecryptfs_open` has calls enough for it.

`SizeInv`, on top of both, is what `SizeKept` needs: no lock is common to the lookup that
sets the inode's size (`i_size_init`) and the write that stores it, so what holds must
hold in the middle of either. Until one overtook another (`stale`), the stored size is
never above the inode's once the inode is known to others, and a size that a lookup has
read and not yet set is never above the stored one (`SizeEqual`, `SizeAt`): sizes only
grow. They are equal when they are `Due` to be: no write is between the two
(`Writing`), and the inode's size was set or the next reading of the metadata will set
it (`Fixed`). `Misled` is the exception: metadata in the contents of a file that a mount
with the option for the xattr marks as having them there; then a write would store the
size in the wrong place, until the reading of the metadata clears the flag. That reading
is under `cs_mutex`, and a file that is used without a key is one which a call is
reading (`Plain`): a plain file that is passed through while another open tries its
metadata. `Empty` says that a lower file with nothing in it gives no size.

*Model-checked only*: `ShownRemounts`, `HeaderReadBack` and `NamesSurvive`, which say
what is computed from option lists, packets and names of any length, by recursion and
folds, and would need induction over them; and all liveness, which is out of the
prover's reach, as is `ENABLED`.

## 6. Not modelled, and why

* Data: the contents of requests and buffers, AES and jhash arithmetic, the
  OpenCL platform discovery. The properties do not depend on them.
* `kocl_next_request_id`'s wrap-around (ids repeat after 2^31 slab
  constructions), the response's `errcode`, `kocl_free` by an address inside a
  buffer, which `main.c:342` allows and no client does.
* `get_user_pages` that pins some but not all pages; pages' reference counts.
* What a wake-up on freed call data (`main.c:138`) does to other memory: `KoclDev`
  stops there (`oops = "wake"`).
* A signal that ends an asynchronous caller's wait: in `GaesEcb`, not in
  `KoclDev`, where asynchronous callers wait to the end.
* Helper death inside a system call. Unregistering and unloading of services,
  which no code calls.
* GAES: key set-up, the generic-cipher fallback, template registration. The
  test callers and jhash: benchmarks of the same pattern.
* eCryptfs, GPU I/O: I/O errors of the lower file and of copies from and to user
  space, which `ecryptfs_write2` and `ecryptfs_read2` ignore; what a write behind
  the end of `pgs` (`read_write.c:310`, when there are more turns than the count)
  does to other memory; files that are not encrypted, for which
  `pgs` is NULL (`read_write.c:473`).
* eCryptfs, messaging: the lists of free and allocated contexts are the contexts'
  states. `ecryptfs_exorcise_daemon` moves contexts from one to the other without
  `ecryptfs_msg_ctx_lists_mux` (`messaging.c:189`), so the pointers of these two
  lists can be broken by a concurrent move; in the model each move is one step.
* eCryptfs, names: a rename between two names of one lower inode of which one
  stands on a bad inode, and a lookup that waits for ever for the new inode that
  another left locked when it made it bad (`inode.c:364-369` without
  `unlock_new_inode`); in the model the next lookup gets a new inode.
* eCryptfs: encrypted views; metadata read for `stat`; the octets of messages to
  and from the daemon, and `poll` on its device; permission checks and the
  contents of extended attributes, which are passed through; sysfs and `statfs`.
* `crypto_blk.c`, an older copy of `crypto.c` that the Makefile does not compile.

## 7. Plan

1. `KoclSystem`: `KoclDev` with `KoclHelper` as its helper, showing that the
   fairness `KoclDev` assumes is what the main loop provides.
2. Plain files in `EcryptfsFile`; encrypted views in `EcryptfsOpen` and
   `EcryptfsPages`.
3. Proofs: refinement of `KoclOffload` with signals, which `ImplementsOffload` leaves out.
