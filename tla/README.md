# A TLA+ verification of the Coda kernel extension for Darwin

DarwinCoda is the kernel half of the Coda file system for Mac OS X. It is a
kernel extension in C; the user-level half is *Venus*, the cache manager, which
is not part of the repository. The extension turns the operations of the vnode
layer into *upcalls* to Venus over a character device, caches what Venus has
answered, and takes *downcalls* from Venus that invalidate those caches.

All line numbers below are those of `src/sys/darwin-7.3/coda/`.
`src/sys/darwin-8.6/coda/` is a port in progress of the same files to the
kernel interfaces of Darwin 8, "yet untested" (`src/www/index.html:84`); the models
are of 7.3 but for `CodaTiger`, which is of the port (Darwin 8 is Mac OS X "Tiger").

Contents: [the system](#1-the-system), [the models](#2-the-models),
[the runs](#3-the-runs), [the proofs](#4-the-proofs),
[what is only checked and what is not modelled](#5-limits),
[disagreements found](#6-disagreements-between-the-code-and-its-comments),
[the plan](#7-plan).

## 1. The system

### 1.1 Scheduling

Everything the extension does runs under the *kernel funnel* of Darwin 7: one
thread at a time, and a thread loses the funnel exactly where it sleeps. So
there are no data races; the interleavings are those of the stretches from one
sleep to the next, and this is the grain of every model here: **an action is
what a thread does between two sleeps.** (The port runs under the same funnel.) The places to sleep are `tsleep` in
`coda_call` and in `vc_nb_close`, the allocation of a vnode (`getnewvnode`) and
of its memory object (`ubc_info_init`), operations on container files
(`VFS_VGET`, `VOP_OPEN`, `VOP_READ`, ...), and vnode locks. Allocations with
`M_NOWAIT` do not sleep.

### 1.2 Components

| component | files | state | operations |
|---|---|---|---|
| upcall channel | `coda_psdev.c` | per device (`struct vcomm`): `vc_requests`, `vc_replys`, `vc_seq`; per caller: a `struct vmsg`; one `outstanding_upcalls` for all devices | `vc_nb_open`, `vc_nb_close`, `vc_nb_read`, `vc_nb_write`, `vc_nb_ioctl`, `vc_nb_select`, `coda_call` |
| name cache | `coda_namecache.c` | `coda_nc_heap`, the hash chains `coda_nc_hash[]`, the LRU list, `coda_nc_use` | `coda_nc_enter`, `lookup`, `zapfile`, `zapfid`, `zapParentfid`, `zapvnode`, `purge_user`, `flush`, `resize`, `init` |
| cnode table and downcalls | `coda_subr.c`, `make_coda_node`, `coda_inactive`, `coda_reclaim` | `coda_cache[]` chains, `coda_freelist`; per cnode: `c_fid`, `c_flags`, the vnode and its use count | `coda_alloc`, `free`, `save`, `unsave`, `find`, `kill`, `unmounting`, `flush`, `testflush`; `handleDownCall` with FLUSH, PURGEUSER, ZAPDIR, ZAPFILE, PURGEFID, REPLACE |
| containers | `coda_vnops.c` | per cnode: `c_ovp`, `c_ocount`, `c_owrite`, `c_device`/`c_inode`, `c_vattr` | `coda_open`, `close`, `read`/`write` (`coda_rdwr`), `pagein`, `readdir`, `getattr`, `setattr`, `fsync`, `bmap`, `advlock` |
| lookup and coherence | `coda_vnops.c` | `c_symlink`; the name cache and the cnode table | `coda_lookup`, `_coda_get_cnode`, `coda_access`, `coda_readlink` |
| directory operations | `coda_vnops.c` | locks, references, name cache, `c_vattr` | `coda_create`, `remove`, `link`, `rename`, `mkdir`, `rmdir`, `symlink` |
| vnode locks | `coda_vnops.c` | `c_lock` | `coda_lock`, `unlock`, `islocked`, `coda_assure_lock` |
| file system operations | `coda_vfsops.c` | `coda_mnttbl[]`: `mi_vfsp`, `mi_rootvp`, `mi_started`; `coda_ctlvp`; `coda_instances` | `coda_mount`, `unmount`, `root`, `start`, `statfs`, `sync`, `vget`, `fhtovp` |
| control object and pioctl | `coda_vnops.c` | the vnode of `CTL_FID` | `coda_ioctl` |
| marshalling | `coda_venus.c` | the buffer of one call | `venus_root` ... `venus_fhtovp` |
| extension start and stop | `darwin_coda.c` | registration of file system and device | `darwin_coda_start`, `darwin_coda_stop` |
| others | `coda_attrlist.c`, `coda_fbsd.c`, `coda_opstats.h`, the glue headers | none that matters | |

### 1.3 Interactions

- *Up*: a vnode operation calls a `venus_*` function, which builds a message
  and calls `coda_call`. That queues the message, wakes `select`ors and sleeps
  uninterruptibly. Venus reads the message (`vc_requests` to `vc_replys`) and
  writes a reply; `vc_nb_write` finds the message by its `vm_unique` and wakes
  the caller.
- *Down*: a write with the opcode of a downcall is not a reply; it goes to
  `handleDownCall`, synchronously, on the thread of Venus. It changes the name
  cache and the cnodes.
- *Death of Venus*: `vc_nb_close` wakes all callers, waits for them with a
  counter, and unmounts the file system by force (`dounmount`), which reclaims
  every vnode under whoever still has it.
- *Sharing*: cnodes are referenced by the vnode layer and by the name cache;
  containers are vnodes of the local file system which Venus names by device
  and inode.

### 1.4 What is hard, and what makes each component correct

`PROJECT.json` lists the hazards, each at its line and with the properties that
catch it. In short:

- *Upcall channel.* Restart of Venus with old callers inside; late, duplicate
  and misdirected replies; a close that waits for a counter others keep; error
  paths between taking a message off its queue and waking its owner. Correct
  means: a caller gets the answer to its own call or an error because Venus
  went away; nobody sleeps for ever; a close ends.
- *Name cache.* An entry is on two lists and holds three references; entering,
  eviction, five kinds of removal and resizing must keep them in step. Correct
  means: it is a bounded LRU map, and references balance.
- *Cnode table.* One link field serves chains and freelist; making a cnode
  sleeps twice; a forced unmount frees cnodes under their users; a downcall may
  change the fid, which is the key. Correct means: one cnode per file in use,
  no list mixes with another, no cnode is freed under somebody. Attributes may be
  stored after Venus has invalidated them, so that none are stale cannot be promised.
- *Containers.* Opens lock the vnode and closes do not; Venus may replace the
  container between opens; a late failure leaves counts behind. Correct means:
  counts and references agree, nobody uses a container that was given back, and
  nobody reads old contents.
- *Lookup and directory operations.* Names and attributes enter the caches after a
  sleep and leave them before one; up to four vnodes, locked or not, have to be
  given back on every path; a lookup locks downwards, one of `..` upwards. Correct
  means: the caches agree with Venus, nobody keeps a lock or a reference, nobody
  waits in a circle.
- *Mounting, start and stop of the extension.* A mount borrows the record of its device;
  errors half-way leave it changed; a root is used after an upcall and a mount after
  the sleep of a close; the extension may be unloaded. Correct means: mounts are counted,
  nobody uses a root or a mount that is gone, what is closed is unmounted, and no thread is
  inside when the extension is unloaded (Venus may have the device open all the same).
- *Marshalling.* Request and reply share a buffer; lengths come from Venus; a buffer, a vnode
  and a lock are held over the upcall. Correct means: requests and replies fit their buffer, no caller
  takes its own request for a reply, all is given back, Venus is woken for every message. A pioctl breaks
  the first two: with a negative `in_size`, and with an `out_size` larger than the reply.
- *The port.* No vnode is locked over an upcall and a cached name does not hold its
  credential. Correct means: where operations do not overlap the caches agree with Venus and
  give nobody a right he has lost, and counts and references agree even where they do.

## 2. The models

    CodaRpc        abstract: a call is answered once, or Venus has died
      ^ implements
    CodaUpcall     coda_psdev.c              CodaUpcallProofs   theorems
    CodaLru        abstract: bounded LRU map
      ^ implements
    CodaNameCache  coda_namecache.c          CodaNameCacheProofs theorems
    CodaFiles      abstract: files in use, cached attributes
      ^ implements
    CodaCnode      coda_subr.c, make_coda_node, inactive, reclaim, mount, unmount
                                             CodaCnodeProofs    theorems
    CodaFile       open, close, read, write, page-in, attributes of one file
                                             CodaFileProofs     theorems
    CodaNames      lookup, create, remove, link, rename, mkdir, rmdir, symlink
                                             CodaNamesProofs    theorems
    CodaMount      coda_vfsops.c, open and close of the device, darwin_coda.c
                                             CodaMountProofs    theorems
    CodaVenus      coda_venus.c, readlink, ioctl, the bytes of read and write
                                             CodaVenusProofs    theorems
    CodaTiger      the port to Darwin 8      CodaTigerProofs    theorems

Each `MCx.tla` extends its module for TLC with values of the constants and
symmetry sets. `PROJECT.json` maps every definition to its lines.

Several constants named `Env` (in `CodaCnode`, `Sleeps` too) list the
*misfortunes* the environment is allowed. With an empty `Env` a model is the
code in fair weather; each member adds the interleavings or failures of one
cause. This keeps two things apart: what holds always, and what holds as long
as a named thing does not happen. Where a property fails under a misfortune this
is said here, in the module, and in the hazard's note.

### 2.1 CodaUpcall

State as in the code: `open` is `VC_OPEN`, `requests` and `replys` are the two
queues (sequences of messages), `vc_seq` is per device, `vmsg[c]` holds the
flags `VM_READ` and `VM_WRITE` and the result, `outstanding_upcalls` is shared by
all devices, `closer[d]` says where the thread in `vc_nb_close` is. `ret` and
`written` are history. `chain` remembers the `vm_chain` a message has after it
was taken off its queue, since some error paths `REMQUE` it again: this is
harmless when its neighbours are still neighbours, and otherwise `corrupt`
becomes true and the behaviour ends (the memory is damaged; nothing said after
that would mean anything).

| action | code |
|---|---|
| `VcOpen` | `vc_nb_open` |
| `VcRead` | `vc_nb_read` (a failed copy out moves the message all the same) |
| `VcWrite`, `VcWriteTooLong`, `VcWriteFault` | `vc_nb_write` of a reply: accepted, larger than the caller's buffer, copy fault |
| `CallStart`, `CallRefused` | `coda_call` up to `tsleep` |
| `CallAnswered`, `CallInterrupted`, `CallSignalled`, `CallOrphaned` | `coda_call` from `tsleep` on, by the state of device and message |
| `VcCloseBare`, `VcClose`, `VcCloseUnmount` | `vc_nb_close` without a mount; up to `tsleep`; from there on |
| `Mount` | `coda_mount` as far as the device sees it |

Misfortunes: `oversize`, `copyfault`, `nomem`, `reopen` (Venus opens the device
while the close of its predecessor or its callers have not finished).

`ImplementsRpc` maps the model to `CodaRpc`: a caller's phase is `sent` while its
message is on `requests`, `taken` on `replys`, `answered` with `VM_WRITE`,
`orphaned` once the device is closed. CodaRpc's fairness is implied too.

### 2.2 CodaNameCache

The heap is a function from slots to entries, the LRU list a function from places to slots
with the newest first and the next victim last, each hash chain a set (the order of a chain decides
how long a search takes, not what it finds). `refs` and `crefs` are the
references the cache has on vnodes and credentials. No operation sleeps, so each
function is one action; `vrele` inside one cannot reach an upcall because
`venus_fsync` is switched off in the source. `lost` and `clost` count the
references of entries that `coda_nc_resize` throws away (see section 6); removed entries may end
up in any order behind the others (`LruVictims`).
`ImplementsLru` maps the entries in those places of the LRU list whose entry is valid to the entries of
`CodaLru`, newest first; that these places are the first ones is part of what is shown.

### 2.3 CodaCnode

The chains and the freelist are modelled **with their pointers** (`links`), since
both go through the one field `c_next` and the question is whether they mix. What is
on a list is the least set of cnodes that its pointers do not lead out of (`Members`), and the list ends
if one of them points nowhere (`Terminates`).
`coda_unsave` searches the bucket of the current fid, as in the code.
`make_coda_node` is `Make` up to `getnewvnode`, `NewVnode` up to
`ubc_info_init`, and `Save`; `Sleeps` says which of the two give up the funnel.
`vnode[c]` says whether the vnode is on the list of the mount (and reclaimed by
`vflush`), on none (the control object, because of the workaround at
`coda_vfsops.c:239`) or gone. Users take and release files, get attributes
(`coda_getattr` with its sleep in the middle), and the device may be closed and
the file system unmounted by force at any time and mounted again. `vflush` reclaims
one vnode after the other (`Vflush`), in any order; nobody runs in between.

The answer to a getattr is acted on at any time, after later downcalls too. One misfortune: `late` (the
file system goes away while one of its cnodes is being made).

The refinement to `CodaFiles` maps a fid to the sum of the use counts of its live
cnodes and to whether one of them has attributes.

### 2.4 CodaFile

One regular file or directory, several threads. `cnode` is the record of
`c_ovp`, `c_ocount`, `c_owrite`, `c_inode`, `c_vattr` and `C_UNMOUNTING`;
`refs` and `opens` are what the extension has on each container; `venus` is the
container Venus uses and how often it believes it open; `data` is the version of
the contents in each container, so that old contents can be told from new.
`coda_open` holds the lock through its upcall and its `VFS_VGET`; `coda_close`
and `coda_getattr` do not, as in the code (their
sleeps are points where everything else may happen). `coda_rdwr` without
an open container opens the file internally and closes it again, or, with a
device and inode kept from an earlier open, looks the container up by itself,
and leaves that reference behind: `grabbed` counts those.

Misfortunes: `slow` (the answer to a getattr or setattr is acted on late),
`shared` (a page-in or an exec uses the open container without having the file
open), `failing` (Venus or the container's file system returns errors),
`interrupt` (a signal ends an upcall), `replaced` (Venus changes the container of
a closed file), `unmount`.

### 2.5 CodaNames

Several threads, a tree of directories at Venus (`tree`), and what the extension
has of it: the name cache as a set of entries (what `CodaNameCache` is shown to be,
for one user, with any entry the one to make room), for every node the lock, the
references threads have, and how far its cached attributes are off (`attr`: 1 for a
directory that changed since, the error of the link count for a file). The
vnode layer is external: `Start`, `Second` and `StartLink` begin the last lookup
of a path with the directory locked, `Unsuitable` and `Return` are the checks it
makes before it calls an operation, `Release` the end of a walk.

A thread goes from `lookup` (asleep in `venus_lookup`) by `found` (answered) to `child`
(waiting for the lock of the node) or `relock` (for that of the directory of a `..`), then
`has`: it runs on, without sleeping, into the operation. `asked` is its upcall,
`done` and `refused` are answers, `hold` is a node that is still locked after the call.
While a thread has `has`, nobody else moves: this is the funnel.

| action | code |
|---|---|
| `Start`, `Second`, `LookupAnswer`, `LookupFails`, `Found`, `NotFound`, `Locked` | `coda_lookup`, `_coda_get_cnode`, cut at the upcall and at `vn_lock` |
| `coda_create`, `coda_mkdir` (and symlink), `coda_link`, `coda_remove`, `coda_rmdir`, `coda_rename` | the operations up to their upcall: what they forget, what they refuse |
| `MadeDone`, `SymlinkDone`, `LinkDone`, `RemoveDone`, `Refused` | from the upcall on: what they enter, invalidate and give back |
| `VenusDoes`, `VenusRefuses`, `Interrupted` | Venus and the outcome of the upcall |
| `Elsewhere`, `Purge`, `coda_getattr` | ZAPDIR after a change by another client, FLUSH and PURGEUSER, attributes fetched |

Misfortunes: `late` (a downcall overtakes an answer), `across` (renames from one
directory to another), `overlap` (attributes of a directory are fetched during a
remove, rmdir or rename in it), `failing` (Venus refuses to remove a file),
`interrupted` (Venus does what a caller no longer waits for), `control` (a rename
or a link of the control object).

### 2.6 CodaMount

Devices with their entries of `coda_mnttbl` (`mi`: `mi_vfsp`, `mi_rootvp`, `mi_started`),
mounts on their way through `coda_mount` (`mnt`), the root cnode made for each (`node`), and
one thread per mount in `coda_root` or `coda_fhtovp` (`call`). A root is named by the mount it
was made for, since that is its `v_mount`; its fid is `zero` until Venus has been asked, so a
second mount may find the root of the first (`MakeRoot`). `closer` has the devices whose
`vc_nb_close` sleeps; callers thrown out by it count it down (`Counted`).

| action | code |
|---|---|
| `darwin_coda_start`, `StartRefused`, `StartNoDevice`, `darwin_coda_stop`, `StopRefused` | loading with its two failures, unloading and its failure |
| `coda_mount`, `MakeRoot`, `MountDone`, `MountFails`, `coda_start` | `coda_mount` up to the first cnode, that cnode, the rest; no memory; `coda_start` |
| `coda_root`, `RootAnswered`, `RootThrown` | `coda_root` up to its upcall; after an answer; after `ENODEV` or a signal |
| `coda_fhtovp`, `FhtovpAnswered`, `CallFails` | the same for `coda_fhtovp`; errors handed on |
| `VenusAnswers`, `Interrupted` | the outcome of the upcall |
| `Umount` | `umount(8)`: `dounmount`, `coda_unmount` |
| `vc_nb_open`, `CloseBare`, `CloseSleeps`, `vc_nb_close`, `CloseUnmounts` | the device: open; close without a mount; up to its sleep; without one; from there on |

`dounmount` on a mount that is not there, and a root that is null, set `panic`, and the
behaviour ends. A thread in `coda_mount` runs on (`Half`) unless `sleep` is allowed.

Misfortunes: `sleep` (making a vnode sleeps in the middle of a mount), `nomem`, `second` (a device is mounted
twice), `reopen` (Venus is restarted while the close of the old one sleeps), `umount`
(somebody unmounts during that sleep), `late` (an answer is acted on after the close),
`load` (loading, or taking the file system type back, fails).

### 2.7 CodaVenus

Each `venus_*` function is an operator that gives the message it makes: how big the buffer
is, how much of it the request takes (`pieces`: where every part was put), how long a
reply may be (`osize`), and how long the structure of the reply is (`out`). Sizes are in
bytes, computed from the structures of `coda.h` with the sizes of machine-dependent types as
constants. The two sizes of a pioctl are signed and 16 bits wide: `coda_ioctl` compares `in_size` as it is, and
`copyin` and `copyout` take it as a `size_t` (`Unsigned`; `SizeT` is 2^30 in the runs, as TLC's integers have 32
bits, and any number from 2^17 up in the proofs). `copying` has the callers in that `copyin`, which ends with the data in the
message (`CopiedIn`), or without (`CopyFails`; always, when `in_size` is negative).

A `reply` is its length (`sent`), its error, and the count and place of the data it says it has; `Refused` when it was
too long. `Uses` is how far a caller reads, by what the reply says of itself; `CopiesOut` how far the `copyout`
of `venus_ioctl` reads, which goes by `out_size`. `unread` is a history of which of the two has been further
than what Venus wrote. `requests`, `replys`, `open` and `venus` are the device as far as `select` and a close need
it (`vc_nb_select`, `vc_nb_read`, `vc_nb_write`, `vc_nb_close`, `vc_nb_open`). `held`
and `leaked` are buffers and vnodes, `owner` the lock of the one symlink. `Ask` is any
operation that holds nothing but its buffer; `coda_readlink` and `coda_ioctl` hold more.

Misfortunes: `short` (replies shorter than the structure although there was no error), `long` (replies
longer than asked for), `wild` (a reply says that it has more data than Venus has sent), `nomem` (none for the path of a
symlink), `toomuch` (a pioctl with more data than `VC_MAXDATASIZE`).

### 2.8 CodaTiger

The vnode operations of the port with its name cache, downcalls and cached attributes. An
operation is one step up to its upcall (`Operation`, named as in the code) and one after it (`Found`,
`MadeDone`, `OpenDone`, ...), with Venus in between (`VenusDoes`, `VenusRefuses`). No vnode is locked, so
all of it overlaps; `raced` is the history of where it has. A cache entry
has a credential, credentials have owners and may get others (`CredReused`), and Venus knows
who may search which directory (`rights`). `known` are the nodes with a cnode, `paths` the
allocated paths of symlinks, `ocount`, `owrite`, `refs` and `opens` the counts of opens in
the cnode, the vnode and the kernel.

`CodaTiger` is about what the port has changed. It has all operations at once where
`CodaFile` and `CodaNames` have them one file or one directory at a time, but without the
containers, the locks and the references of lookups.

## 3. The runs

Run a module with `tlc -config <cfg> <module>`. All passing runs are exhaustive
within the bounds.

| run | bounds | distinct states | result |
|---|---|---|---|
| `upcall_calm` | 1 device, 3 callers, 3 calls, 2 results, no misfortune | 204,863 | safety, liveness and the refinement of CodaRpc hold |
| `upcall_misfortune` | as above, all four misfortunes, callers symmetric | 1,541,133 | replies match calls, calls are unique, signals are about unanswered calls |
| `namecache_calm` | 2 cnodes, 2 names and a long one, 2 users, 2 entries, 2 or 4 buckets | 153,758 | structure, references and the refinement of CodaLru hold |
| `namecache_leak` | the same | | `ResizeFreesCnodes` is violated |
| `cnode_calm` | 4 cnodes, 2 files, root and control object, 2 users and the mounter, 2 mounts; nothing sleeps in `make_coda_node` | 38,365 | lists, references and the refinement of CodaFiles hold |
| `file_calm` | 3 threads, 2 containers, 2 versions, 3 opens; `failing`, `interrupt`, `replaced`, `unmount`; file and directory | 520,776 | counts, references, contents and attributes agree |
| `file_directory` | a directory, 2 threads | | `ClosedIsReleased` is violated |
| `names_calm` | 2 threads, 3 directories and one nobody has made yet, 2 files, 2 names, 2 entries, 2 operations of every kind, no misfortune, threads symmetric | 3,789,708 | names, attributes and locks are right |
| `names_misfortune` | the same with 1 entry, no new directory, and without walk, mkdir, symlink and link; all misfortunes but `control` | 3,166,916 | locks and references are given back, no two threads wait for each other |
| `mount_calm` | 1 device, 3 mounts; `nomem`, `load` | 3,952 | mounts are counted, nothing gone is used, closes unmount, nobody is inside when the extension is unloaded |
| `venus_calm` | 2 callers, every upcall, names of 1 and 255 bytes, the longest path, `in_size` of -1, 0, `VC_MAXDATASIZE` and one more, `out_size` of -1, 8 and 32767; the device is closed and opened; `nomem`, `toomuch` | 912,144 | messages fit but for a negative `in_size`, replies are what is read but for the bytes up to `out_size`, all is given back, Venus is woken |
| `tiger_calm` | 2 threads, 2 users, 2 credentials, 3 directories, 2 files, 2 names, 2 entries; 2 operations or changes by others | 202,178 | caches and rights are right where nothing has overlapped, counts everywhere |

### Why the bounds are enough to be interesting

- Upcalls: three callers and three calls make a queue with a message before and
  after the one that is taken out, a caller on each queue while a third has been
  answered, and a close that has to count to more than one.
- Name cache: two slots for four and more possible entries make every
  enter an eviction sooner or later; names and directories are hashed so that some
  share a bucket, and resizing changes which.
- Cnodes: the control object shares a bucket with a file, so that the list
  that is not emptied by an unmount is one that is used again; two mounts make
  cnodes go through the freelist; two users make both race in `make_coda_node`.
  Four cnodes are enough for root, control object and two files, and not enough
  for two users' duplicates besides: `coda_alloc` then has to use the freelist.
- Files: three threads are one that opens, one that closes and one that does
  something else; two containers are before and after a replacement.
- Names: two operations at once are the interleavings; one after the other they show
  what the first has left behind. A file in a directory next to an empty one can be
  removed, linked, moved and replaced, and every directory removed but the root; two
  entries in the cache are fewer than the three one mkdir enters. Other clients
  make the third party; a directory not made yet is what mkdir makes. Deadlock is not checked: the operations are used up.
- Mounts: three are one that has failed, one that was undone and one that is made while traces
  of the others are left. One device, because two mounts on two devices may share a
  root, without which nothing here holds (section 6).
- Marshalling: the shortest and the longest name, path and data bound every length in
  between; the sizes are those of the 32-bit kernel.
- Port: two operations are enough to overlap. With three (2.5 million states for the
  directory operations, 1 million for the others) nothing else was found.

Bounds are named: `MaxOps`, `MaxCalls` (the sequence number of each device), `MaxLost`
(references left on a vnode by resizing), `MaxMounts`, `MaxVersion`, `MaxOpens`,
`MaxFailed`, `MaxGrabs`. Each is a guard of the actions that would count further.

### What the properties say

*CodaUpcall.* `RepliesMatch`: what `coda_call` returns is what Venus wrote as the
reply to this very call, and no call has two replies. `UniqueCalls`: two callers
never wait on one device with the same `vm_unique`, over restarts.
`SignalsUnanswered`: Venus is sent a signal only for a call no reply can be
accepted for. `RequestsInOrder`: calls reach Venus in the order they were made.
`NoLostCaller`: who sleeps has its message on a queue of an open device, where a reply or a close
finds it. `CloseFinishes`, `CallersGetOut`: a close
ends; a caller whose device is closed returns.

*CodaNameCache.* `ListsRight`: the valid entries are on the chain of
their own hash value, once, and in front of the invalid ones on the LRU list; chain lengths
are right. `RefsBalance`: references are those
of the valid entries. `ImplementsLru`.

*CodaCnode.* `ListsRight`: no list has a loop; chains have exactly the cnodes in
use, by their present fid, and the freelist exactly the others. `UseRight`:
references are those of the users, and who has a file has a cnode with a vnode. `ImplementsFiles`.

*CodaFile.* `RefsRight`, `CountsRight`: references and opens of a container,
`c_ocount`, `c_owrite` and the vnode's references are those of the threads that
have the file open.
`UsedIsHeld`: a container in use is referenced. `ReadsRight`: who has the file
open uses the contents Venus has, and `coda_open` never meets another container. `AttrRight`: cached attributes are those of
the contents.

*CodaNames.* `Coherent`: a name in the cache stands for what Venus says.
`AttrRight`: cached attributes of a directory are those of its last change, but for
an operation whose thread has not run yet, and a cached link count is not too
small between operations. `GivenBack`: who does nothing has no lock, and no references
remain when nobody does anything. `AssureRight`: the locks are as `ASSURE_LOCKED` and
`ASSURE_UNLOCKED` want them after a lookup and at the start of each operation.
`NoWaitCycle`: threads do not wait for each other's locks in a circle. `NewIsNew`: the
panic of `coda_create` and `coda_mkdir` for a file that exists is not met.

*CodaMount.* `InstancesRight`: `coda_instances` is the number of mounts. `NobodyInside`: without the
extension there is no mount, no thread in it and no close that sleeps; it does not say that the device is
closed, and it may be open (section 6). `NoPanic`: `coda_root` finds a root after its
upcall, `coda_fhtovp` a mount, and `dounmount` the mount `mi_vfsp` names. `ClosedUnmounts`: once a
device is closed nothing is mounted by way of it.

*CodaVenus.* `BuffersFit`: every part of a request and the longest reply lie in the buffer,
apart, with lengths that fit 16 bits; the one exception is a pioctl with a negative `in_size` while it is copied
in, and that one never reaches a queue. `ReadsReply`: nobody uses bytes of a reply Venus has not
written, but for the `copyout` of `out_size` bytes. `Released`: who has returned holds nothing, but for the two known leaks.
`VenusWoken`: Venus does not sleep in `select` while a message waits.

*CodaTiger.* `NamesRight`: a cached name stands for what Venus says, but in directories on which
operations have overlapped. `AttrRight`: the same for attributes; those of a file open for writing are
never cached. `GrantedRight`: nobody finds a name in a directory he may not search. `NewIsNew`: the panic for a file
that exists takes two operations at once. `OnePath`: of the path of a symlink there is one copy. `OpensRight`:
references are those of the opens counted, and no close finds a count too low.

Every property of a passing run has a mutant in `PROJECT.json`: a plausible bug
in a mapped definition for which TLC finds the property violated.

### Fairness

Only `upcall_calm` uses fairness: weak fairness of `CallReturn(c)` (a thread that was woken
runs) and of `VcCloseUnmount(d)` (so does the closing thread). Both are kernel
threads the scheduler runs once they are runnable, and once runnable they stay
so. Nothing is asked of Venus: it may stop reading, answering, or opening the
device. That is why `CallersGetOut` is about callers whose device was closed.

### Deadlock

It is checked except in `CodaNames`, where it means no more than that the
operations are used up (`NoWaitCycle` says what it should), in `CodaTiger`, for the same reason (nothing there waits
for anything but Venus), and in
`upcall_misfortune`: after a copy fault a thread sleeps for ever with nothing that could wake it, and when all
do, and the calls are used up, nothing remains to be done; the same after
`corrupt`.

## 4. The proofs

Eight modules hold theorems about their components, for any values of the constants that meet the named
assumption of the module (`ConstantsAssumption`, `CnodeAssumption`, `VenusAssumption`, `MountAssumption`, `FileAssumption`, `NamesAssumption`, `TigerAssumption`), which TLC
evaluates in every run. "Any misfortune" below is any subset of those of section 2.

| theorem | property | for |
|---|---|---|
| `UpcallTypeOK`, `UpcallRepliesMatch`, `UpcallUniqueCalls`, `UpcallSignalsUnanswered`, `UpcallRequestsInOrder` | `TypeOK`, ... | any misfortune |
| `UpcallNoLostCaller` | `NoLostCaller` | neither `copyfault` nor `reopen` |
| `UpcallImplementsRpc` | `Safe => Rpc!Safe` | no misfortune but `copyfault` |
| `NameCacheTypeOK`, `NameCacheRefsBalance`, `NameCacheImplementsLru` | `TypeOK`, `RefsBalance`, `ImplementsLru` | whatever memory holds |
| `NameCacheListsRight` | `ListsRight` | zeroed memory (`Garbage = {0}`) |
| `CnodeTypeOK`, `CnodeListsRight`, `CnodeUseRight` | `TypeOK`, `ListsRight`, `UseRight` | no `late`, or `Sleeps = {}` (`Orderly`) |
| `CnodeImplementsFiles` | `ImplementsFiles` | `Sleeps = {}` |
| `FileTypeOK`, `FileRefsRight`, `FileCountsRight`, `FileReadsRight` | `TypeOK`, ... | any misfortune |
| `FileUsedIsHeld` | `UsedIsHeld` | no `shared` |
| `FileAttrRight` | `AttrRight` | neither `slow` nor `shared` |
| `MountTypeOK`, `MountInstancesRight` | `TypeOK`, `InstancesRight` | any misfortune but `sleep` |
| `MountNoPanic`, `MountClosedUnmounts`, `MountNobodyInside` | the same | one device, no misfortune but `nomem` and `load` |
| `VenusTypeOK`, `VenusBuffersFit`, `VenusReleased` | `TypeOK`, `BuffersFit`, `Released` | any misfortune; any signed 16-bit `in_size` and `out_size` |
| `VenusReadsReply` | `ReadsReply` | none of `short`, `long` and `wild` |
| `NamesInvariant`, `NamesAssureRight`, `NamesGivenBack`, `NamesNewIsNew`, `NamesNoWaitCycle` | `AssureRight`, ... | neither `across` nor `control` (`Calm`) |
| `NamesCoherent` | `Coherent` | `Calm`, no `late` (`Punctual`) |
| `NamesAttrRight` | `AttrRight` | no misfortune (`Prudent`) |
| `TigerTypeOK`, `TigerOpensRight` | `TypeOK`, `OpensRight` | any overlap |
| `TigerOnePath` | `OnePath` | any overlap, but says nothing of a symlink on which operations have overlapped (`raced`) |
| `TigerNamesRight`, `TigerAttrRight`, `TigerGrantedRight`, `TigerNewIsNew` | `NamesRight`, ... | any overlap, any other clients; the same exception, by directory or node |

None of the properties is inductive by itself, and every proof has the same shape: an inductive
invariant that TLC checked first, one lemma for each action or kind of action, lemmas for what several
actions share, and `PTL` for the last step.

*Upcall channel.* The assumption is that there is a device and a result, callers are
finitely many (the model counts them) and `MaxCalls` is a natural number. `MatchInv` is the conjunction
of the three properties about answers with `TypeOK` and

- `QueueInv`: the caller of a message on a queue is asleep, its `vmsg` has the
  unique of the message and no `VM_WRITE`, its `VM_READ` says which queue the
  message is on, and no message is on a queue twice;
- `AnswerInv`: a call under way has `VM_WRITE` if and only if its reply is in
  `written`, and `written` has no reply to a unique above `vc_seq`;
- `SignalInv`: a call about which a signal is queued is over and was not answered.

`QueueInv` is what makes a reply find at most one message, which is asleep and
not yet answered, so that adding it to `written` keeps `written` a function of
the call. `UniqueCalls` is preserved because `vc_seq` is never reset, not even
by `vc_nb_open`; and with it a new call is later than all that are queued, which is
`RequestsInOrder`. For `NoLostCaller`, `CloseInv` adds that a close that has not ended keeps its device
closed, and that an open device with nothing mounted has nobody in `coda_call`:
`vc_nb_close` without a mount wakes nobody. For the refinement, `WokenInv` adds that who was woken has
been answered, unless the device is closed. Each step is then one of `CodaRpc`, or none.

*Name cache.* Nothing is assumed of the hash function or the sizes. The invariant is `TypeOK`,
`ChainInv` (an entry is on the chain of its own hash value exactly if it is valid, and no two are alike),
`LruInv` (every slot is on the LRU list once, valid ones in front), `LengthInv` (lengths are those of the
chains, and no smaller when memory was not zeroed) and `RefsBalance`. All kinds of removal are `NcRemove` of a
set of entries, so that one lemma (`Lost`) serves them all; `Enters` is about the entry that takes the
place of the victim, and `Newest` about a list whose entry goes to the head. For the refinement, `InFront`
counts the valid entries to show that they are in the first places, so that what `CodaLru` sees is a
sequence; `LruForgets` gives, for a set of entries that go, the places the others had before. A removal thus
forgets exactly what the downcall names, although the victims behind may come in any order.

*Cnode table.* Threads are finitely many; the cnodes, the files and the hash function are any. Facts about a list
would need induction along its pointers, had it been defined by walking them. As the least set its pointers
stay in it needs none: to show what a list has after a step it is enough to name a set that is closed
and contained in every closed set (`MembersLeast`). `Sound` says that the lists end and
are apart; the lemmas on `coda_free`, `coda_save`, `coda_unsave` and `coda_alloc` say that they keep it and which
cnode moves from which list to which. `Inv` then is

- `ListInv`: the lists are sound, a chain has the cnodes in use of its bucket, the freelist those that nobody has;
- `PlaceInv`, `MounterInv`: what the cnode of a thread is, by where the thread is; who makes one has it for himself;
- `UseInv`: a vnode of the mount has the references of its users and of the root, and is dying if it has none;
  the control object has no more than one for each mount;
- `RootInv`: the root is on the mount, dying once the device is closed, and gone when `vflush` runs.

It holds with either sleep in `make_coda_node` and whenever answers are acted on; what it does not survive is a file system that goes away
while one of its cnodes is being made, which is where TLC finds `ListsRight` violated. When nobody
sleeps in `make_coda_node`, `FilesInv` holds as well: a file has one cnode (`OneCnode`), upcalls are made by those who use a live
vnode (`CallInv`), exactly the vnodes of a closed file system are dying and only live vnodes have attributes (`FlagsInv`), and
nobody uses a file before Venus has told the root (`RootAlone`). For the refinement, `Serves`
are the cnodes by which a file is found; there is at most one, so the sum in the mapping has one term
(`Seen`). A step that touches a cnode leaves all files alone but those it is found by before or after (`SeenUnless`),
and one lemma for each action names its step of `CodaFiles`. This part does not need
`late` to be absent.

*Containers.* Threads and containers are any finite sets. `Inv` says what a thread has by where it is
(`LocalInv`), that cnode, vnode and Venus count alike, as many as there are threads that have the file open or
are about to close it (`CountInv`; at least as many for directories, which are never closed, and for a
device that is), what is held on each container (`HeldInv`), and that an open file has the
container Venus has (`PlaceInv`). Counts are cardinalities of sets of threads, and a step moves one
thread: the lemmas on `Number` say how the size of such a set changes with one. For `AttrRight`, `AttrInv` adds that
who writes has the file open for writing, during which no attributes are cached; that at most one thread has an
answer about attributes and has not acted on it; that this answer is about the contents Venus has; and that cached
attributes are of these contents too, unless a `coda_setattr` is about to replace them.

*Mounts.* `CountedOK` says of every mount how far it is and that `coda_instances` counts those that have
come far enough; it survives second mounts, restarts and unmounts during a close. With one
device (`Alone`), `OneOK` adds that at most one mount is made, that the record of the device names it
and its root, and that it is marked as unmounting exactly while the close sleeps.

*Marshalling.* The assumption is that the unions are exactly as large as their largest member and aligned to
4 or 8 bytes, that names and paths keep to their limits, that a `size_t` has 17 bits or more, and that `in_size` and `out_size` are signed
16-bit numbers. `MsgInv` says of a message under way that it is one that some `venus_*`
function makes, `HoldsInv` what its caller holds, `RepliesInv` how long the reply is and what it says of itself.

*Names.* Threads are finitely many. The tree Venus starts with is a tree (`IsTree`: one name for a directory,
none for the root, no circle, nothing in what is not there), a file may have any number of names. `Inv` says
what a thread knows by where it is (`PlaceOK`, `SeenOK`), that it has exactly the locks in `Held` and the
references in `Ref` (`LockOK`, and `UseOK`, where the count of a node is the number of threads that have it as
directory, node or source), and that what Venus has just made is known to nobody else (`NewOK`). Locks and
references of all four uses move with one thread at a time: the lemmas on `Users` are what `Start` to
`Refused` share. Four properties follow from `Inv` alone, or with one more conjunct:

- `GivenBack`, `AssureRight` and `NewIsNew` are read off `Held`, `Ref` and `NewOK`.
- For `NoWaitCycle`, `OrderOK` says that no set of directories is without one that has none of the set below it,
  whether Venus, the name cache or a thread that was told says so (`Above`). Whoever waits for a
  node while it has a lock waits for one below it, so a circle of waiting threads would be such a set.
- For `Coherent`, `NamesInv` says that a directory has one name at Venus (`DirsOK`), that entries of the cache and answers
  under way agree with Venus (`EntriesOK`, `AnswersOK`), and that a name which an operation is
  changing is not in the cache (`MissingOK`). The lock on the directory keeps others from entering it meanwhile.
- For `AttrRight`, `AttrInv` says that attributes of a directory are off only while the one that changed it is on its way
  back (`DirAttrOK`), and that a link count is too small by no more than the number of threads that have
  taken a link off in advance, or are about to forget the attributes (`FileAttrOK`, `Owers`).

The hypotheses are those TLC has shown to be needed: `Coherent` is false with `late` alone and with `across`
alone, `AttrRight` with each of `overlap`, `failing` and `interrupted`, and with `late` if a file has three
names (a stale name makes `coda_remove` take a link off a file that loses none), `GivenBack` and `NoWaitCycle` with `control`.
`across` ends the order of the directories, on which `OrderOK` and the shape of `Held` rest. Whether `GivenBack`,
`AssureRight` and `NewIsNew` hold with it is checked for two threads (`names_misfortune`).

*Port.* Threads are finitely many; the tree, the users and the names are any. `Inv` says what an operation is
about by its name (`PlaceOK`), that a node has a reference for every counted open and every thread whose
close waits for Venus (`RefsOK`; closes are counted by the size of a set of threads, `CloserMoves`), and
that the kernel closes no more than is counted (`CountsOK`). Every operation preserves it whatever else is
under way. `OnePath` needs besides that overlaps are recorded (`OverlapOK`) and that who reads a symlink
nobody else is about finds no path (`ReadersOK`); the action `Steps` is all that this part needs to know
of a step.

What the port has cached is right by `RightInv`, on top of `Inv`; the assumption is that Venus starts with a tree
(`IsTree`). A property that excepts nodes on which operations have overlapped (`raced`) still has to be carried
through every overlap on other nodes, so its parts say what an operation owes between its upcall and its end:

- `KnownInv`: whom an operation is about has a cnode, unless Venus has just answered with it, and Venus makes
  only nodes nobody knows;
- `NewInv`: the answer of a create has no cnode yet, or operations on it have overlapped (`NewIsNew`);
- `AttrInv`: old attributes have an operation that will invalidate them (`Fixes`); one that invalidates
  before it asks Venus finds nothing cached when Venus answers (`Forgot`), since who puts attributes back in between
  overlaps with it; what is open for writing has none;
- `NamesInv`: entries and answers agree with Venus (`Right`); who removes or renames has taken the entry
  out before it asks, and `..` of a directory that moves (`MissingOK`), and who enters it again overlaps; a
  directory has one name (`DirsOK`), which is why a change of one name leaves the parent of every other directory alone;
- `RightsInv`: whose credential is in an entry might search its directory, and who has an answer still may.

A step of an operation is asked for (`Begun`), answered by Venus (`Answers`), or over (`Ended`); a lemma for
each says that it preserves `RightInv`, and every operation is shown to be of that form. Downcalls and
changes of other clients have a lemma each, on what they leave standing (`Stands1`).

## 5. Limits

*Only model-checked:* liveness (`CloseFinishes`, `CallersGetOut`) and the fairness of
`CodaRpc!Spec`, since the prover has neither fairness nor `ENABLED`; and `VenusWoken`, which says little enough.

*Assumed and not shown.* One thread at a time, sleeping only where section 1.1
says. Venus answers a `CODA_OPEN` with a container that exists. Callers of the
vnode layer follow its locking rules. Cnodes, once allocated by the allocator,
are returned only to the freelist.

*Conditional.* What follows is true of the code only under the condition named: the negative was found
with TLC.

- `CodaUpcall`: `NoLostCaller`, `CloseFinishes` and `CallersGetOut` without `copyfault` and `reopen`; the
  refinement of `CodaRpc` without `oversize`, `nomem` and `reopen`, whose errors it does not have.
- `CodaNameCache`: `ListsRight` when memory is zeroed.
- `CodaCnode`: `ImplementsFiles` as long as nothing sleeps in `make_coda_node`: who sleeps
  there makes a second cnode for a file. `ListsRight` and `UseRight` do not need that, but with `late` they are
  false when `ubc_info_init` sleeps. How old cached attributes are no property of this module says.
- `CodaFile`: `AttrRight` without `slow` and `shared` (who writes a file he does not have open leaves the attributes as
  they were until he is done), `UsedIsHeld` without `shared`.
- `CodaNames`: `Coherent` without `late` and `across`; `AttrRight` without `overlap`, `interrupted` and
  `failing`, and without `late` where a file has three names; `GivenBack` without `control`; `NoWaitCycle`
  without `control`, and with `across` for two threads: for three it is false (section 6).
- `CodaMount`: with `sleep` none of the four is true;
  with `second` or `reopen` neither `NoPanic` nor `ClosedUnmounts`; with `umount` or `late` neither
  `NobodyInside` nor `NoPanic`. Mounts on two devices may share a root, as long as its fid is not known:
  then `NoPanic` and `ClosedUnmounts` are false with no misfortune at all.
- `CodaVenus`: `ReadsReply` without `short`, `long` and `wild`.

*Not modelled:* see the components in `PROJECT.json`. Layout of messages,
statistics, printing, `coda_fbsd.c` (compiled out), `coda_attrlist.c` (returns
`EOPNOTSUPP`), the glue headers. `coda_fsync`, `coda_bmap` and `coda_advlock`, which pass a call on or return an
error; `vc_nb_poll`, which this build does not have; CODA_REPLACE while a lookup sleeps; the references of the
vnode layer in the port, which has not settled which of the two kinds of Darwin 8 it takes.

*Left out of modelled operations*, with a comment where it is: a resize of the name cache to nothing, which the code
accepts; an open of the device for which the name cache cannot be made; in `CodaUpcall`, mounts while the close of an
earlier Venus sleeps (`CodaMount` has them); in `CodaCnode`, new cnodes while the device is being closed, since they come
after an answer; in `CodaTiger`, the counts between the open and the close that `coda_rdwr` makes for itself; in
`CodaVenus`, callers still on their way out when the device is opened again (`CodaUpcall` has them).
`venus_readdir`, which is in `CodaVenus`, is called by nobody.

## 6. Disagreements between the code and its comments

Two are shown by runs (`findings` in `PROJECT.json`): the references lost by a resize
(`namecache_leak`) and the directory that is never closed (`file_directory`). Others were met while modelling. They
are written down here with what the models make of them. The counter shared by all devices, and two
cnodes for one fid, are among them: comments allow for both (`coda_subr.c:172` for the second).

- `coda_psdev.c:415`: when the copy of a reply faults, `vc_nb_write` has taken the message off
  `vc_replys` and returns without a wakeup. Its caller sleeps for good, against
  :649-651: not even a close finds it (`CallersGetOut` with `copyfault`).
- `coda_vnops.c:2901`: a forced unmount reclaims the vnode of a cnode that is still being made, which
  is freed and put in the table afterwards, against :1180 "Remove it from the table so it
  can't be found" (`ListsRight` with `late` and `ubc` asleep).
- `coda_psdev.c:774` says "insert at head of queue!" of the signal message; `INSQUE`
  puts it at the tail. The model does what the code does.
- `coda_psdev.c:790`: a caller that was answered before the close but runs after it
  decrements a counter in which it was not counted, so the closer may be woken, and
  unmount, while a caller it has woken is still inside `coda_call`, against
  :217. `CloseFinishes` shows that it is woken at all.
- `coda_psdev.c:718` looks at `VC_OPEN` when the caller runs: a caller thrown out by a
  close returns `EINTR` and not the `ENODEV` of :649-651 if the device has been opened again.
- `coda_psdev.c:254`: if Venus opens the device while the close of its
  predecessor sleeps, `vc_nb_open` clears `mi_vfsp` and `dounmount` gets a null pointer
  (`closer = "panic"` in the model, with `reopen`).
- `coda_psdev.c:397`, `:753`: after a reply that is too long the caller removes its message
  from a queue a second time; neighbours that moved meanwhile are cut out (`corrupt`).
- `coda_namecache.c:831`: `coda_nc_resize` ignores an `ENOMEM` of `coda_nc_init`, and turns
  the cache on with no heap. `:185`: `coda_nc_init` does not set chain
  lengths in memory that is not zeroed (`Garbage`).
- `coda_vnops.c:886`: attributes that were sent before a ZAPFILE or a last close are stored
  after it, if the thread that asked for them runs later than the thread of Venus (`AttrRight` of `CodaFile` with `slow`).
  A second cnode of a file keeps its attributes after a ZAPFILE, which clears those of the cnode it finds first.
- `coda_subr.c:193-200` says that `coda_kill` marks outstanding cnodes as dying; it
  prints and counts them.
- `coda_unmounting` walks the hash table: a cnode that is being made is not in it
  yet, and is not marked.
- `coda_vfsops.c:239` does not know why a control object with a mount makes "a loop in the
  cnode links": `coda_inactive` returns early for it, so it is freed while it is
  in the table. The mutant `MountOf_Vfsp` of `cnode_calm` shows the loop.
- `coda_vfsops.c:244`: every mount takes a reference on the control object, none is given back.
- `coda_vnops.c:869`: `coda_getattr` reads through `v_mount` after its upcall; a forced unmount
  meanwhile has cleared it.
- `coda_vnops.c:634`: what `coda_grab_vnode` references for a read of a closed file or a
  page-in is never released; `:435` a late failure of `coda_open` leaves its counts;
  `c_inode` is never invalidated; `:489` a forced unmount leaves containers open.
- `coda_vnops.c:2115`, `:2049`: a rename or a link of the control object returns `EACCES` with the
  directory locked and up to four vnodes referenced, against :2159 "It seems to be
  incumbent on us to drop locks on all four vnodes" (`GivenBack` with `control`).
- `coda_vnops.c:2101` asserts that the directory a rename moves out of is not locked. It is when it
  is the one to be replaced (`rename("d/x", "d")`); `AssureRight` leaves this case out.
- `coda_vnops.c:1954-1963` corrects the link count only of a name in the cache, and before Venus has
  agreed (`AttrRight` with `failing`); a rename that replaces a link does not at all.
- `coda_vnops.c:1969`, `:2137`, `:2323`: the attributes of a directory are invalidated before the upcall
  that changes it; a `coda_getattr` in between stores the old ones for good.
- `coda_vnops.c:2128`, `:2133`: a rename to another directory has not locked the one it moves
  out of, so a lookup under way there enters the name, or the `..`, again.
- `coda_vnops.c:1417`: a lookup waits for a node with its directory locked. When two renames turn a
  directory `a` and its child `b` round after a thread has been told of `b` in `a`,
  a third one has `b` and waits for `a`: neither goes on. TLC finds this with three threads
  from a state in which both renames have looked up their sources.

- `coda_vfsops.c`, failed mounts: the cnode made for a root stays when the second allocation fails, with a
  `v_mount` that is freed; the next mount finds it, as every root has the zero fid at first.
- `coda_psdev.c:404-405` compares what is left of a reply, after opcode and uniquifier have been read, with
  the size of the whole, so a reply may be 8 bytes longer than the caller asked for. It is cut short without an
  error, as `uiomove` is told the right size.
- A reply shorter than its structure is not refused: the caller reads its own request in the rest (`ReadsReply`
  with `short`). The counts in the replies to readlink (`coda_venus.c:395`) and readdir are not compared with
  its length either (`wild`).
- `coda_vnops.c:796` compares the signed `in_size` from above only, against "Size of input buffer <= 2K"
  (`coda.h:785`): a negative one becomes the length of the `copyin` at `coda_venus.c:294`. `BuffersFit` makes an
  exception of it; without that, TLC finds it violated.
- `coda_venus.c:309` copies `out_size` bytes out and not the length of the reply, against "Maximum size of output
  buffer" (`coda.h:786`). `ReadsReply` makes an exception of it; without that, TLC finds it violated.
- `coda_psdev.c:108` has "Size is at most 5000 bytes" of a message; `VC_MAXMSGSIZE` is larger.
- `coda_venus.c:396`: without memory for the path, `venus_readlink` returns without freeing the buffer;
  `coda_vnops.c:796`: with too much data, `coda_ioctl` returns without releasing the vnode that `namei` gave it.
  Both are the leaks `Released` makes an exception of.
- `darwin_coda.c:203`, `:223`: when the device cannot be registered the file system type stays, and the
  funnel is kept; `darwin_coda_stop` does not look for open devices, and leaves their node in devfs.
- The port: references of the credentials are commented out, so an entry may outlive its credential and
  answer for the next one at the same address (`reused`, which `GrantedRight` leaves out), and `coda_nc_purge_user` reads the
  user of one that may be freed; a removal zaps the entries of other credentials only if the caller's own
  is there; the panic of `coda_create` and `coda_mkdir` for a file that exists takes only two
  operations at once; `vnode_ref` is given back as an iocount in places; `coda_close` does
  nothing for directories there either.

## 7. Plan

Done: (1) `CodaRpc`, `CodaUpcall`; (2) `CodaLru`, `CodaNameCache`; (3) `CodaFiles`, `CodaCnode`;
(4) `CodaFile`; (5) `CodaNames`; (6) `CodaMount`; (7) `CodaVenus`, the rest of the vnode operations that keep
state; (8) `CodaTiger`, the port; theorems about all of them.

Left:

- compose the name cache with the cnode table, so that one downcall changes both, and have CODA_REPLACE come
  in the middle of a lookup;
