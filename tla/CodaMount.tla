----------------------------- MODULE CodaMount -----------------------------
(***************************************************************************)
(* Mounts, devices and the life of the extension: coda_vfsops.c, open and  *)
(* close of coda_psdev.c and darwin_coda.c.                                *)
(*                                                                         *)
(* A mount is made on a device Venus has open, borrows the record of that  *)
(* device in coda_mnttbl, and is undone by dounmount, which the close of   *)
(* the device calls.  The root of a mount is a cnode made with a zero fid, *)
(* so that two mounts may find the same one; it is named here by the mount *)
(* it was made for, which is its v_mount.  The threads are those asleep in *)
(* coda_mount, in venus_root or venus_fhtovp, and in vc_nb_close.          *)
(***************************************************************************)
EXTENDS Integers, FiniteSets

CONSTANTS
  Devs,     \* minor numbers below NVCODA that have a node in /dev
  Mounts,   \* struct mount: made by mount(2), freed by it or by dounmount
  None,     \* the null pointer
  Env       \* misfortunes, see below

(* "sleep"   making a vnode sleeps, so the mount waits half-made            *)
(* "nomem"   coda_mount finds no memory for a cnode                         *)
(* "second"  a device that has a mount is mounted once more                 *)
(* "reopen"  Venus is restarted while the close of the old one sleeps       *)
(* "umount"  somebody unmounts while that close sleeps                      *)
(* "late"    an answer is acted on after Venus has closed the device        *)
(* "load"    the extension cannot be loaded, or not be unregistered         *)
Misfortunes == {"sleep", "nomem", "second", "reopen", "umount", "late", "load"}

ASSUME MountAssumption ==
  /\ IsFiniteSet(Mounts) /\ None \notin Mounts /\ None \notin Devs
  /\ Env \subseteq Misfortunes

VARIABLES
  loaded,     \* the extension is in the kernel
  holds,      \* what it has of the kernel: registrations, memory, the funnel
  instances,  \* coda_instances
  open,       \* VC_OPEN
  mi,         \* coda_mnttbl: mi_vfsp, mi_rootvp, mi_started
  closer,     \* devices with a thread asleep in vc_nb_close
  mnt,        \* how far a mount is, its mnt_data, rootvp of coda_mount
  node,       \* the root cnode made for a mount: its fid, C_UNMOUNTING
  call,       \* the thread in coda_root or coda_fhtovp of a mount
  got,        \* history: the root coda_root has returned for a mount
  panic       \* a null pointer or a freed mount was used

vars == <<loaded, holds, instances, open, mi, closer, mnt, node, call, got, panic>>

NoRecord == [vfsp |-> None, rootvp |-> None, started |-> FALSE]
NoMount == [st |-> "no", dev |-> None, root |-> None]
NoNode == [fid |-> "none", dying |-> FALSE]
NoCall == [op |-> "no", st |-> "no", dev |-> None]
Registered == {"vfs", "cdev", "funnel"}  \* what must not outlive the code

TypeOK ==
  /\ loaded \in BOOLEAN
  /\ holds \subseteq Registered \cup {"vector", "conf", "node"}
  /\ instances \in 0..Cardinality(Mounts)
  /\ open \subseteq Devs /\ closer \subseteq Devs
  /\ mi \in [Devs -> [vfsp : Mounts \cup {None}, rootvp : Mounts \cup {None},
                      started : BOOLEAN]]
  /\ mnt \in [Mounts -> [st : {"no", "root", "control", "mounted"},
                         dev : Devs \cup {None}, root : Mounts \cup {None}]]
  /\ node \in [Mounts -> [fid : {"none", "zero", "real"}, dying : BOOLEAN]]
  /\ call \in [Mounts -> [op : {"no", "root", "fhtovp"},
                          st : {"no", "asked", "answered", "refused", "thrown"},
                          dev : Devs \cup {None}]]
  /\ got \in [Mounts -> Mounts \cup {None}]
  /\ panic \in BOOLEAN

\* The static data of an extension that has just been loaded.
Fresh ==
  /\ instances = 0 /\ open = {} /\ closer = {}
  /\ mi = [d \in Devs |-> NoRecord]

Init ==
  /\ loaded = FALSE /\ holds = {} /\ panic = FALSE
  /\ Fresh
  /\ mnt = [m \in Mounts |-> NoMount] /\ node = [m \in Mounts |-> NoNode]
  /\ call = [m \in Mounts |-> NoCall] /\ got = [m \in Mounts |-> None]

Mounted == {m \in Mounts : mnt[m].st = "mounted"}
Half == {m \in Mounts : mnt[m].st \in {"root", "control"}}
On(d) == {m \in Mounts : mnt[m].dev = d}
Record(m) == mi[mnt[m].dev]             \* vftomi

-----------------------------------------------------------------------------
(* Loading and unloading.                                                  *)

darwin_coda_start ==
  /\ ~loaded
  /\ loaded' = TRUE /\ holds' = holds \cup {"vfs", "cdev", "vector", "node"}
  /\ instances' = 0 /\ open' = {} /\ closer' = {}
  /\ mi' = [d \in Devs |-> NoRecord] /\ node' = [m \in Mounts |-> NoNode]
  /\ UNCHANGED <<mnt, call, got, panic>>

\* An operation is not listed, or the file system is refused: the funnel is
\* given back, the two blocks of memory are not.
StartRefused ==
  /\ ~loaded /\ "load" \in Env
  /\ holds' = holds \cup {"conf", "vector"}
  /\ UNCHANGED <<loaded, instances, open, mi, closer, mnt, node, call, got, panic>>

\* coda_cdevsw_init has failed.
StartNoDevice ==
  /\ ~loaded /\ "load" \in Env
  /\ holds' = holds \cup {"vfs", "vector", "funnel"}
  /\ UNCHANGED <<loaded, instances, open, mi, closer, mnt, node, call, got, panic>>

darwin_coda_stop_Anyway ==
  /\ loaded
  /\ loaded' = FALSE /\ holds' = holds \ {"vfs", "cdev", "vector"}
  /\ UNCHANGED <<instances, open, mi, closer, mnt, node, call, got, panic>>

\* The memory of the vector is freed, the node of the device is not removed.
\* That a device is open is not looked at.
darwin_coda_stop ==
  /\ loaded /\ instances = 0
  /\ loaded' = FALSE /\ holds' = holds \ {"vfs", "cdev", "vector"}
  /\ UNCHANGED <<instances, open, mi, closer, mnt, node, call, got, panic>>

\* vfsconf_del has failed: nothing was undone yet.
StopRefused ==
  /\ loaded /\ instances = 0 /\ "load" \in Env
  /\ UNCHANGED vars

-----------------------------------------------------------------------------
(* Mounting.                                                               *)

\* mount(2) has found a device that is a Coda device, is open and, unless
\* somebody mounts twice, has no mount.
coda_mount(m, d) ==
  /\ loaded /\ mnt[m].st = "no" /\ d \in open
  /\ "second" \in Env \/ On(d) = {}
  /\ mi' = [mi EXCEPT ![d].vfsp = m, ![d].started = FALSE]
  /\ mnt' = [mnt EXCEPT ![m] = [st |-> "root", dev |-> d, root |-> None]]
  /\ UNCHANGED <<loaded, holds, instances, open, closer, node, call, got, panic>>

Zero == {k \in Mounts : node[k].fid = "zero" /\ ~node[k].dying}

\* make_coda_node(&rootfid): any cnode with that fid will do.
MakeRoot(m) ==
  /\ mnt[m].st = "root"
  /\ IF Zero = {} THEN /\ mnt' = [mnt EXCEPT ![m].st = "control", ![m].root = m]
                       /\ node' = [node EXCEPT ![m] = [fid |-> "zero", dying |-> FALSE]]
     ELSE /\ \E k \in Zero : mnt' = [mnt EXCEPT ![m].st = "control", ![m].root = k]
          /\ UNCHANGED node
  /\ UNCHANGED <<loaded, holds, instances, open, mi, closer, call, got, panic>>

\* No memory: mount(2) frees the mount, which mi_vfsp goes on to name.
MountFails(m) ==
  /\ mnt[m].st \in {"root", "control"} /\ "nomem" \in Env
  /\ mnt' = [mnt EXCEPT ![m] = NoMount]
  /\ UNCHANGED <<loaded, holds, instances, open, mi, closer, node, call, got, panic>>

MountDone_NotCounted(m) ==
  /\ mnt[m].st = "control"
  /\ mi' = [mi EXCEPT ![mnt[m].dev].vfsp = m, ![mnt[m].dev].rootvp = mnt[m].root]
  /\ mnt' = [mnt EXCEPT ![m].st = "mounted"]
  /\ UNCHANGED <<loaded, holds, instances, open, closer, node, call, got, panic>>

\* The rest of coda_mount, from make_coda_node(&ctlfid) on.
MountDone(m) ==
  /\ mnt[m].st = "control"
  /\ mi' = [mi EXCEPT ![mnt[m].dev].vfsp = m, ![mnt[m].dev].rootvp = mnt[m].root]
  /\ mnt' = [mnt EXCEPT ![m].st = "mounted"]
  /\ instances' = instances + 1
  /\ UNCHANGED <<loaded, holds, open, closer, node, call, got, panic>>

coda_start(m) ==
  /\ mnt[m].st = "mounted"
  /\ mi' = [mi EXCEPT ![mnt[m].dev].started = TRUE]
  /\ UNCHANGED <<loaded, holds, instances, open, closer, mnt, node, call, got, panic>>

-----------------------------------------------------------------------------
(* The root.                                                               *)

\* The root is there already, or the mount has not started.
Cached(m) ==
  /\ Record(m).vfsp = m
  /\ \/ Record(m).rootvp # None /\ node[Record(m).rootvp].fid = "real"
     \/ ~Record(m).started

Returns(m, r) ==                           \* *vpp = mi->mi_rootvp; vget(*vpp)
  IF r = None THEN panic' = TRUE /\ UNCHANGED got
  ELSE got' = [got EXCEPT ![m] = r] /\ UNCHANGED panic

Asks(m, op) ==
  call' = [call EXCEPT ![m] = [op |-> op, st |-> "asked", dev |-> mnt[m].dev]]
Is(m, op, st) == call[m].op = op /\ call[m].st = st
Rootvp(m) == mi[call[m].dev].rootvp        \* read again after the upcall

\* coda_root up to the upcall.  A device that is closed makes it fail with
\* ENODEV, for which the root there is has to do.
coda_root(m) ==
  /\ mnt[m].st = "mounted" /\ call[m] = NoCall
  /\ IF Cached(m) \/ mnt[m].dev \notin open THEN Returns(m, Record(m).rootvp) /\ UNCHANGED call
     ELSE Asks(m, "root") /\ UNCHANGED <<got, panic>>
  /\ UNCHANGED <<loaded, holds, instances, open, mi, closer, mnt, node>>

\* From the upcall on: the cnode that is the root now gets the fid.
RootAnswered(m) ==
  /\ Is(m, "root", "answered")
  /\ call' = [call EXCEPT ![m] = NoCall]
  /\ Returns(m, Rootvp(m))
  /\ node' = IF Rootvp(m) = None THEN node
             ELSE [node EXCEPT ![Rootvp(m)].fid = "real"]
  /\ UNCHANGED <<loaded, holds, instances, open, mi, closer, mnt>>

RootThrown(m) ==                           \* ENODEV or EINTR: "Gross hack here!"
  /\ Is(m, "root", "thrown")
  /\ call' = [call EXCEPT ![m] = NoCall]
  /\ Returns(m, Rootvp(m))
  /\ UNCHANGED <<loaded, holds, instances, open, mi, closer, mnt, node>>

-----------------------------------------------------------------------------
(* Any other file by its fid, and what all upcalls have in common.         *)

coda_fhtovp(m) ==
  /\ mnt[m].st = "mounted" /\ call[m] = NoCall /\ mnt[m].dev \in open
  /\ Asks(m, "fhtovp")
  /\ UNCHANGED <<loaded, holds, instances, open, mi, closer, mnt, node, got, panic>>

\* make_coda_node puts the vnode on the list of a mount that may be gone.
FhtovpAnswered(m) ==
  /\ Is(m, "fhtovp", "answered")
  /\ call' = [call EXCEPT ![m] = NoCall]
  /\ panic' = (mnt[m].st # "mounted")
  /\ UNCHANGED <<loaded, holds, instances, open, mi, closer, mnt, node, got>>

\* An error of either that coda_root or coda_fhtovp hands on.
CallFails(m) ==
  /\ \/ call[m].st = "refused" \/ Is(m, "fhtovp", "thrown")
  /\ call' = [call EXCEPT ![m] = NoCall]
  /\ UNCHANGED <<loaded, holds, instances, open, mi, closer, mnt, node, got, panic>>

VenusAnswers(m) ==
  /\ call[m].st = "asked" /\ call[m].dev \in open
  /\ \E st \in {"answered", "refused"} : call' = [call EXCEPT ![m].st = st]
  /\ UNCHANGED <<loaded, holds, instances, open, mi, closer, mnt, node, got, panic>>

Interrupted(m) ==
  /\ call[m].st = "asked"
  /\ call' = [call EXCEPT ![m].st = "thrown"]
  /\ UNCHANGED <<loaded, holds, instances, open, mi, closer, mnt, node, got, panic>>

-----------------------------------------------------------------------------
(* Unmounting.  K is the table of root cnodes at that moment.              *)

\* coda_unmount finds its mount in the record, and Venus is gone.
Victim(m, K) ==
  Record(m).vfsp = m /\ Record(m).rootvp # None /\ K[Record(m).rootvp].dying

\* coda_unmount, after which dounmount frees the mount: vflush takes every vnode
\* of it.
Undo(m, K) ==
  /\ mi' = [mi EXCEPT ![mnt[m].dev].vfsp = None, ![mnt[m].dev].rootvp = None]
  /\ node' = [K EXCEPT ![m] = NoNode]
  /\ mnt' = [mnt EXCEPT ![m] = NoMount] /\ got' = [got EXCEPT ![m] = None]
  /\ instances' = instances - 1
  /\ UNCHANGED panic

\* dounmount(v): on a null pointer or a mount that is not there, nothing is
\* certain any more.  EBUSY and EINVAL change nothing.
dounmount(v, K) ==
  \/ /\ v \notin Mounted
     /\ panic' = TRUE /\ node' = K /\ UNCHANGED <<mi, mnt, got, instances>>
  \/ v \in Mounted /\ Victim(v, K) /\ Undo(v, K)
  \/ /\ v \in Mounted /\ ~Victim(v, K)
     /\ node' = K /\ UNCHANGED <<mi, mnt, got, instances, panic>>

\* umount(8): while Venus runs the answer is EBUSY.
Umount(m) ==
  /\ "umount" \in Env \/ closer = {}
  /\ m \in Mounted /\ dounmount(m, node)
  /\ UNCHANGED <<loaded, holds, open, closer, call>>

-----------------------------------------------------------------------------
(* The device.                                                             *)

vc_nb_open(d) ==
  /\ loaded /\ d \notin open
  /\ "reopen" \in Env \/ d \notin closer
  /\ open' = open \cup {d}
  /\ mi' = [mi EXCEPT ![d].vfsp = None, ![d].rootvp = None]
  /\ UNCHANGED <<loaded, holds, instances, closer, mnt, node, call, got, panic>>

\* Callers of mounts of this device that are asleep or were woken by a signal:
\* they are counted, the ones that were answered are not.
Counted(d) == {m \in Mounts : call[m].st \in {"asked", "thrown"} /\ call[m].dev = d}

Thrown(d) == [m \in Mounts |-> IF m \in Counted(d) THEN [call[m] EXCEPT !.st = "thrown"]
                               ELSE call[m]]

Marked_Not(d) == node

\* The root, and all of the mount in mi_vfsp, are marked.
Marked(d) == [k \in Mounts |->
  [node[k] EXCEPT !.dying = @ \/ k = mi[d].rootvp \/ (k = mi[d].vfsp /\ node[k].fid # "none")]]

Prompt(d) == "late" \in Env \/ \A m \in Mounts : call[m].dev = d => call[m].st \notin {"answered", "refused"}

\* A simple open and close without a mount.
CloseBare(d) ==
  /\ loaded /\ d \in open /\ mi[d].rootvp = None /\ Prompt(d)
  /\ open' = open \ {d}
  /\ UNCHANGED <<loaded, holds, instances, mi, closer, mnt, node, call, got, panic>>

\* Callers are woken, those of other operations included: with any of them the
\* close sleeps, without it goes straight on.
CloseSleeps(d) ==
  /\ loaded /\ d \in open \ closer /\ mi[d].rootvp # None /\ Prompt(d)
  /\ open' = open \ {d} /\ closer' = closer \cup {d}
  /\ node' = Marked(d) /\ call' = Thrown(d)
  /\ UNCHANGED <<loaded, holds, instances, mi, mnt, got, panic>>

vc_nb_close(d) ==
  /\ loaded /\ d \in open /\ mi[d].rootvp # None /\ Prompt(d) /\ Counted(d) = {}
  /\ open' = open \ {d}
  /\ dounmount(mi[d].vfsp, Marked(d))
  /\ UNCHANGED <<loaded, holds, closer, call>>

\* The last caller has woken the thread in vc_nb_close, which reads mi_vfsp now.
CloseUnmounts_Early(d) ==
  /\ d \in closer
  /\ closer' = closer \ {d}
  /\ dounmount(mi[d].vfsp, node)
  /\ UNCHANGED <<loaded, holds, open, call>>

CloseUnmounts(d) ==
  /\ d \in closer /\ Counted(d) = {}
  /\ closer' = closer \ {d}
  /\ dounmount(mi[d].vfsp, node)
  /\ UNCHANGED <<loaded, holds, open, call>>

-----------------------------------------------------------------------------
\* A thread in coda_mount that does not sleep runs on.
Mounting(m) == MakeRoot(m) \/ MountDone(m) \/ MountFails(m)
Loading ==
  \/ darwin_coda_start \/ StartRefused \/ StartNoDevice
  \/ darwin_coda_stop \/ StopRefused
OfMount(m) ==
  \/ coda_start(m) \/ coda_root(m) \/ RootAnswered(m) \/ RootThrown(m)
  \/ coda_fhtovp(m) \/ FhtovpAnswered(m) \/ CallFails(m)
  \/ VenusAnswers(m) \/ Interrupted(m) \/ Umount(m)
OfDevice(d) ==
  \/ \E m \in Mounts : coda_mount(m, d)
  \/ vc_nb_open(d) \/ CloseBare(d) \/ CloseSleeps(d) \/ vc_nb_close(d) \/ CloseUnmounts(d)

Next ==
  /\ ~panic
  /\ \/ \E m \in Mounts : Mounting(m)
     \/ /\ Half = {} \/ "sleep" \in Env
        /\ Loading \/ (\E m \in Mounts : OfMount(m)) \/ (\E d \in Devs : OfDevice(d))

Spec == Init /\ [][Next]_vars

-----------------------------------------------------------------------------
(* Properties.                                                             *)

\* coda_instances is the number of mounts, whatever goes wrong: those whose device
\* was taken over or opened again are counted, failed ones are not.
InstancesRight == loaded => instances = Cardinality(Mounted)

\* Nobody is inside an extension that is gone: no thread sleeps in coda_mount,
\* coda_root, coda_fhtovp or vc_nb_close when darwin_coda_stop, which looks at
\* coda_instances alone, unloads it, and no mount is left to send one there.
\* That the device is closed is not said: Venus may still have it open.
NobodyInside ==
  ~loaded => /\ \A m \in Mounts : mnt[m].st = "no" /\ call[m] = NoCall
             /\ closer = {}

\* coda_root, which uses mi_rootvp after its upcall, finds one, coda_fhtovp still
\* has a mount, and dounmount, given mi_vfsp after a sleep, has a mount to undo.
NoPanic == ~panic

\* "auto-unmounting any vfs mounted via this device" (vc_nb_close): once a device
\* has been closed nothing is mounted by way of it.
ClosedUnmounts == \A d \in Devs \ (open \cup closer) : Mounted \cap On(d) = {}
=============================================================================
