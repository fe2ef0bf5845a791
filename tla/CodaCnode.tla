----------------------------- MODULE CodaCnode -----------------------------
(***************************************************************************)
(* The cnodes: coda_subr.c, make_coda_node, coda_inactive, coda_reclaim    *)
(* and coda_getattr of coda_vnops.c, coda_mount, coda_root and             *)
(* coda_unmount of coda_vfsops.c as far as they create, rehash and destroy *)
(* cnodes.  A cnode has one link, c_next, for the hash chains and for the  *)
(* freelist, so the lists are modelled with their pointers.                *)
(*                                                                         *)
(* Whoever runs holds the kernel funnel and loses it only where it sleeps. *)
(* make_coda_node may sleep twice, when the kernel makes a vnode and when  *)
(* it makes the memory object of a regular file: Sleeps says which of the  *)
(* two do.  There is one file system, mounted again after it went away.    *)
(***************************************************************************)
EXTENDS Integers, FiniteSets, FiniteSetsExt

CONSTANTS
  Cnodes,     \* addresses of cnodes
  Nil,        \* the null pointer
  Files,      \* fids Venus uses
  RootFid,    \* INVAL_FID: the root before Venus has been asked
  CtlFid,     \* CTL_FID: the control object
  HashOf,     \* coda_hash
  Users,      \* threads that use files
  Mounter,    \* the thread that mounts
  Sleeps,     \* subset of {"newvnode", "ubc"}
  MaxMounts,  \* bound on the number of mounts
  Env         \* misfortunes: see Quiet

Fids == Files \cup {RootFid, CtlFid}
Threads == Users \cup {Mounter}
Buckets == {HashOf[f] : f \in Fids}

ASSUME CnodeAssumption ==
  /\ Nil \notin Cnodes /\ Mounter \notin Users /\ Nil \notin Threads /\ IsFiniteSet(Users)
  /\ RootFid \notin Files /\ CtlFid \notin Files /\ RootFid # CtlFid
  /\ HashOf \in [Fids -> Nat]
  /\ Sleeps \subseteq {"newvnode", "ubc"}
  /\ MaxMounts \in Nat \ {0}
  /\ Env \subseteq {"late"}

VARIABLES
  links,    \* the pointers: coda_cache, coda_freelist and the c_next of each
  fresh,    \* cnodes the memory allocator has not handed out yet
  fid,      \* c_fid
  flags,    \* c_flags: C_VATTR, C_UNMOUNTING
  vnode,    \* the vnode: on no list, on that of the mount or on none at all
  use,      \* its v_usecount
  pc,       \* where a thread is, its cnode, whether the vnode still has it
  root,     \* the cnode of rootvp in coda_mount, then of mi_rootvp
  owed,     \* outstanding_upcalls, once the device is being closed, until vflush runs
  mounts    \* how many times the file system has been mounted

vars == <<links, fresh, fid, flags, vnode, use, pc, root, owed, mounts>>

Pointer == Cnodes \cup {Nil}
NotClosing == -1
Flushing == -2
Idle == [at |-> "idle", cp |-> Nil, live |-> FALSE]

TypeOK ==
  /\ links \in [head : [Buckets -> Pointer], free : Pointer, next : [Cnodes -> Pointer]]
  /\ fresh \subseteq Cnodes
  /\ fid \in [Cnodes -> Fids]
  /\ flags \in [Cnodes -> SUBSET {"vattr", "unmounting"}]
  /\ vnode \in [Cnodes -> {"none", "mount", "nomount"}]
  /\ use \in [Cnodes -> 0..(Cardinality(Threads) + MaxMounts)]
  /\ pc \in [Threads -> [at : {"idle", "newvnode", "ubc", "has", "getattr", "answered",
                               "failed"},
                         cp : Pointer, live : BOOLEAN]]
  /\ root \in Pointer
  /\ owed \in {NotClosing, Flushing} \cup 0..Cardinality(Threads)
  /\ mounts \in 0..MaxMounts

Init ==
  /\ links = [head |-> [b \in Buckets |-> Nil], free |-> Nil,
              next |-> [c \in Cnodes |-> Nil]]
  /\ fresh = Cnodes
  /\ fid = [c \in Cnodes |-> RootFid] /\ flags = [c \in Cnodes |-> {}]
  /\ vnode = [c \in Cnodes |-> "none"] /\ use = [c \in Cnodes |-> 0]
  /\ pc = [t \in Threads |-> Idle]
  /\ root = Nil /\ owed = NotClosing /\ mounts = 0

-----------------------------------------------------------------------------
(* The lists.  L is a value of links.                                      *)

\* A set of cnodes that has with every cnode the next one.
Onward(L, S) == \A c \in S : L.next[c] \in S \cup {Nil}

\* The cnodes from p on: whoever searches a list from p meets these.
Following(L, p) == {S \in SUBSET Cnodes : {p} \ {Nil} \subseteq S /\ Onward(L, S)}
Members(L, p) == LET all == Following(L, p) IN {c \in Cnodes : \A S \in all : c \in S}

\* Whoever does so comes to an end.
Terminates(L, p) == p = Nil \/ \E c \in Members(L, p) : L.next[c] = Nil

\* coda_free
Freed(L, c) == [L EXCEPT !.next[c] = L.free, !.free = c]

\* coda_save
Saved(L, c, f) ==
  [L EXCEPT !.next[c] = L.head[HashOf[f]], !.head[HashOf[f]] = c]

\* coda_unsave: nothing happens to a cnode that is not on the chain of its fid.
Unsaved_HeadOnly(L, c, f) ==
  IF L.head[HashOf[f]] = c THEN [L EXCEPT !.head[HashOf[f]] = L.next[c], !.next[c] = Nil]
  ELSE L
Unsaved(L, c, f) ==
  LET first == L.head[HashOf[f]]
      before == {p \in Members(L, first) : L.next[p] = c}
  IN IF first = c THEN [L EXCEPT !.head[HashOf[f]] = L.next[c], !.next[c] = Nil]
     ELSE IF before = {} THEN L
     ELSE [L EXCEPT !.next[CHOOSE p \in before : TRUE] = L.next[c], !.next[c] = Nil]

Dying(c) == "unmounting" \in flags[c]

\* coda_find: the first on the chain that has the fid and is not dying.
Matching(f) == {c \in Members(links, links.head[HashOf[f]]) : fid[c] = f /\ ~Dying(c)}
Found(f) == Matching(f) # {}
Find(f) == CHOOSE c \in Matching(f) : Matching(f) \subseteq Members(links, c)

-----------------------------------------------------------------------------
(* Who may run.                                                            *)

\* A thread that is in make_coda_node and not asleep keeps the funnel, and so
\* does the mounter between the root and the control object, and vflush to its end.
Funnel(t) ==
  /\ owed # Flushing
  /\ \A u \in Threads \ {t} :
       /\ pc[u].at \in {"newvnode", "ubc"} => pc[u].at \in Sleeps
       /\ u = Mounter => pc[u].at # "has"

\* Unless "late" is in Env, no file system goes away while one of its cnodes is
\* being made.
Quiet == "late" \in Env \/ \A t \in Threads : pc[t].at \notin {"newvnode", "ubc"}

Kernel(t) == Funnel(t)

\* Venus does not wait for those it has answered: they may run after its downcalls.
Venus == Funnel(Nil)

Mounted == root # Nil
Rooted == Mounted /\ fid[root] # RootFid
Closing == owed # NotClosing

-----------------------------------------------------------------------------
(* make_coda_node                                                          *)

Goes(t, at, c) == pc' = [pc EXCEPT ![t] = [at |-> at, cp |-> c, live |-> TRUE]]

\* coda_alloc takes the first of the freelist, or new memory.
Alloc == IF links.free # Nil THEN {links.free} ELSE fresh

\* VREF
Referenced(c) == [use EXCEPT ![c] = @ + 1]

Make(t, f) ==
  \/ /\ Found(f)
     /\ Goes(t, "has", Find(f))
     /\ use' = Referenced(Find(f))
     /\ UNCHANGED <<links, fresh, fid, flags, vnode>>
  \/ /\ ~Found(f)
     /\ \E c \in Alloc :
          /\ links' = [links EXCEPT !.free = IF @ = Nil THEN Nil ELSE links.next[c],
                                    !.next[c] = Nil]
          /\ fresh' = fresh \ {c}
          /\ fid' = [fid EXCEPT ![c] = f] /\ flags' = [flags EXCEPT ![c] = {}]
          /\ Goes(t, "newvnode", c)
     /\ UNCHANGED <<vnode, use>>

\* The control object is on no mount's list of vnodes.
MountOf_Vfsp(f) == "mount"
MountOf(f) == IF f = CtlFid THEN "nomount" ELSE "mount"

NewVnode(t) ==
  /\ Kernel(t) /\ pc[t].at = "newvnode"
  /\ Goes(t, "ubc", pc[t].cp)
  /\ vnode' = [vnode EXCEPT ![pc[t].cp] = MountOf(fid[pc[t].cp])]
  /\ use' = [use EXCEPT ![pc[t].cp] = 1]
  /\ UNCHANGED <<links, fresh, fid, flags, root, owed, mounts>>

\* The cnode is saved even if the vnode was reclaimed in the meantime.
Save(t) ==
  /\ Kernel(t) /\ pc[t].at = "ubc"
  /\ links' = Saved(links, pc[t].cp, fid[pc[t].cp])
  /\ pc' = [pc EXCEPT ![t].at = "has"]
  /\ UNCHANGED <<fresh, fid, flags, vnode, use, root, owed, mounts>>

-----------------------------------------------------------------------------
(* The users of a file.                                                    *)

\* namei has been through coda_root, so the root is that of Venus; make_coda_node comes
\* after an answer of Venus, and there is none from a closed device.
Get(t, f) ==
  /\ Kernel(t) /\ pc[t].at = "idle" /\ Rooted /\ ~Closing
  /\ Make(t, f)
  /\ UNCHANGED <<root, owed, mounts>>

\* coda_inactive: the control object stays where it is.
Inactive(L, c) == IF fid[c] = CtlFid THEN L ELSE Unsaved(L, c, fid[c])

\* The last vrele makes the vnode inactive; one that is not dying is reclaimed
\* at once, the others are left to vflush.
Reclaims_Never(c) == FALSE
Reclaims(c) == ~Dying(c)

Dropped(c) == [use EXCEPT ![c] = @ - 1]

Vrele(c) ==
  /\ use' = Dropped(c)
  /\ \/ use[c] > 1 /\ UNCHANGED <<links, vnode, flags>>
     \/ /\ use[c] = 1 /\ Reclaims(c)
        /\ links' = Freed(Inactive(links, c), c)
        /\ vnode' = [vnode EXCEPT ![c] = "none"]
        /\ flags' = [flags EXCEPT ![c] = {}]
     \/ /\ use[c] = 1 /\ ~Reclaims(c)
        /\ links' = Inactive(links, c)
        /\ UNCHANGED <<vnode, flags>>

Put(t) ==
  /\ Kernel(t) /\ t \in Users /\ pc[t].at = "has"
  /\ pc' = [pc EXCEPT ![t] = Idle]
  /\ \/ pc[t].live /\ Vrele(pc[t].cp)
     \/ ~pc[t].live /\ UNCHANGED <<links, vnode, use, flags>>
  /\ UNCHANGED <<fresh, fid, root, owed, mounts>>

\* coda_getattr up to the upcall: a dying file and a cached answer need none.
Getattr(t) ==
  /\ Kernel(t) /\ t \in Users /\ pc[t].at = "has" /\ pc[t].live
  /\ ~Closing /\ ~Dying(pc[t].cp) /\ "vattr" \notin flags[pc[t].cp]
  /\ pc' = [pc EXCEPT ![t].at = "getattr"]
  /\ UNCHANGED <<links, fresh, fid, flags, vnode, use, root, owed, mounts>>

GetattrAnswer(t) ==
  /\ Venus /\ ~Closing /\ pc[t].at = "getattr"
  /\ pc' = [pc EXCEPT ![t].at = "answered"]
  /\ UNCHANGED <<links, fresh, fid, flags, vnode, use, root, owed, mounts>>

\* A caller that leaves coda_call while the device is being closed counts down.
Returns(t) ==
  /\ pc' = [pc EXCEPT ![t].at = "has"]
  /\ owed' = IF Closing /\ owed > 0 THEN owed - 1 ELSE owed

\* The rest of coda_getattr: what a file open for writing gets is not kept.
GetattrKeep(t) ==
  /\ Kernel(t) /\ pc[t].at = "answered" /\ Returns(t)
  /\ flags' = [flags EXCEPT ![pc[t].cp] = @ \cup {"vattr"}]
  /\ UNCHANGED <<links, fresh, fid, vnode, use, root, mounts>>

GetattrPass(t) ==
  /\ Kernel(t) /\ pc[t].at \in {"answered", "failed"} /\ Returns(t)
  /\ UNCHANGED <<links, fresh, fid, flags, vnode, use, root, mounts>>

-----------------------------------------------------------------------------
(* Downcalls.                                                              *)

\* The condition for C_PURGING, which has no effect, does not count here.
Invalid(c) == flags[c] \ {"vattr"}

Unattr(c) == flags' = [flags EXCEPT ![c] = Invalid(c)]

\* CODA_ZAPFILE, and what CODA_ZAPDIR and CODA_PURGEFID do to the cnode.
Zapfile(f) ==
  /\ Venus /\ ~Closing
  /\ Found(f) /\ Unattr(Find(f))
  /\ UNCHANGED <<links, fresh, fid, vnode, use, pc, root, owed, mounts>>

Rehash_Lost(c, f) == Saved(links, c, f)
Rehash(c, f) == Saved(Unsaved(links, c, fid[c]), c, f)

\* CODA_REPLACE: Venus gives a local file a fid no cnode has yet.
Replace(f, g) ==
  /\ Venus /\ ~Closing
  /\ Found(f)
  /\ \A c \in Cnodes : fid[c] = g => vnode[c] = "none" /\ \A t \in Threads : pc[t].cp # c
  /\ links' = Rehash(Find(f), g)
  /\ fid' = [fid EXCEPT ![Find(f)] = g]
  /\ UNCHANGED <<fresh, flags, vnode, use, pc, root, owed, mounts>>

-----------------------------------------------------------------------------
(* The file system comes and goes.                                         *)

coda_mount ==
  /\ Kernel(Mounter) /\ ~Mounted /\ pc[Mounter] = Idle /\ mounts < MaxMounts
  /\ Make(Mounter, RootFid)
  /\ UNCHANGED <<root, owed, mounts>>

MountCtl ==
  /\ pc[Mounter].at = "has" /\ fid[pc[Mounter].cp] = RootFid
  /\ root' = pc[Mounter].cp
  /\ Make(Mounter, CtlFid)
  /\ UNCHANGED <<owed, mounts>>

MountDone ==
  /\ pc[Mounter].at = "has" /\ fid[pc[Mounter].cp] = CtlFid
  /\ pc' = [pc EXCEPT ![Mounter] = Idle]
  /\ mounts' = mounts + 1
  /\ UNCHANGED <<links, fresh, fid, flags, vnode, use, root, owed>>

\* coda_root, when Venus has answered
coda_root(f) ==
  /\ Venus /\ Mounted /\ pc[Mounter] = Idle /\ ~Rooted /\ ~Closing
  /\ links' = Rehash(root, f)
  /\ fid' = [fid EXCEPT ![root] = f]
  /\ UNCHANGED <<fresh, flags, vnode, use, pc, root, owed, mounts>>

\* vc_nb_close: coda_unmounting marks what is in the table, and those who wait
\* for Venus are woken and counted.  That nobody is on the way out of coda_call
\* is assumed: CodaUpcall shows what becomes of the count otherwise.
\* What the last mount does is seen without closing it.
Marked ==
  {root} \cup {c \in UNION {Members(links, links.head[b]) : b \in Buckets} :
                 vnode[c] = "mount"}

vc_nb_close ==
  /\ Venus /\ Mounted /\ pc[Mounter] = Idle /\ ~Closing /\ mounts < MaxMounts
  /\ \A t \in Threads : pc[t].at # "answered"
  /\ flags' = [c \in Cnodes |->
                 IF c \in Marked THEN flags[c] \cup {"unmounting"} ELSE flags[c]]
  /\ LET waiting == {t \in Threads : pc[t].at = "getattr"}
     IN /\ owed' = Cardinality(waiting)
        /\ pc' = [t \in Threads |->
                    IF t \in waiting THEN [pc[t] EXCEPT !.at = "failed"] ELSE pc[t]]
  /\ UNCHANGED <<links, fresh, fid, vnode, use, root, mounts>>

\* coda_unmount: vrele of the root, coda_kill (it only counts), and vflush.
coda_unmount ==
  /\ Funnel(Nil) /\ Quiet /\ Closing /\ owed = 0
  /\ Vrele(root)
  /\ root' = Nil /\ owed' = Flushing
  /\ UNCHANGED <<fresh, fid, pc, mounts>>

\* With FORCECLOSE vflush reclaims every vnode of the mount, one at a time, after making
\* inactive those still in use.  Who uses one of them is left with a dead vnode.
Vflush(c) ==
  /\ owed = Flushing /\ vnode[c] = "mount"
  /\ links' = Freed(IF use[c] > 0 THEN Inactive(links, c) ELSE links, c)
  /\ vnode' = [vnode EXCEPT ![c] = "none"] /\ use' = [use EXCEPT ![c] = 0]
  /\ flags' = [flags EXCEPT ![c] = {}]
  /\ pc' = [t \in Threads |-> IF pc[t].cp = c THEN [pc[t] EXCEPT !.live = FALSE] ELSE pc[t]]
  /\ UNCHANGED <<fresh, fid, root, owed, mounts>>

Unmounted ==
  /\ owed = Flushing /\ \A c \in Cnodes : vnode[c] # "mount"
  /\ owed' = NotClosing
  /\ UNCHANGED <<links, fresh, fid, flags, vnode, use, pc, root, mounts>>

Next ==
  \/ \E t \in Users, f \in Files : Get(t, f)
  \/ \E t \in Threads :
       \/ NewVnode(t) \/ Save(t) \/ Put(t)
       \/ Getattr(t) \/ GetattrAnswer(t) \/ GetattrKeep(t) \/ GetattrPass(t)
  \/ \E f \in Files : Zapfile(f) \/ coda_root(f)
  \/ \E f, g \in Files : Replace(f, g)
  \/ coda_mount \/ MountCtl \/ MountDone
  \/ vc_nb_close \/ coda_unmount \/ (\E c \in Cnodes : Vflush(c)) \/ Unmounted

Spec == Init /\ [][Next]_vars

-----------------------------------------------------------------------------
(* Correctness.                                                            *)

InTable(c) == \E b \in Buckets : c \in Members(links, links.head[b])
Making(c) == \E t \in Threads : pc[t].cp = c /\ pc[t].at \in {"newvnode", "ubc"}

\* The one link of a cnode serves one list: no list has a loop, the chain of a
\* bucket has the cnodes in use whose fid hashes to it, whatever fids they had
\* before, and the freelist has those that are not used for anything.
ListsRight ==
  /\ TypeOK
  /\ \A p \in {links.free} \cup {links.head[b] : b \in Buckets} : Terminates(links, p)
  /\ \A b \in Buckets :
       Members(links, links.head[b]) =
         {c \in Cnodes : use[c] > 0 /\ ~Making(c) /\ HashOf[fid[c]] = b}
  /\ Members(links, links.free) =
       {c \in Cnodes \ fresh : vnode[c] = "none" /\ ~Making(c)}

\* A vnode of the file system has the references of those who use it, so it is
\* neither reclaimed under a user nor left over: dying ones excepted, what
\* nobody uses is gone.
UseRight ==
  \A c \in {d \in Cnodes : vnode[d] = "mount"} :
    /\ use[c] = Cardinality({t \in Threads : pc[t].cp = c /\ pc[t].live})
                + (IF c = root THEN 1 ELSE 0)
    /\ use[c] = 0 => Dying(c)

LiveAs(f) == {c \in Cnodes : fid[c] = f /\ ~Dying(c) /\ InTable(c)}

\* The references of the cnodes of a file, and the files with cached attributes.
Total(u, S) == MapThenSumSet(LAMBDA c : u[c], S)
UsersOf == [f \in Fids |-> Total(use, LiveAs(f))]
AttrsOf == {f \in Fids : \E c \in LiveAs(f) : "vattr" \in flags[c]}

\* The table is a set of files in use, each with one cnode.
FilesSpec == INSTANCE CodaFiles WITH
  Fids <- Fids, Pinned <- {CtlFid}, users <- UsersOf, attrs <- AttrsOf

ImplementsFiles == FilesSpec!ASpec

=============================================================================
