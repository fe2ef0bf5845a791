----------------------------- MODULE CodaNames -----------------------------
(***************************************************************************)
(* The name space: coda_lookup and the operations on directories of        *)
(* coda_vnops.c, with the locks and references of the vnodes, the name     *)
(* cache, the cached attributes of directories and the link counts of      *)
(* files, against the directories Venus has.                               *)
(*                                                                         *)
(* A node is a fid and its vnode.  Threads come from the vnode layer,      *)
(* which looks the last name of a path up with the directory locked and    *)
(* then calls the operation.  They sleep in upcalls and for locks: a       *)
(* thread that has the node it looked for ("has") is running.              *)
(*                                                                         *)
(* One user; the name cache is the map that CodaNameCache implements, and  *)
(* may lose entries at any time to names that are not modelled.            *)
(***************************************************************************)
EXTENDS Integers, Sequences, FiniteSets

CONSTANTS
  Threads,    \* threads of the kernel
  Dirs,       \* directories, the ones to be made included
  Root,       \* the root of the file system
  Files,      \* files, the ones to be made included
  Ctl,        \* the control object
  Names,      \* names
  CtlName,    \* .CONTROL, a name in the root only
  Dot, DotDot,
  None,       \* no node, no thread, no attributes
  Tree,       \* the directories at the start
  CacheSize,  \* how many entries the name cache has
  MaxOps,     \* bound on the operations threads start
  Ops,        \* which operations they start
  Env         \* misfortunes: see the actions that name them

Nodes == Dirs \cup Files \cup {Ctl}

Linked(t) == {t[d][n] : d \in Dirs, n \in Names} \ {None}

\* What Venus starts with: only directories that are there have something in them,
\* one that is there has one name, the root none, and there is no circle.
IsTree(t) ==
  /\ \A d \in Dirs, n \in Names : t[d][n] # None => d \in Linked(t) \cup {Root}
  /\ \A d, e \in Dirs, n, m \in Names :
       t[d][n] \in Dirs /\ t[d][n] = t[e][m] => d = e /\ n = m /\ t[d][n] # Root
  /\ \A X \in (SUBSET Dirs) \ {{}} : \E x \in X : \A n \in Names : t[x][n] \notin X

ASSUME NamesAssumption ==
  /\ IsFiniteSet(Threads) /\ Root \in Dirs /\ Dirs \cap Files = {}
  /\ Ctl \notin Dirs \cup Files /\ None \notin Nodes \cup Threads \cup Int
  /\ {CtlName, Dot, DotDot} \cap Names = {} /\ Cardinality({CtlName, Dot, DotDot}) = 3
  /\ Tree \in [Dirs -> [Names -> Dirs \cup Files \cup {None}]]
  /\ IsTree(Tree)
  /\ CacheSize \in Nat \ {0} /\ MaxOps \in Nat
  /\ Env \subseteq {"late", "across", "overlap", "failing", "interrupted",
                   "control"}

VARIABLES
  lock,    \* c_lock: who holds it
  use,     \* references of the vnode that threads have
  cache,   \* the name cache
  attr,    \* how far the cached attributes are off: 1 for a directory that has
           \* changed, the link count less the real one for a file
  pc,      \* where each thread is, and with which names and nodes
  known,   \* nodes that have had a cnode
  tree,    \* Venus: what the names in a directory stand for
  fresh,   \* Venus: fids it has not used
  panicked,
  ops      \* how many operations were started

vars == <<lock, use, cache, attr, pc, known, tree, fresh, panicked, ops>>

Source == [dir |-> None, name |-> None, node |-> None]
Idle == [at |-> "idle", op |-> "none", dir |-> None, name |-> None, node |-> None,
         from |-> Source]

AllNames == Names \cup {CtlName, Dot, DotDot}
Operations == {"walk", "up", "mkdirup", "create", "mkdir", "symlink", "link", "remove",
               "rmdir", "from", "rename", "symlinked"}

TypeOK ==
  /\ lock \in [Nodes -> Threads \cup {None}] /\ use \in [Nodes -> Nat]
  /\ cache \subseteq [dir : Dirs, name : Names \cup {Dot, DotDot}, node : Nodes]
  /\ Cardinality(cache) <= CacheSize
  /\ attr \in [Nodes -> Int \cup {None}]
  /\ pc \in [Threads -> [at : {"idle", "lookup", "found", "child", "relock", "has", "second",
                               "asked", "done", "refused", "hold"},
                         op : Operations \cup {"none"},
                         dir : Dirs \cup {None}, name : AllNames \cup {None},
                         node : Nodes \cup {None},
                         from : [dir : Dirs \cup {None}, name : AllNames \cup {None},
                                 node : Nodes \cup {None}]]]
  /\ known \subseteq Nodes /\ fresh \subseteq Nodes
  /\ tree \in [Dirs -> [Names -> Dirs \cup Files \cup {None}]]
  /\ panicked \in BOOLEAN /\ ops \in 0..MaxOps

Init ==
  /\ lock = [n \in Nodes |-> None] /\ use = [n \in Nodes |-> 0]
  /\ cache = {} /\ attr = [n \in Nodes |-> None]
  /\ pc = [t \in Threads |-> Idle]
  /\ known = Linked(Tree) \cup {Root, Ctl}
  /\ tree = Tree /\ fresh = Nodes \ (Linked(Tree) \cup {Root, Ctl})
  /\ panicked = FALSE /\ ops = 0

-----------------------------------------------------------------------------
(* The directories of Venus.                                               *)

Alive(n) == n = Root \/ n \in Linked(tree)
Links(f) == Cardinality({x \in Dirs \X Names : tree[x[1]][x[2]] = f})
Parents(d) == {p \in Dirs : \E n \in Names : tree[p][n] = d}

Binding(d, n) ==
  CASE n \in Names -> tree[d][n]
    [] n = Dot -> d
    [] n = DotDot /\ Parents(d) # {} -> CHOOSE p \in Parents(d) : TRUE
    [] OTHER -> None

\* Whether d is b or lies below it.
Below(d, b) ==
  \A S \in SUBSET Dirs : d \in S /\ (\A x \in S : Parents(x) \subseteq S) => b \in S

\* The cached attributes after the directories D and the link count of f change.
Off(D, f, n) == [x \in Nodes |->
                   IF attr[x] = None THEN None
                   ELSE IF x \in D THEN 1
                   ELSE IF x = f /\ f \in Files THEN attr[x] - n ELSE attr[x]]

-----------------------------------------------------------------------------
(* Threads.                                                                *)

Running(t) == pc[t].at = "has"
Kernel(t) == \A u \in Threads \ {t} : ~Running(u)
Venus == \A t \in Threads : ~Running(t)

At(t, s) == pc[t].at = s
Go(t, p, s) == pc' = [pc EXCEPT ![t] = [p EXCEPT !.at = s]]

\* How often a node is one of S.
Times(S, n) == Cardinality({i \in DOMAIN S : S[i] = n})
Unlocked(L, t, S) == [n \in Nodes |-> IF L[n] = t /\ Times(S, n) > 0 THEN None ELSE L[n]]
Dropped(U, S) == [n \in Nodes |-> U[n] - Times(S, n)]

\* vput for the nodes of puts (coda_unlock does nothing to a vnode that is not
\* locked), vrele for those of rels.
GiveBack(t, puts, rels) ==
  /\ lock' = Unlocked(lock, t, puts)
  /\ use' = Dropped(Dropped(use, puts), rels)
  /\ pc' = [pc EXCEPT ![t] = Idle]

-----------------------------------------------------------------------------
(* coda_lookup.                                                            *)

\* LOCKPARENT and ISLASTCN: the operation wants the directory to stay locked.
Wanting == {"mkdirup", "create", "mkdir", "symlink", "symlinked", "link", "remove", "rmdir",
            "rename"}
Holds_NotCreate(p) == p.op \in Wanting \ {"create"}
Holds(p) == p.op \in Wanting

\* ISDOTDOT unlocks the directory before anything else.
LockedFor_DotDot(t, p) == [lock EXCEPT ![p.dir] = t]
LockedFor(t, p) == IF p.name = DotDot THEN lock ELSE [lock EXCEPT ![p.dir] = t]

\* coda_nc_enter.  Names that are too long and those Venus forbids are not
\* entered, what is there already stays, and room is made if necessary.
Entered(C, e) ==
  {C} \cup (IF \E x \in C : x.dir = e.dir /\ x.name = e.name THEN {}
            ELSE IF Cardinality(C) < CacheSize THEN {C \cup {e}}
            ELSE {(C \ {x}) \cup {e} : x \in C})
Entry(d, n, c) == [dir |-> d, name |-> n, node |-> c]
Cached(d, n) == {e \in cache : e.dir = d /\ e.name = n}

\* The directory is unlocked unless it is wanted.
Left(p, L) == IF Holds(p) \/ p.name = DotDot THEN L ELSE [L EXCEPT ![p.dir] = None]

\* vn_lock got the lock of the node.
GotChild(t, p, L) ==
  /\ lock' = [L EXCEPT ![p.node] = t]
  /\ Go(t, p, IF p.op = "mkdirup" THEN "relock" ELSE "has")

\* The node c was found, L are the locks: it is referenced and locked, which may
\* take a while.  The directory is unlocked before, for the control object after.
Reach(t, p, L, U, c) ==
  LET M == Left(p, L)
      q == [p EXCEPT !.node = c]
  IN /\ use' = [U EXCEPT ![c] = @ + 1]
     /\ \/ M[c] = None /\ GotChild(t, q, M)
        \/ /\ M[c] # None /\ Go(t, q, "child")
           /\ lock' = IF c = Ctl THEN L ELSE M

\* The search in the name cache; a miss is an upcall.
coda_lookup(t, p, U) ==
  LET L == LockedFor(t, p)
      hit == Cached(p.dir, p.name)
  IN \/ p.name = CtlName /\ Reach(t, p, L, U, Ctl)
     \/ hit # {} /\ \E e \in hit : Reach(t, p, L, U, e.node)
     \/ /\ p.name # CtlName /\ hit = {}
        /\ lock' = L /\ use' = U /\ Go(t, p, "lookup")

\* A path that ends in name n of directory d.  A rename and a link have been
\* to their source before.
Call(t, op, d, n, from) ==
  /\ Kernel(t) /\ lock[d] = None
  /\ n = CtlName => d = Root /\ (op \in {"from", "rename"} => "control" \in Env)
  /\ coda_lookup(t, [at |-> "idle", op |-> op, dir |-> d, name |-> n, node |-> None,
                     from |-> from], [use EXCEPT ![d] = @ + 1])

Start(t) ==
  /\ At(t, "idle") /\ ops < MaxOps /\ ops' = ops + 1
  /\ \E d \in known \cap Dirs :
       \/ \E op \in Ops \cap {"walk", "create", "mkdir", "symlink", "remove", "rmdir", "from"},
             n \in Names \cup {CtlName} : Call(t, op, d, n, Source)
       \/ d # Root /\ \E op \in Ops \cap {"up", "mkdirup"} : Call(t, op, d, DotDot, Source)
  /\ UNCHANGED <<cache, attr, known, tree, fresh, panicked>>

\* link: the path of the source has been walked, which leaves a reference.
StartLink(t) ==
  /\ At(t, "idle") /\ ops < MaxOps /\ ops' = ops + 1 /\ "link" \in Ops /\ Kernel(t)
  /\ \E s \in known \cap (Files \cup {Ctl}) :
       /\ s = Ctl => "control" \in Env
       /\ use' = [use EXCEPT ![s] = @ + 1]
       /\ Go(t, [Idle EXCEPT !.op = "link", !.from = [Source EXCEPT !.node = s]], "second")
  /\ UNCHANGED <<lock, cache, attr, known, tree, fresh, panicked>>

Second(t) ==
  /\ At(t, "second")
  /\ \E d \in known \cap Dirs, n \in Names \cup {CtlName} :
       /\ pc[t].op = "rename" => d = pc[t].from.dir \/ "across" \in Env
       /\ Call(t, pc[t].op, d, n, pc[t].from)
  /\ UNCHANGED <<cache, attr, known, tree, fresh, panicked, ops>>

LookupAnswer(t) ==
  /\ Venus /\ At(t, "lookup")
  /\ Go(t, [pc[t] EXCEPT !.node = Binding(pc[t].dir, pc[t].name)], "found")
  /\ UNCHANGED <<lock, use, cache, attr, known, tree, fresh, panicked, ops>>

\* venus_lookup was interrupted or Venus said something else.
LookupFails(t) ==
  LET p == pc[t] IN
  /\ Kernel(t) /\ At(t, "lookup")
  /\ \/ /\ p.name = DotDot /\ Go(t, [p EXCEPT !.op = "up"], "relock") /\ UNCHANGED <<lock, use>>
     \/ p.name # DotDot /\ GiveBack(t, <<p.dir>>, <<p.from.dir, p.from.node>>)
  /\ UNCHANGED <<cache, attr, known, tree, fresh, panicked, ops>>

Found(t) ==
  LET p == pc[t] IN
  /\ Kernel(t) /\ At(t, "found") /\ p.node # None
  /\ known' = known \cup {p.node}
  /\ cache' \in Entered(cache, Entry(p.dir, p.name, p.node))
  /\ Reach(t, p, lock, use, p.node)
  /\ UNCHANGED <<attr, tree, fresh, panicked, ops>>

\* No such name.  An operation that makes one goes on with the directory
\* locked (EJUSTRETURN); for the others the directory is given back.
NotFound(t) ==
  LET p == pc[t] IN
  /\ Kernel(t) /\ At(t, "found") /\ p.node = None
  /\ \/ p.name = DotDot /\ Go(t, p, "relock") /\ UNCHANGED <<lock, use>>
     \/ /\ p.op \in {"create", "mkdir", "symlink", "symlinked", "link", "rename"}
        /\ Go(t, p, "has") /\ UNCHANGED <<lock, use>>
     \/ /\ p.op \in {"walk", "remove", "rmdir", "from"} /\ GiveBack(t, <<p.dir>>, <<>>)
  /\ UNCHANGED <<cache, attr, known, tree, fresh, panicked, ops>>

\* vn_lock got the lock of the node, or of the directory of a "..".
Locked(t) ==
  LET p == pc[t] IN
  /\ Kernel(t)
  /\ \/ /\ At(t, "child") /\ lock[p.node] = None /\ UNCHANGED use
        /\ GotChild(t, p, IF p.node = Ctl THEN Left(p, lock) ELSE lock)
     \/ /\ At(t, "relock") /\ lock[p.dir] = None /\ (p.node # None \/ p.op = "mkdirup")
        /\ lock' = [lock EXCEPT ![p.dir] = t] /\ Go(t, p, "has") /\ UNCHANGED use
     \/ /\ At(t, "relock") /\ lock[p.dir] = None /\ p.node = None /\ p.op = "up"
        /\ GiveBack(t, <<p.dir>>, <<>>)
  /\ UNCHANGED <<cache, attr, known, tree, fresh, panicked, ops>>

-----------------------------------------------------------------------------
(* The operations, up to their upcall.                                     *)

Forgets(d, n) == cache \ Cached(d, n)
Invalid(D) == [x \in Nodes |-> IF x \in D THEN None ELSE attr[x]]

\* The message for Venus is made and sent.
Ask(t, p) == Go(t, p, "asked")

\* The vnode layer is content with what it found, or not: it gives back what
\* coda_lookup has left it with.
Unsuitable(p) ==
  \/ p.op \in {"create", "mkdir", "symlink", "link", "mkdirup"} /\ p.node # None
  \/ p.op = "remove" /\ p.node \in Dirs
  \/ p.op = "rmdir" /\ (p.node \notin Dirs \/ p.node = p.dir)
  \/ p.op = "rename" /\ p.from.node \in {p.node, p.dir}
  \/ p.op = "rename" /\ p.node # None /\ (p.node \in Dirs) # (p.from.node \in Dirs)
  \/ p.op = "symlinked"

Return(t) ==
  LET p == pc[t] IN
  /\ At(t, "has") /\ Unsuitable(p)
  /\ GiveBack(t, <<p.dir, p.node>>, <<p.from.dir, p.from.node>>)
  /\ UNCHANGED <<cache, attr, known, tree, fresh, panicked, ops>>

\* A path that was walked: its node stays locked while something is done to it.
Walked(t) ==
  /\ At(t, "has") /\ pc[t].op \in {"walk", "up"} /\ Go(t, pc[t], "hold")
  /\ UNCHANGED <<lock, use, cache, attr, known, tree, fresh, panicked, ops>>

Release(t) ==
  /\ Kernel(t) /\ At(t, "hold")
  /\ GiveBack(t, <<pc[t].node>>, <<pc[t].dir>>)
  /\ UNCHANGED <<cache, attr, known, tree, fresh, panicked, ops>>

\* The source of a rename stays referenced and is unlocked.
SourceFound(t) ==
  LET p == pc[t] IN
  /\ At(t, "has") /\ p.op = "from"
  /\ lock' = Unlocked(lock, t, <<p.node>>)
  /\ Go(t, [Idle EXCEPT !.op = "rename",
                       !.from = [dir |-> p.dir, name |-> p.name, node |-> p.node]], "second")
  /\ UNCHANGED <<use, cache, attr, known, tree, fresh, panicked, ops>>

\* coda_create, coda_mkdir, coda_symlink and coda_link ask Venus at once.  No
\* files are created in the root.
coda_create_Unlocks(t) ==
  /\ At(t, "has") /\ pc[t].op = "create" /\ pc[t].node = None
  /\ Ask(t, pc[t]) /\ lock' = Unlocked(lock, t, <<pc[t].dir>>)
  /\ UNCHANGED <<use, cache, attr, known, tree, fresh, panicked, ops>>
coda_create(t) ==
  LET p == pc[t] IN
  /\ At(t, "has") /\ p.op = "create" /\ p.node = None
  /\ \/ p.dir = Root /\ GiveBack(t, <<p.dir>>, <<>>)
     \/ p.dir # Root /\ Ask(t, p) /\ UNCHANGED <<lock, use>>
  /\ UNCHANGED <<cache, attr, known, tree, fresh, panicked, ops>>

coda_mkdir(t) ==
  /\ At(t, "has") /\ pc[t].op \in {"mkdir", "mkdirup", "symlink"} /\ pc[t].node = None
  /\ Ask(t, pc[t])
  /\ UNCHANGED <<lock, use, cache, attr, known, tree, fresh, panicked, ops>>

\* The control object cannot be linked: EACCES, with nothing given back but the
\* source, which is its caller's.
coda_link(t) ==
  LET p == pc[t]
      denied == p.from.node = Ctl
  IN /\ At(t, "has") /\ p.op = "link" /\ p.node = None
     /\ use' = IF denied THEN Dropped(use, <<p.from.node>>) ELSE use
     /\ IF denied THEN pc' = [pc EXCEPT ![t] = Idle] ELSE Ask(t, p)
     /\ UNCHANGED <<lock, cache, attr, known, tree, fresh, panicked, ops>>

\* The link count of a file found in the name cache is corrected in advance.
OneLinkLess(F) == [f \in Nodes |->
  IF f \in F /\ attr[f] # None /\ Links(f) + attr[f] > 1 THEN attr[f] - 1 ELSE attr[f]]

\* A file that is in use is not removed if the caller says so (NODELETEBUSY).
coda_remove(t) ==
  LET p == pc[t]
      hit == {e.node : e \in Cached(p.dir, p.name)}
  IN /\ At(t, "has") /\ p.op = "remove" /\ p.node \notin Dirs
     /\ \/ GiveBack(t, <<p.node, p.dir>>, <<>>) /\ UNCHANGED <<cache, attr>>
        \/ /\ cache' = Forgets(p.dir, p.name)
           /\ attr' = [OneLinkLess(hit) EXCEPT ![p.dir] = None]
           /\ \/ p.name = CtlName /\ GiveBack(t, <<p.node, p.dir>>, <<>>)
              \/ p.name # CtlName /\ Ask(t, p) /\ UNCHANGED <<lock, use>>
     /\ UNCHANGED <<known, tree, fresh, panicked, ops>>

\* coda_nc_zapParentfid of the directory its name has in the cache.
coda_rmdir(t) ==
  LET p == pc[t]
      below == {e \in cache : \E h \in Cached(p.dir, p.name) : e.dir = h.node}
  IN /\ At(t, "has") /\ p.op = "rmdir" /\ p.node \in Dirs
     /\ cache' = Forgets(p.dir, p.name) \ below
     /\ attr' = Invalid({p.dir})
     /\ Ask(t, p)
     /\ UNCHANGED <<lock, use, known, tree, fresh, panicked, ops>>

\* What coda_rename removes from the name cache: both names and, for a move to
\* another directory, the ".." of what is cached under the first.
Renamed_SourceOnly(p) == Cached(p.from.dir, p.from.name)
Renamed(p) ==
  Cached(p.from.dir, p.from.name) \cup Cached(p.dir, p.name) \cup
  {e \in cache : /\ p.from.dir # p.dir /\ e.name = DotDot
                 /\ \E f \in Cached(p.from.dir, p.from.name) : f.node = e.dir}

\* EACCES for the control object, with nothing given back.
coda_rename(t) ==
  LET p == pc[t] IN
  /\ At(t, "has") /\ p.op = "rename" /\ ~Unsuitable(p)
  /\ IF CtlName \in {p.name, p.from.name}
     THEN pc' = [pc EXCEPT ![t] = Idle] /\ UNCHANGED <<cache, attr>>
     ELSE /\ cache' = cache \ Renamed(p) /\ attr' = Invalid({p.from.dir, p.dir})
          /\ Ask(t, p)
  /\ UNCHANGED <<lock, use, known, tree, fresh, panicked, ops>>

-----------------------------------------------------------------------------
(* What Venus does, and other clients.                                     *)

Make(p, g) ==
  /\ Alive(p.dir) /\ p.name \in Names /\ tree[p.dir][p.name] = None
  /\ tree' = [tree EXCEPT ![p.dir][p.name] = g]

Made(t) ==
  LET p == pc[t] IN
  \/ /\ p.op \in {"create", "mkdir", "symlink", "mkdirup"}
     /\ \E g \in fresh \cap (IF p.op = "mkdir" THEN Dirs ELSE Files) :
          /\ Make(p, g) /\ fresh' = fresh \ {g}
          /\ Go(t, IF p.op = "symlink" THEN p ELSE [p EXCEPT !.node = g], "done")
          /\ attr' = Off({p.dir}, None, 0)
  \/ /\ p.op = "link" /\ Alive(p.from.node) /\ Make(p, p.from.node)
     /\ Go(t, p, "done") /\ attr' = Off({p.dir}, p.from.node, 1) /\ UNCHANGED fresh

Emptied(t) ==
  LET p == pc[t]
      there == tree[p.dir][p.name]
  IN /\ p.op \in {"remove", "rmdir"} /\ there # None
     /\ (there \in Dirs) = (p.op = "rmdir")
     /\ there \in Dirs => \A n \in Names : tree[there][n] = None
     /\ tree' = [tree EXCEPT ![p.dir][p.name] = None]
     /\ attr' = Off({p.dir}, there, -1) /\ Go(t, p, "done") /\ UNCHANGED fresh

Moved(t) ==
  LET p == pc[t]
      moved == tree[p.from.dir][p.from.name]
      there == tree[p.dir][p.name]
  IN /\ p.op = "rename" /\ moved # None /\ moved # there /\ Alive(p.dir)
     /\ there # None => (there \in Dirs) = (moved \in Dirs)
     /\ there \in Dirs => \A n \in Names : tree[there][n] = None
     /\ moved \in Dirs => ~Below(p.dir, moved)
     /\ tree' = [[tree EXCEPT ![p.from.dir][p.from.name] = None]
                             EXCEPT ![p.dir][p.name] = moved]
     /\ attr' = Off({p.from.dir, p.dir}, there, -1) /\ Go(t, p, "done") /\ UNCHANGED fresh

VenusDoes(t) ==
  /\ Venus /\ At(t, "asked")
  /\ Made(t) \/ Emptied(t) \/ Moved(t)
  /\ UNCHANGED <<lock, use, cache, known, panicked, ops>>

\* Venus may refuse anything, but without "failing" not to remove a file.
VenusRefuses(t) ==
  LET p == pc[t] IN
  /\ Venus /\ At(t, "asked")
  /\ "failing" \notin Env /\ p.op = "remove" => tree[p.dir][p.name] \notin Files
  /\ Go(t, p, "refused")
  /\ UNCHANGED <<lock, use, cache, attr, known, tree, fresh, panicked, ops>>

\* The answer of Venus is lost: it has done what it was asked, the caller was
\* interrupted after Venus had read the message.
Interrupted(t) ==
  /\ "interrupted" \in Env /\ Kernel(t) /\ At(t, "done")
  /\ Go(t, IF pc[t].op \in {"create", "mkdir"} THEN [pc[t] EXCEPT !.node = None] ELSE pc[t],
        "refused")
  /\ UNCHANGED <<lock, use, cache, attr, known, tree, fresh, panicked, ops>>

\* Another client puts a new file in the place of f or nothing; CODA_ZAPDIR for
\* the directory follows.  Without "late" no answer is under way then.
Prompt == "late" \in Env \/ \A t \in Threads : pc[t].at \notin {"found", "done"}

Zapped(d) == IF d \in known THEN {e \in cache : e.dir = d} ELSE {}

Elsewhere(d, n) ==
  /\ Venus /\ Prompt /\ tree[d][n] \in Files
  /\ \E g \in (fresh \cap Files) \cup {None} :
       tree' = [tree EXCEPT ![d][n] = g] /\ fresh' = fresh \ {g}
  /\ cache' = cache \ Zapped(d)
  /\ attr' = [Off({d}, tree[d][n], -1) EXCEPT ![d] = IF d \in known THEN None ELSE @]
  /\ UNCHANGED <<lock, use, pc, known, panicked, ops>>

\* CODA_FLUSH and CODA_PURGEUSER.
Purge ==
  /\ Venus /\ cache # {} /\ cache' = {}
  /\ UNCHANGED <<lock, use, attr, pc, known, tree, fresh, panicked, ops>>

\* coda_getattr.  Without "overlap" not while an operation that invalidated the
\* attributes before its upcall is waiting for Venus.
Settled(n) ==
  "overlap" \in Env \/
  \A t \in Threads : pc[t].op \in {"remove", "rmdir", "rename"} /\ pc[t].at = "asked"
                     => n \notin {pc[t].dir, pc[t].from.dir}

coda_getattr(n) ==
  /\ Venus /\ n \in known \ {Ctl} /\ Alive(n) /\ attr[n] = None /\ Settled(n)
  /\ attr' = [attr EXCEPT ![n] = 0]
  /\ UNCHANGED <<lock, use, cache, pc, known, tree, fresh, panicked, ops>>

-----------------------------------------------------------------------------
(* The operations, from their upcall on.                                   *)

\* The directory is given back whether Venus did it or not; so is the node that
\* was removed or replaced, and the source of a rename.
Ended_KeepsSource(t) ==
  GiveBack(t, <<pc[t].dir, pc[t].node>>, <<pc[t].from.node>>)
Ended(t) ==
  LET p == pc[t] IN
  /\ p.op # "rename" => GiveBack(t, <<p.dir, p.node>>, <<p.from.node>>)
  /\ p.op = "rename" =>
       GiveBack(t, <<p.node, p.dir>>, <<p.from.node, p.from.dir>>)

Refused(t) ==
  /\ Kernel(t) /\ At(t, "refused")
  /\ attr' = IF pc[t].op \in {"link", "symlink"} THEN Invalid({pc[t].dir, pc[t].from.node})
             ELSE attr
  /\ Ended(t)
  /\ UNCHANGED <<cache, known, tree, fresh, panicked, ops>>

\* The attributes of the directory are out of date after a change.
Touched_DirOnly(p) == Invalid({p.dir})
Touched(p) == Invalid({p.dir, p.from.node})

\* The new node comes with its attributes, is entered in the name cache, and is
\* locked for the caller; a new directory is entered under "." and "..", too.
MadeDone(t) ==
  LET p == pc[t]
      E1 == Entered(cache, Entry(p.dir, p.name, p.node))
      E2 == UNION {Entered(C, Entry(p.node, Dot, p.node)) : C \in E1}
      E3 == UNION {Entered(C, Entry(p.node, DotDot, p.dir)) : C \in E2}
  IN /\ Kernel(t) /\ At(t, "done") /\ p.op \in {"create", "mkdir"}
     /\ panicked' = (panicked \/ p.node \in known)
     /\ known' = known \cup {p.node}
     /\ cache' \in (IF p.op = "mkdir" THEN E3 ELSE E1)
     /\ attr' = [Touched(p) EXCEPT ![p.node] = 0]
     /\ lock' = [Unlocked(lock, t, <<p.dir>>) EXCEPT ![p.node] = t]
     /\ use' = [use EXCEPT ![p.node] = @ + 1]
     /\ Go(t, p, "hold")
     /\ UNCHANGED <<tree, fresh, ops>>

\* coda_symlink looks up what it has made.
SymlinkDone(t) ==
  LET p == pc[t] IN
  /\ Kernel(t) /\ At(t, "done") /\ p.op = "symlink"
  /\ attr' = Touched(p)
  /\ coda_lookup(t, [p EXCEPT !.op = "symlinked"], use)
  /\ UNCHANGED <<cache, known, tree, fresh, panicked, ops>>

LinkDone(t) ==
  /\ Kernel(t) /\ At(t, "done") /\ pc[t].op = "link"
  /\ attr' = Touched(pc[t]) /\ Ended(t)
  /\ UNCHANGED <<cache, known, tree, fresh, panicked, ops>>

RemoveDone(t) ==
  /\ Kernel(t) /\ At(t, "done") /\ pc[t].op \in {"remove", "rmdir", "rename"}
  /\ Ended(t)
  /\ UNCHANGED <<cache, attr, known, tree, fresh, panicked, ops>>

Next ==
  \/ \E t \in Threads :
       \/ Start(t) \/ StartLink(t) \/ Second(t) \/ LookupAnswer(t) \/ LookupFails(t) \/ Found(t) \/ NotFound(t)
       \/ Locked(t) \/ Return(t) \/ Walked(t) \/ Release(t) \/ SourceFound(t)
       \/ coda_create(t) \/ coda_mkdir(t) \/ coda_link(t) \/ coda_remove(t) \/ coda_rmdir(t)
       \/ coda_rename(t) \/ VenusDoes(t) \/ VenusRefuses(t) \/ Interrupted(t) \/ Refused(t) \/ MadeDone(t)
       \/ SymlinkDone(t) \/ LinkDone(t) \/ RemoveDone(t)
  \/ \E d \in Dirs, n \in Names : Elsewhere(d, n)
  \/ \E n \in Nodes : coda_getattr(n)
  \/ Purge

Spec == Init /\ [][Next]_vars

-----------------------------------------------------------------------------
(* Properties.                                                             *)

\* What the name cache says of a directory is what Venus says, although names
\* are entered after the upcall and removed before it: the lock of the directory
\* and the downcalls keep the two together.
Coherent == \A e \in cache : Alive(e.dir) => e.node = Binding(e.dir, e.name)

\* Cached attributes of a directory are those of its last change (coda_vnops.c:1967
\* "Invalidate the parent's attr cache, the modification time has changed"), and the
\* cached link count of a file is not too small between operations, although
\* coda_remove takes one off before it asks (coda_vnops.c:1951 "We could either
\* invalidate the attrs if cached, or fix them. I'll try to fix them").
AttrRight ==
  /\ TypeOK
  /\ \A d \in Dirs : attr[d] = 1 =>
       \E t \in Threads : pc[t].at = "done" /\ d \in {pc[t].dir, pc[t].from.dir}
  /\ (\A t \in Threads : At(t, "idle")) =>
       \A f \in Files : Alive(f) /\ attr[f] # None => attr[f] >= 0

\* A vnode is referenced by the threads that are doing something with it and by no
\* other, and one that does nothing holds no lock: every path of every operation
\* gives back what coda_lookup took.
GivenBack ==
  /\ \A n \in Nodes : lock[n] # None => ~At(lock[n], "idle")
  /\ (\A t \in Threads : At(t, "idle")) => \A n \in Nodes : use[n] = 0

\* The assertions ASSURE_LOCKED and ASSURE_UNLOCKED at the end of coda_lookup and
\* at the start of the operations.  They do not expect that a rename replaces the
\* directory it moves something out of, which is locked then.
AssureRight ==
  \A t \in Threads :
    LET p == pc[t]
        mine(n) == n # None /\ lock[n] = t
    IN p.at = "has" =>
       /\ Holds(p) => mine(p.dir) /\ (p.node # None => mine(p.node))
       /\ ~Holds(p) => ~mine(p.dir) /\ mine(p.node)
       /\ p.op = "link" /\ ~Unsuitable(p) => ~mine(p.from.node)
       /\ p.op = "rename" /\ ~Unsuitable(p) /\ p.from.dir \notin {p.dir, p.node}
            => ~mine(p.from.dir)

\* Which lock a thread is asleep for.
Wants(t) ==
  CASE At(t, "child") -> {pc[t].node}
    [] At(t, "relock") -> {pc[t].dir}
    [] OTHER -> {}

\* No threads wait for one another in a circle.
NoWaitCycle ==
  \A S \in (SUBSET Threads) \ {{}} :
    \E t \in S : \A n \in Wants(t) : lock[n] \notin S

\* "cnode existed for newly created file!" (coda_create): a new file is not looked
\* up before the one who made it has entered it.
NewIsNew == ~panicked
=============================================================================
