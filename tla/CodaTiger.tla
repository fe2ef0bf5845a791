----------------------------- MODULE CodaTiger -----------------------------
(***************************************************************************)
(* The port to Darwin 8 (src/sys/darwin-8.6): its vnode operations, name   *)
(* cache and downcalls, as far as Coda's own caches are concerned.  Two    *)
(* things are not as they were on Darwin 7:                                *)
(*                                                                         *)
(*  - the kernel locks no vnode for an operation, so that operations on    *)
(*    the same vnode overlap in their upcalls;                             *)
(*  - an entry of the name cache does not hold its credential.             *)
(*                                                                         *)
(* Where either has happened the caches may be wrong; "raced" and "reused" *)
(* record it, and the properties say what is right all the same and what   *)
(* is right everywhere else.                                               *)
(*                                                                         *)
(* An operation is one step up to its upcall and one after it; one that    *)
(* needs no upcall is one step.  A fid has one cnode.  The vnode layer has *)
(* the nodes it calls an operation with; its references are not modelled,  *)
(* except those of coda_open.  Cached attributes are all but the number of *)
(* links.                                                                  *)
(***************************************************************************)
EXTENDS Integers, FiniteSets

CONSTANTS
  Threads,    \* threads of the kernel
  Creds,      \* credentials
  Users,      \* users
  Dirs, Root, Files,
  Names,
  Dot, DotDot,
  None,       \* no node
  Tree,       \* the directories at the start
  CacheSize,  \* how many entries the name cache has
  MaxOps,     \* bound on the operations threads start and on what others do
  Ops         \* which operations they start

Nodes == Dirs \cup Files
Linked(t) == {t[d][n] : d \in Dirs, n \in Names} \ {None}

\* What Venus starts with: only directories that are there have something in them, and
\* one that is there has one name, the root none.
IsTree(t) ==
  /\ \A d \in Dirs, n \in Names : t[d][n] # None => d \in Linked(t) \cup {Root}
  /\ \A d, e \in Dirs, n, m \in Names :
       t[d][n] \in Dirs /\ t[d][n] = t[e][m] => d = e /\ n = m /\ t[d][n] # Root

ASSUME TigerAssumption ==
  /\ IsFiniteSet(Threads) /\ Root \in Dirs /\ Dirs \cap Files = {}
  /\ None \notin Nodes \cup {"new", "old"}
  /\ Dot # DotDot /\ {Dot, DotDot} \cap Names = {}
  /\ Tree \in [Dirs -> [Names -> Nodes \cup {None}]] /\ IsTree(Tree)
  /\ CacheSize \in Nat \ {0} /\ MaxOps \in Nat

VARIABLES
  cache,    \* the name cache
  attr,     \* C_VATTR: None, or whether the cached attributes are "new" or "old"
  known,    \* nodes with a cnode in the table
  symlink,  \* C_SYMLINK
  paths,    \* how many paths were allocated for symlinks and not freed
  ocount, owrite,
  refs,     \* references of the vnode that coda_open has taken
  opens,    \* how often the kernel has a node open for reading and for writing
  pc,       \* where each thread is
  tree,     \* Venus: what the names in a directory stand for
  fresh,    \* Venus: fids it has not used
  rights,   \* Venus: who may search which directory
  owner,    \* whose credential it is
  panicked, \* new nodes that had a cnode
  raced,    \* history: nodes on which operations have overlapped
  reused,   \* history: credentials that were someone else's when an entry was made
  ops

files == <<symlink, paths, ocount, owrite, refs, opens>>
venus == <<tree, fresh, rights>>
vars == <<cache, attr, known, files, pc, venus, owner, panicked, raced, reused, ops>>

Idle == [at |-> "idle", op |-> "none", cred |-> None, dir |-> None, name |-> None,
         node |-> None, to |-> None, toname |-> None, write |-> FALSE]

TypeOK ==
  /\ cache \subseteq [dir : Dirs, name : Names \cup {Dot, DotDot}, cred : Creds, node : Nodes]
  /\ Cardinality(cache) <= CacheSize
  /\ attr \in [Nodes -> {None, "new", "old"}] /\ known \subseteq Nodes
  /\ symlink \in [Files -> BOOLEAN] /\ paths \in [Files -> Nat]
  /\ ocount \in [Nodes -> Nat] /\ owrite \in [Nodes -> Nat] /\ refs \in [Nodes -> Nat]
  /\ opens \in [Nodes -> [BOOLEAN -> Nat]]
  /\ DOMAIN pc = Threads /\ \A t \in Threads : pc[t].at \in {"idle", "asked", "done", "refused"}
  /\ tree \in [Dirs -> [Names -> Nodes \cup {None}]] /\ fresh \subseteq Nodes
  /\ rights \subseteq Users \X Dirs /\ owner \in [Creds -> Users]
  /\ panicked \subseteq Nodes /\ raced \subseteq Nodes /\ reused \subseteq Creds
  /\ ops \in 0..MaxOps

Init ==
  /\ cache = {} /\ attr = [n \in Nodes |-> None] /\ known = Linked(Tree) \cup {Root}
  /\ symlink = [f \in Files |-> FALSE] /\ paths = [f \in Files |-> 0]
  /\ ocount = [n \in Nodes |-> 0] /\ owrite = [n \in Nodes |-> 0]
  /\ refs = [n \in Nodes |-> 0] /\ opens = [n \in Nodes |-> [w \in BOOLEAN |-> 0]]
  /\ pc = [t \in Threads |-> Idle]
  /\ tree = Tree /\ fresh = Nodes \ (Linked(Tree) \cup {Root}) /\ rights = Users \X Dirs
  /\ \E o \in [Creds -> Users] : owner = o /\ \A u \in Users : \E c \in Creds : o[c] = u
  /\ panicked = {} /\ raced = {} /\ reused = {} /\ ops = 0

-----------------------------------------------------------------------------
(* Venus's directories, and the steps of threads.                          *)

Alive(n) == n = Root \/ n \in Linked(tree)
Parents(d) == {p \in Dirs : \E n \in Names : tree[p][n] = d}

Binding(d, n) ==
  CASE n \in Names -> tree[d][n]
    [] n = Dot -> d
    [] n = DotDot /\ Parents(d) # {} -> CHOOSE p \in Parents(d) : TRUE
    [] OTHER -> None

Below(d, b) ==
  \A S \in SUBSET Dirs : d \in S /\ (\A x \in S : Parents(x) \subseteq S) => b \in S

May(p) == <<owner[p.cred], p.dir>> \in rights

\* The nodes an operation is about, and those that two are about.
Touches(p) == {p.dir, p.node, p.to} \ {None}
Shared(P) == {n \in Nodes : \E t, u \in Threads : t # u /\ n \in Touches(P[t]) \cap Touches(P[u])}
\* Those of an answer that is under way.
Underway == UNION {Touches(pc[t]) : t \in {u \in Threads : pc[u].at = "done"}}

Counted == ops < MaxOps /\ ops' = ops + 1

At(t, s) == pc[t].at = s
Goes(t, p) ==
  /\ pc' = [pc EXCEPT ![t] = p]
  /\ raced' = raced \cup Shared([pc EXCEPT ![t] = p])
Ask(t, p) == Goes(t, [p EXCEPT !.at = "asked"])
Return(t) == Goes(t, Idle)

-----------------------------------------------------------------------------
(* The name cache: entries are found by directory, name and credential and *)
(* removed by directory and name.                                          *)

Entry(d, n, c, x) == [dir |-> d, name |-> n, cred |-> c, node |-> x]
Cached(d, n, c) == {e \in cache : e.dir = d /\ e.name = n /\ e.cred = c}
Zapped(d, n) == {e \in cache : e.dir = d /\ e.name = n}
ZappedParent(d) == {e \in cache : e.dir = d}
ZappedFid(x) == {e \in cache : e.node = x}
ZappedUser_None(u) == {}
ZappedUser(u) == {e \in cache : owner[e.cred] = u}

\* coda_nc_enter makes room if it must; names that are too long and those Venus
\* forbids are not entered.
Entered(C, e) ==
  {C} \cup (IF \E x \in C : x.dir = e.dir /\ x.name = e.name /\ x.cred = e.cred THEN {}
            ELSE IF Cardinality(C) < CacheSize THEN {C \cup {e}}
            ELSE {(C \ {x}) \cup {e} : x \in C})

Invalid(D) == [n \in Nodes |-> IF n \in D THEN None ELSE attr[n]]
Outdated(D) == [n \in Nodes |-> IF n \in D /\ attr[n] # None THEN "old" ELSE attr[n]]

-----------------------------------------------------------------------------
(* The operations up to their upcall.                                      *)

P(op, c) == [Idle EXCEPT !.op = op, !.cred = c]

\* A name that is cached, "." and the control object are not asked for.
coda_lookup(t, c) ==
  /\ \E d \in known \cap Dirs, n \in Names \cup {DotDot} :
       /\ Cached(d, n, c) = {}
       /\ Ask(t, [P("lookup", c) EXCEPT !.dir = d, !.name = n])
  /\ UNCHANGED <<cache, attr, files>>

\* To search a directory whose "." is in the name cache Venus is not asked.
Granted(d, c) == Cached(d, Dot, c) # {}

coda_access(t, c) ==
  /\ \E d \in known \cap Dirs : ~Granted(d, c) /\ Ask(t, [P("access", c) EXCEPT !.dir = d])
  /\ UNCHANGED <<cache, attr, files>>

\* No files are created in the root.
coda_create(t, c) ==
  /\ \E d \in (known \cap Dirs) \ {Root}, n \in Names :
       Ask(t, [P("create", c) EXCEPT !.dir = d, !.name = n])
  /\ UNCHANGED <<cache, attr, files>>

coda_mkdir(t, c) ==
  /\ \E d \in known \cap Dirs, n \in Names :
       Ask(t, [P("mkdir", c) EXCEPT !.dir = d, !.name = n])
  /\ UNCHANGED <<cache, attr, files>>

coda_symlink(t, c) ==
  /\ \E d \in known \cap Dirs, n \in Names :
       Ask(t, [P("symlink", c) EXCEPT !.dir = d, !.name = n])
  /\ UNCHANGED <<cache, attr, files>>

coda_link(t, c) ==
  /\ \E d \in known \cap Dirs, n \in Names, f \in known \cap Files :
       Ask(t, [P("link", c) EXCEPT !.dir = d, !.name = n, !.node = f])
  /\ UNCHANGED <<cache, attr, files>>

\* The kernel has just looked the name up, so that the caller finds it in the name
\* cache unless something has happened in between.
LookedUp(d, n, c) ==
  LET there == {e.node : e \in Cached(d, n, c)}
  IN IF there # {} THEN there ELSE {tree[d][n]} \cap known

AskLookedUp(t, p) ==
  /\ pc' = [pc EXCEPT ![t] = [p EXCEPT !.at = "asked"]]
  /\ raced' = raced \cup Shared(pc')
                \cup IF Cached(p.dir, p.name, p.cred) = {} THEN Touches(p) ELSE {}

\* The name is removed before Venus is asked, if this caller would find it.
coda_remove(t, c) ==
  \E d \in known \cap Dirs, n \in Names : \E f \in LookedUp(d, n, c) \cap Files :
    /\ AskLookedUp(t, [P("remove", c) EXCEPT !.dir = d, !.name = n, !.node = f])
    /\ cache' = IF Cached(d, n, c) = {} THEN cache ELSE cache \ Zapped(d, n)
    /\ attr' = Invalid({d})
    /\ UNCHANGED files

\* So are the entries of what the name stands for in the cache.
coda_rmdir(t, c) ==
  \E d \in known \cap Dirs, n \in Names : \E b \in LookedUp(d, n, c) \cap Dirs :
    /\ b # d /\ AskLookedUp(t, [P("rmdir", c) EXCEPT !.dir = d, !.name = n, !.node = b])
    /\ cache' = cache \ (Zapped(d, n) \cup UNION {ZappedParent(e.node) : e \in Cached(d, n, c)})
    /\ attr' = Invalid({d})
    /\ UNCHANGED files

\* Both names, and the ".." of a directory that moves to another one.
Renamed_TargetOnly(p) == Zapped(p.to, p.toname)
Renamed(p) ==
  Zapped(p.dir, p.name) \cup Zapped(p.to, p.toname)
    \cup UNION {Zapped(e.node, DotDot) : e \in {x \in Cached(p.dir, p.name, p.cred) : p.dir # p.to}}

coda_rename(t, c) ==
  \E d, to \in known \cap Dirs, n, m \in Names : \E x \in LookedUp(d, n, c) :
    LET p == [P("rename", c) EXCEPT !.dir = d, !.name = n, !.to = to, !.toname = m, !.node = x]
    IN /\ <<d, n>> # <<to, m>>
       /\ AskLookedUp(t, p) /\ cache' = cache \ Renamed(p) /\ attr' = Invalid({d, to})
       /\ UNCHANGED files

\* Cached attributes are taken without an upcall.
coda_getattr(t, c) ==
  /\ \E n \in known : attr[n] = None /\ Ask(t, [P("getattr", c) EXCEPT !.node = n])
  /\ UNCHANGED <<cache, attr, files>>

coda_setattr(t, c) ==
  /\ \E n \in known : Ask(t, [P("setattr", c) EXCEPT !.node = n])
  /\ UNCHANGED <<cache, attr, files>>

coda_readlink(t, c) ==
  /\ \E f \in known \cap Files :
       ~symlink[f] /\ Ask(t, [P("readlink", c) EXCEPT !.node = f])
  /\ UNCHANGED <<cache, attr, files>>

coda_open(t, c) ==
  /\ \E n \in known, w \in BOOLEAN :
       /\ n \in Dirs => ~w
       /\ Ask(t, [P("open", c) EXCEPT !.node = n, !.write = w])
  /\ UNCHANGED <<cache, attr, files>>

Closing_AnyWriter(n, w) ==
  ocount' = [ocount EXCEPT ![n] = @ - 1] /\ owrite' = [owrite EXCEPT ![n] = @ - 1]

\* The container is taken away from the cnode when it is closed for the last
\* time, and the vnode released when Venus knows.
Closing(n, w) ==
  /\ ocount' = [ocount EXCEPT ![n] = @ - 1]
  /\ owrite' = [owrite EXCEPT ![n] = IF w THEN @ - 1 ELSE @]

\* For a directory coda_close does nothing, and ocount stays.
coda_close(t, c) ==
  \E n \in Nodes, w \in BOOLEAN :
    /\ opens[n][w] > 0 /\ opens' = [opens EXCEPT ![n][w] = @ - 1]
    /\ IF n \in Dirs \/ ocount[n] <= 0
       THEN Return(t) /\ UNCHANGED <<ocount, owrite>>
       ELSE Closing(n, w) /\ Ask(t, [P("close", c) EXCEPT !.node = n, !.write = w])
    /\ UNCHANGED <<cache, attr, symlink, paths, refs>>

\* The container of an open file is used, or that of its inode; else the file is
\* opened for this call.
coda_rdwr(t, c) ==
  \E f \in known \cap Files, w \in BOOLEAN :
    /\ \/ Return(t) /\ attr' = IF w THEN Invalid({f}) ELSE attr
       \/ /\ ocount[f] = 0 /\ UNCHANGED attr
          /\ Ask(t, [P("rdwr", c) EXCEPT !.node = f, !.write = w])
    /\ UNCHANGED <<cache, files>>

\* Like a read.
coda_pagein(t, c) ==
  /\ \E f \in known \cap Files :
       Return(t) \/ (ocount[f] = 0 /\ Ask(t, [P("rdwr", c) EXCEPT !.node = f]))
  /\ UNCHANGED <<cache, attr, files>>

coda_readdir(t, c) ==
  /\ \E d \in known \cap Dirs : ocount[d] = 0 /\ Ask(t, [P("readdir", c) EXCEPT !.node = d])
  /\ UNCHANGED <<cache, attr, files>>

Operation(t, c, op) ==
  \/ op = "lookup" /\ coda_lookup(t, c)
  \/ op = "access" /\ coda_access(t, c)
  \/ op = "create" /\ coda_create(t, c)
  \/ op = "mkdir" /\ coda_mkdir(t, c)
  \/ op = "symlink" /\ coda_symlink(t, c)
  \/ op = "link" /\ coda_link(t, c)
  \/ op = "remove" /\ coda_remove(t, c)
  \/ op = "rmdir" /\ coda_rmdir(t, c)
  \/ op = "rename" /\ coda_rename(t, c)
  \/ op = "getattr" /\ coda_getattr(t, c)
  \/ op = "setattr" /\ coda_setattr(t, c)
  \/ op = "readlink" /\ coda_readlink(t, c)
  \/ op = "open" /\ coda_open(t, c)
  \/ op = "close" /\ coda_close(t, c)
  \/ op = "rdwr" /\ coda_rdwr(t, c)
  \/ op = "pagein" /\ coda_pagein(t, c)
  \/ op = "readdir" /\ coda_readdir(t, c)

Start(t) ==
  /\ At(t, "idle") /\ Counted
  /\ \E c \in Creds, op \in Ops : Operation(t, c, op)
  /\ UNCHANGED <<known, venus, owner, panicked, reused>>

-----------------------------------------------------------------------------
(* Venus, and other clients.                                               *)

Does(t, p, D) ==
  /\ Goes(t, [p EXCEPT !.at = "done"]) /\ attr' = Outdated(D)

Empty(n) == n \in Dirs => \A m \in Names : tree[n][m] = None

Looked(t, p) ==
  /\ p.op \in {"lookup", "access"} /\ May(p) /\ Alive(p.dir)
  /\ LET n == IF p.op = "lookup" THEN Binding(p.dir, p.name) ELSE p.dir
     IN n # None /\ Does(t, [p EXCEPT !.node = n], {})
  /\ UNCHANGED venus

\* Who makes a directory may search it if he may search the one it is in.
Made(t, p) ==
  /\ p.op \in {"create", "mkdir", "symlink"} /\ May(p) /\ Alive(p.dir)
  /\ tree[p.dir][p.name] = None
  /\ \E g \in fresh \cap (IF p.op = "mkdir" THEN Dirs ELSE Files) :
       /\ tree' = [tree EXCEPT ![p.dir][p.name] = g] /\ fresh' = fresh \ {g}
       /\ rights' = {r \in rights : r[2] # g}
                      \cup {r \in Users \X (Dirs \cap {g}) : <<r[1], p.dir>> \in rights}
       /\ Does(t, IF p.op = "symlink" THEN p ELSE [p EXCEPT !.node = g], {p.dir})

AnotherName(t, p) ==
  /\ p.op = "link" /\ May(p) /\ Alive(p.dir) /\ Alive(p.node) /\ tree[p.dir][p.name] = None
  /\ tree' = [tree EXCEPT ![p.dir][p.name] = p.node] /\ Does(t, p, {p.dir, p.node})
  /\ UNCHANGED <<fresh, rights>>

Unnamed(t, p) ==
  LET there == tree[p.dir][p.name] IN
  /\ p.op \in {"remove", "rmdir"} /\ May(p) /\ there # None
  /\ (there \in Dirs) = (p.op = "rmdir") /\ Empty(there)
  /\ tree' = [tree EXCEPT ![p.dir][p.name] = None] /\ Does(t, p, {p.dir})
  /\ UNCHANGED <<fresh, rights>>

\* The name may have come to stand for another directory since it was looked up.
Moved(t, p) ==
  LET moved == tree[p.dir][p.name]
      there == tree[p.to][p.toname]
  IN /\ p.op = "rename" /\ May(p) /\ moved # None /\ moved # there /\ Alive(p.to)
     /\ there # None => (there \in Dirs) = (moved \in Dirs) /\ Empty(there)
     /\ moved \in Dirs => ~Below(p.to, moved)
     /\ tree' = [[tree EXCEPT ![p.dir][p.name] = None] EXCEPT ![p.to][p.toname] = moved]
     /\ pc' = [pc EXCEPT ![t].at = "done"] /\ attr' = Outdated({p.dir, p.to})
     /\ raced' = raced \cup Shared(pc') \cup ({moved} \ {p.node})
     /\ UNCHANGED <<fresh, rights>>

Other(t, p) ==
  /\ p.op \in {"getattr", "setattr", "readlink", "open", "close", "rdwr", "rdwrclose", "readdir"}
  /\ Alive(p.node)
  /\ Does(t, p, IF p.op = "setattr" \/ (p.op \in {"close", "rdwrclose"} /\ p.write) THEN {p.node} ELSE {})
  /\ UNCHANGED venus

VenusDoes(t) ==
  /\ At(t, "asked")
  /\ LET p == pc[t] IN Looked(t, p) \/ Made(t, p) \/ AnotherName(t, p) \/ Unnamed(t, p) \/ Moved(t, p)
                       \/ Other(t, p)
  /\ UNCHANGED <<cache, known, files, owner, panicked, reused, ops>>

VenusRefuses(t) ==
  /\ At(t, "asked")
  /\ Goes(t, [pc[t] EXCEPT !.at = "refused"])
  /\ UNCHANGED <<cache, attr, known, files, venus, owner, panicked, reused, ops>>

\* CODA_ZAPDIR: another client removes or replaces a file.
ZapDir(d, n) ==
  /\ tree[d][n] \in Files
  /\ \E g \in (fresh \cap Files) \cup {None} :
       tree' = [tree EXCEPT ![d][n] = g] /\ fresh' = fresh \ {g}
  /\ cache' = IF d \in known THEN cache \ ZappedParent(d) ELSE cache
  /\ attr' = IF d \in known THEN Invalid({d}) ELSE attr
  /\ raced' = raced \cup (Underway \cap {d}) /\ Counted
  /\ UNCHANGED <<known, files, pc, rights, owner, panicked, reused>>

\* CODA_ZAPFILE: another client changes a file, or the attributes of a directory.
ZapFile(n) ==
  /\ attr' = IF n \in known THEN Invalid({n}) ELSE Outdated({n})
  /\ raced' = raced \cup (Underway \cap {n})
  /\ UNCHANGED <<cache, known, files, pc, venus, owner, panicked, reused, ops>>

PurgeFid(n) ==
  /\ n \in known
  /\ cache' = cache \ (ZappedFid(n) \cup (IF n \in Dirs THEN ZappedParent(n) ELSE {}))
  /\ attr' = Invalid({n})
  /\ UNCHANGED <<known, files, pc, venus, owner, panicked, raced, reused, ops>>

\* CODA_FLUSH.
Flush ==
  /\ cache' = {}
  /\ UNCHANGED <<attr, known, files, pc, venus, owner, panicked, raced, reused, ops>>

\* CODA_PURGEUSER: a user loses a right.
PurgeUser(u) ==
  /\ \E d \in Dirs : <<u, d>> \in rights /\ rights' = rights \ {<<u, d>>}
                     /\ raced' = raced \cup (IF d \in Underway THEN Underway ELSE {})
  /\ cache' = cache \ ZappedUser(u) /\ Counted
  /\ UNCHANGED <<attr, known, files, pc, tree, fresh, owner, panicked, reused>>

\* The last process with credential c ends and the kernel uses it for user u.
CredReused(c, u) ==
  /\ owner[c] # u /\ \A t \in Threads : pc[t].cred # c
  /\ owner' = [owner EXCEPT ![c] = u]
  /\ reused' = IF \E e \in cache : e.cred = c THEN reused \cup {c} ELSE reused
  /\ Counted
  /\ UNCHANGED <<cache, attr, known, files, pc, venus, panicked, raced>>

-----------------------------------------------------------------------------
(* The operations after their upcall.                                      *)

\* Like coda_link, coda_symlink invalidates the attributes whatever Venus says;
\* an error of Venus does not keep the file open.
Refused(t) ==
  LET p == pc[t] IN
  /\ At(t, "refused") /\ Return(t)
  /\ attr' = IF p.op \in {"link", "symlink"} THEN Invalid({p.dir, p.node})
             ELSE IF p.op = "rdwrclose" /\ p.write THEN Invalid({p.node}) ELSE attr
  /\ refs' = IF p.op \in {"close", "rdwrclose"} THEN [refs EXCEPT ![p.node] = @ - 1] ELSE refs
  /\ UNCHANGED <<cache, known, symlink, paths, ocount, owrite, opens, venus, owner, panicked, reused, ops>>

Found(t) ==
  LET p == pc[t] IN
  /\ At(t, "done") /\ p.op \in {"lookup", "access"} /\ Return(t)
  /\ IF p.op = "access" THEN UNCHANGED <<known, cache>>
     ELSE /\ known' = known \cup {p.node}
          /\ cache' \in Entered(cache, Entry(p.dir, p.name, p.cred, p.node))
  /\ UNCHANGED <<attr, files, venus, owner, panicked, reused, ops>>

\* Whether the new node has a cnode is looked at before it gets one.
Panics_Late(p) == {p.node} \cap (known \cup {p.node})
Panics(p) == {p.node} \cap known

Touched(p) == Invalid({p.dir, p.node})

MadeDone(t) ==
  LET p == pc[t]
      E1 == Entered(cache, Entry(p.dir, p.name, p.cred, p.node))
      E2 == UNION {Entered(C, Entry(p.node, Dot, p.cred, p.node)) : C \in E1}
      E3 == UNION {Entered(C, Entry(p.node, DotDot, p.cred, p.dir)) : C \in E2}
  IN /\ At(t, "done") /\ p.op \in {"create", "mkdir"} /\ Return(t)
     /\ panicked' = panicked \cup Panics(p) /\ known' = known \cup {p.node}
     /\ cache' \in (IF p.op = "mkdir" THEN E3 ELSE E1)
     /\ attr' = [Touched(p) EXCEPT ![p.node] = "new"]
     /\ UNCHANGED <<files, venus, owner, reused, ops>>

\* coda_symlink looks up what it has made.
SymlinkDone(t) ==
  LET p == pc[t] IN
  /\ At(t, "done") /\ p.op = "symlink" /\ attr' = Touched(p)
  /\ IF Cached(p.dir, p.name, p.cred) = {} THEN Ask(t, [p EXCEPT !.op = "lookup"]) ELSE Return(t)
  /\ UNCHANGED <<cache, known, files, venus, owner, panicked, reused, ops>>

Changed(t) ==
  LET p == pc[t] IN
  /\ At(t, "done") /\ p.op \in {"link", "setattr"} /\ Return(t) /\ attr' = Touched(p)
  /\ UNCHANGED <<cache, known, files, venus, owner, panicked, reused, ops>>

RemoveDone(t) ==
  /\ At(t, "done") /\ pc[t].op \in {"remove", "rmdir", "rename"} /\ Return(t)
  /\ UNCHANGED <<cache, attr, known, files, venus, owner, panicked, reused, ops>>

\* Attributes are not kept while the file is open for writing.
Kept_Always(p) == [attr EXCEPT ![p.node] = "new"]
Kept(p) == IF owrite[p.node] = 0 THEN [attr EXCEPT ![p.node] = "new"] ELSE attr

GetattrDone(t) ==
  /\ At(t, "done") /\ pc[t].op = "getattr" /\ Return(t) /\ attr' = Kept(pc[t])
  /\ UNCHANGED <<cache, known, files, venus, owner, panicked, reused, ops>>

ReadlinkDone(t) ==
  LET f == pc[t].node IN
  /\ At(t, "done") /\ pc[t].op = "readlink" /\ Return(t)
  /\ symlink' = [symlink EXCEPT ![f] = TRUE] /\ paths' = [paths EXCEPT ![f] = @ + 1]
  /\ UNCHANGED <<cache, attr, known, ocount, owrite, refs, opens, venus, owner, panicked, reused, ops>>

Opened(p) ==
  /\ refs' = [refs EXCEPT ![p.node] = @ + 1]
  /\ ocount' = [ocount EXCEPT ![p.node] = @ + 1]
  /\ owrite' = [owrite EXCEPT ![p.node] = IF p.write THEN @ + 1 ELSE @]
  /\ attr' = IF p.write THEN Invalid({p.node}) ELSE attr

\* The file of the cache is found, or not, and opened; what was counted stays
\* counted when it cannot be opened.
OpenDone(t) ==
  LET p == pc[t] IN
  /\ At(t, "done") /\ p.op = "open" /\ Return(t)
  /\ \/ UNCHANGED <<attr, refs, ocount, owrite, opens>>
     \/ /\ Opened(p)
        /\ opens' \in {opens, [opens EXCEPT ![p.node][p.write] = @ + 1]}
  /\ UNCHANGED <<cache, known, symlink, paths, venus, owner, panicked, reused, ops>>

\* A directory that coda_readdir opens is not closed: see coda_close.
ReaddirDone(t) ==
  LET p == pc[t] IN
  /\ At(t, "done") /\ p.op = "readdir" /\ Return(t)
  /\ Opened(p) \/ UNCHANGED <<attr, refs, ocount, owrite>>
  /\ UNCHANGED <<cache, known, symlink, paths, opens, venus, owner, panicked, reused, ops>>

\* coda_rdwr closes a file it has opened when it has read or written.  What its own
\* open and close add to the counts and take off again is not seen in between.
RdwrDone(t) ==
  LET p == pc[t] IN
  /\ At(t, "done") /\ p.op = "rdwr"
  /\ \/ Return(t) /\ (Opened(p) \/ UNCHANGED <<attr, refs, ocount, owrite>>)
     \/ /\ Ask(t, [p EXCEPT !.op = "rdwrclose"])
        /\ refs' = [refs EXCEPT ![p.node] = @ + 1]
        /\ attr' = IF p.write THEN Invalid({p.node}) ELSE attr
        /\ UNCHANGED <<ocount, owrite>>
  /\ UNCHANGED <<cache, known, symlink, paths, opens, venus, owner, panicked, reused, ops>>

CloseDone(t) ==
  LET p == pc[t] IN
  /\ At(t, "done") /\ p.op \in {"close", "rdwrclose"} /\ Return(t)
  /\ refs' = [refs EXCEPT ![p.node] = @ - 1]
  /\ attr' = IF p.op = "rdwrclose" /\ p.write THEN Invalid({p.node}) ELSE attr
  /\ UNCHANGED <<cache, known, symlink, paths, ocount, owrite, opens, venus, owner, panicked, reused, ops>>

-----------------------------------------------------------------------------
(* The vnode layer has no more use for a node, and its cnode is forgotten. *)

Unused(n) ==
  /\ refs[n] = 0 /\ ZappedParent(n) \cup ZappedFid(n) = {}
  /\ \A t \in Threads : n \notin Touches(pc[t])

Freed_Never(n) == paths
Freed(n) == [paths EXCEPT ![n] = IF symlink[n] THEN @ - 1 ELSE @]

coda_inactive(n) ==
  /\ n \in known \ {Root} /\ Unused(n)
  /\ known' = known \ {n} /\ attr' = Invalid({n})
  /\ IF n \in Files
     THEN paths' = Freed(n) /\ symlink' = [symlink EXCEPT ![n] = FALSE]
     ELSE UNCHANGED <<paths, symlink>>
  /\ UNCHANGED <<cache, ocount, owrite, refs, opens, pc, venus, owner, panicked, raced, reused, ops>>

Next ==
  \/ \E t \in Threads :
       \/ Start(t) \/ VenusDoes(t) \/ VenusRefuses(t) \/ Refused(t)
       \/ Found(t) \/ MadeDone(t) \/ SymlinkDone(t) \/ Changed(t) \/ RemoveDone(t)
       \/ GetattrDone(t) \/ ReadlinkDone(t)
       \/ OpenDone(t) \/ ReaddirDone(t) \/ RdwrDone(t) \/ CloseDone(t)
  \/ \E d \in Dirs, n \in Names : ZapDir(d, n)
  \/ \E n \in Nodes : ZapFile(n) \/ PurgeFid(n) \/ coda_inactive(n)
  \/ Flush
  \/ \E u \in Users : PurgeUser(u)
  \/ \E c \in Creds, u \in Users : CredReused(c, u)

Spec == Init /\ [][Next]_vars

-----------------------------------------------------------------------------
(* Properties.                                                             *)

\* The name cache says what Venus would: a cached name stands for the node Venus
\* would answer with, unless operations on the directory have overlapped (nothing
\* keeps an answer of Venus from being entered after a later change was).
NamesRight ==
  \A e \in cache : e.dir \notin raced /\ Alive(e.dir) => e.node = Binding(e.dir, e.name)

\* Cached attributes are those Venus has once no operation on the node is under
\* way, unless some have overlapped; and whatever overlaps, those of a file open for
\* writing are not cached, whoever asked for them before it was opened.
AttrRight ==
  /\ \A n \in Nodes : attr[n] = "old" => n \in raced \cup Underway
  /\ \A n \in Nodes \ panicked : owrite[n] > 0 => attr[n] = None

\* The name cache is no way around Venus's rights: whose credential finds a name
\* without an upcall may search the directory, unless the credential has become
\* someone else's, which the entries of the name cache do not notice.
GrantedRight ==
  \A e \in cache : e.cred \notin reused /\ e.dir \notin raced /\ Alive(e.dir)
                   => <<owner[e.cred], e.dir>> \in rights

\* "cnode existed for newly created file!" takes two operations at once.
NewIsNew == panicked \subseteq raced

\* Of a symlink's path one copy is kept, and none when the cnode is forgotten,
\* unless two calls have read the symlink at once.
OnePath == \A f \in Files \ raced : paths[f] = IF symlink[f] THEN 1 ELSE 0

\* A vnode keeps a reference for every open that coda_open counts, and the counts
\* are no lower than what the kernel will close, whatever fails or overlaps.
OpensRight ==
  /\ TypeOK
  /\ \A n \in Nodes :
       refs[n] = ocount[n] + Cardinality({t \in Threads : pc[t].op \in {"close", "rdwrclose"}
                                                          /\ pc[t].node = n})
  /\ \A f \in Files : opens[f][TRUE] + opens[f][FALSE] <= ocount[f] /\ opens[f][TRUE] <= owrite[f]
=============================================================================
