-------------------------- MODULE CodaNamesProofs --------------------------
(***************************************************************************)
(* Proofs about CodaNames: for any tree and any number of threads, names   *)
(* and operations, the locks and references of a thread are those its      *)
(* place in an operation asks for, a new node is new to everybody, no      *)
(* threads wait for one another in a circle, and what is cached is what    *)
(* Venus has.  Renames from one directory to another and the control       *)
(* object as a source, which refute some of this, are excluded (Calm).     *)
(***************************************************************************)
EXTENDS CodaNames, FiniteSetTheorems, TLAPS

\* No rename from one directory to another, and not the control object as its source.
Calm == {"across", "control"} \cap Env = {}

-----------------------------------------------------------------------------
(* The inductive invariant: places, locks and references.                  *)

Places ==
  [at : {"idle", "lookup", "found", "child", "relock", "has", "second", "asked", "done",
         "refused", "hold"},
   op : Operations \cup {"none"}, dir : Dirs \cup {None}, name : AllNames \cup {None},
   node : Nodes \cup {None},
   from : [dir : Dirs \cup {None}, name : AllNames \cup {None}, node : Nodes \cup {None}]]

Asking == {"create", "mkdir", "mkdirup", "symlink", "link", "remove", "rmdir", "rename"}

\* A node Venus has made and nobody has seen.
IsNew(p) == p.at = "done" /\ p.op \in {"create", "mkdir"}

NodeOK(p) ==
  /\ p.at = "lookup" => p.node = None
  /\ p.at \in {"child", "hold"} => p.node \in Nodes
  /\ p.at = "has" /\ p.op \in {"walk", "up", "from", "remove", "rmdir"} => p.node \in Nodes
  /\ p.at = "relock" /\ p.op = "up" => p.node = None
  /\ p.at \in {"asked", "done", "refused"} /\ p.op \in Asking \ {"remove", "rmdir", "rename"}
       /\ ~IsNew(p) => p.node = None
  /\ IsNew(p) => p.node \in Nodes /\ (p.op = "mkdir" => p.node \in Dirs)
  /\ p.node # None => p.node # p.dir /\ (p.name = DotDot => p.node \in Dirs)

FromOK(p) ==
  /\ p.op \notin {"link", "rename"} => p.from = Source
  /\ p.op = "link" => p.from.dir = None /\ p.from.node \in Files
  /\ p.op = "rename" => /\ p.from.dir \in Dirs /\ p.from.name \in Names /\ p.from.node \in Nodes
                        /\ p.at # "second" => p.from.dir = p.dir

NameOK(p) ==
  /\ p.at \notin {"idle", "second"} =>
       /\ p.dir \in Dirs /\ p.name \in Names \cup {CtlName, DotDot}
       /\ p.name = DotDot <=> p.op \in {"up", "mkdirup"}
       /\ p.name = CtlName => /\ p.node = Ctl /\ p.at \in {"child", "has", "hold"}
                              /\ p.op \notin {"from", "rename"}
  /\ p.at \in {"idle", "second"} => p.dir = None /\ p.node = None

OpOK(p) ==
  /\ p.at = "idle" <=> p.op = "none"
  /\ p.at = "second" => p.op \in {"link", "rename"}
  /\ p.at = "relock" => p.op \in {"up", "mkdirup"}
  /\ p.at \in {"asked", "done", "refused"} => p.op \in Asking
  /\ p.at = "hold" => p.op \in {"walk", "up", "create", "mkdir"}

PlaceOK(p) == OpOK(p) /\ NameOK(p) /\ NodeOK(p) /\ FromOK(p)

ThreadsOK == pc \in [Threads -> Places] /\ \A t \in Threads : PlaceOK(pc[t])

\* What a thread knows of is known, but for what Venus has just answered.
SeenBy(p) ==
  /\ p.dir \in known \cup {None} /\ p.from.dir \in known \cup {None}
  /\ p.from.node \in known \cup {None} /\ p.node \notin fresh
  /\ p.node \in known \cup {None} \/ p.at = "found" \/ IsNew(p)
SeenOK == \A t \in Threads : SeenBy(pc[t])

KnownOK ==
  /\ known \subseteq Nodes /\ {Root, Ctl} \subseteq known
  /\ fresh \subseteq Nodes /\ known \cap fresh = {}

CacheOK ==
  /\ cache \subseteq [dir : Dirs, name : Names \cup {Dot, DotDot}, node : Nodes]
  /\ IsFiniteSet(cache) /\ Cardinality(cache) <= CacheSize
  /\ \A e \in cache : /\ e.dir \in known /\ e.node \in known
                      /\ e.name # Dot => e.node # e.dir
                      /\ e.name = DotDot => e.node \in Dirs

TreeOK ==
  /\ tree \in [Dirs -> [Names -> Dirs \cup Files \cup {None}]]
  /\ \A d \in Dirs, n \in Names : tree[d][n] # None =>
       d \notin fresh /\ tree[d][n] \notin fresh /\ tree[d][n] # d

NewOK ==
  \A t \in Threads : IsNew(pc[t]) =>
    /\ pc[t].node \notin known
    /\ \A d \in Dirs, n \in Names : tree[d][n] # None =>
         (tree[d][n] = pc[t].node => d = pc[t].dir) /\ d # pc[t].node
    /\ \A u \in Threads \ {t} : pc[u].node # pc[t].node

\* The locks of a thread.
Held(p) ==
  { n \in Nodes :
      \/ n = p.dir /\ \/ p.at \in {"lookup", "found"} /\ p.name # DotDot
                      \/ p.at = "child" /\ p.name # DotDot /\ (Holds(p) \/ p.node = Ctl)
                      \/ p.at = "has" /\ Holds(p)
                      \/ p.at \in {"asked", "done", "refused"}
      \/ n = p.node /\ p.at \in {"relock", "has", "hold", "asked", "done", "refused"}
                    /\ ~IsNew(p) }

LockOK ==
  /\ lock \in [Nodes -> Threads \cup {None}]
  /\ \A n \in Nodes, t \in Threads : lock[n] = t <=> n \in Held(pc[t])

\* The references of a thread, and who has one of a node.
Ref(p, s) ==
  CASE s = "dir" -> p.dir
    [] s = "node" -> IF p.at = "found" \/ IsNew(p) THEN None ELSE p.node
    [] s = "fromdir" -> p.from.dir
    [] s = "fromnode" -> p.from.node
Users(s, n) == {t \in Threads : Ref(pc[t], s) = n}

UseOK ==
  /\ use \in [Nodes -> Nat]
  /\ \A n \in Nodes : use[n] = Cardinality(Users("dir", n)) + Cardinality(Users("node", n))
       + Cardinality(Users("fromdir", n)) + Cardinality(Users("fromnode", n))

AttrOK ==
  /\ attr \in [Nodes -> Int \cup {None}]
  /\ \A n \in Nodes : attr[n] # None => n \in known

Inv ==
  /\ ThreadsOK /\ SeenOK /\ KnownOK /\ CacheOK /\ TreeOK /\ NewOK /\ LockOK /\ UseOK /\ AttrOK
  /\ panicked = FALSE /\ ops \in 0..MaxOps

-----------------------------------------------------------------------------
(* Who is above whom: in the directories of Venus, in the name cache and   *)
(* for the threads that have found something.                              *)

TreeEdge(x, y) == \E n \in Names : tree[x][n] = y
Says(d, n, c, x, y) ==
  \/ n \in Names /\ d = x /\ c = y
  \/ n = DotDot /\ c = x /\ d = y
CacheEdge(x, y) == \E e \in cache : Says(e.dir, e.name, e.node, x, y)
ThreadEdge(x, y) == \E t \in Threads : Says(pc[t].dir, pc[t].name, pc[t].node, x, y)
Above(x, y) == TreeEdge(x, y) \/ CacheEdge(x, y) \/ ThreadEdge(x, y)

\* No circle, neither a set of directories each of which is above another.
OrderOK == \A X \in (SUBSET Dirs) \ {{}} : \E x \in X : \A y \in X : ~Above(x, y)

-----------------------------------------------------------------------------
(* The name cache and Venus.                                               *)

\* The downcall for what another client has done comes before later answers of Venus.
Punctual == "late" \notin Env

\* A directory has one name, and the root none.
DirsOK ==
  \A d, e \in Dirs, n, m \in Names :
    /\ tree[d][n] # Root
    /\ tree[d][n] \in Dirs /\ tree[d][n] = tree[e][m] => d = e /\ n = m

\* Whether Venus agrees that name n of directory d is node c.
Agrees(d, n, c) ==
  /\ n \in Names => tree[d][n] = c
  /\ n = Dot => c = d
  /\ n = DotDot => (Alive(d) => TreeEdge(c, d))

EntriesOK == \A e \in cache : Agrees(e.dir, e.name, e.node)

AnswersOK ==
  \A t \in Threads : (pc[t].at = "found" /\ pc[t].node # None) \/ IsNew(pc[t])
                       => Agrees(pc[t].dir, pc[t].name, pc[t].node)

\* Names an operation has not found or is about to change are not cached.
Changing(p) ==
  \/ p.at \in {"lookup", "found"} /\ p.name # DotDot
  \/ p.at = "has" /\ p.name # DotDot /\ p.node = None
  \/ p.at \in {"asked", "done"}
Lacks(C, d, n) == \A e \in C : ~(e.dir = d /\ e.name = n)
Missing(C, p) ==
  /\ p.name \in Names => Lacks(C, p.dir, p.name)
  /\ p.op = "rename" /\ p.at \in {"asked", "done"} => Lacks(C, p.from.dir, p.from.name)
MissingOK == \A t \in Threads : Changing(pc[t]) => Missing(cache, pc[t])

NamesInv == DirsOK /\ EntriesOK /\ AnswersOK /\ MissingOK

-----------------------------------------------------------------------------
(* Cached attributes.                                                      *)

\* What an operation invalidated before its upcall is not cached while Venus is asked,
\* so Venus puts nothing out of date that the operation leaves.
Removing == {"remove", "rmdir", "rename"}
DirAttrOK ==
  /\ \A d \in Dirs : attr[d] # None => attr[d] <= 1
  /\ \A d \in Dirs : attr[d] = 1 =>
       \E t \in Threads : pc[t].at = "done" /\ d \in {pc[t].dir, pc[t].from.dir}
  /\ \A t \in Threads : pc[t].at = "asked" /\ pc[t].op \in Removing => attr[pc[t].dir] = None
  /\ \A t \in Threads : pc[t].at = "done" /\ pc[t].op \in Removing => attr[pc[t].dir] # 1

\* Who has taken a link of f off in advance, or will forget its attributes, when the
\* directories are T.
Owes(T, p, f) ==
  \/ p.op = "remove" /\ p.at = "asked" /\ T[p.dir][p.name] = f
  \/ p.op = "link" /\ p.at = "done" /\ p.from.node = f
Owers(f) == {t \in Threads : Owes(tree, pc[t], f)}
FileAttrOK ==
  \A f \in Files : attr[f] # None => attr[f] + Cardinality(Owers(f)) >= 0

AttrInv == DirAttrOK /\ FileAttrOK

-----------------------------------------------------------------------------
(* Facts about the constants.                                              *)

LEMMA Distinct ==
  /\ None \notin Nodes /\ None \notin Threads /\ None \notin Dirs /\ None \notin Int
  /\ Ctl \in Nodes /\ Ctl \notin Dirs /\ Ctl \notin Files /\ Root \in Dirs
  /\ Dirs \subseteq Nodes /\ Files \subseteq Nodes /\ Dirs \cap Files = {}
  /\ CtlName \notin Names /\ Dot \notin Names /\ DotDot \notin Names
  /\ CtlName # Dot /\ CtlName # DotDot /\ Dot # DotDot
<1>1. CtlName # Dot /\ CtlName # DotDot /\ Dot # DotDot
  <2> SUFFICES ASSUME CtlName = Dot \/ CtlName = DotDot \/ Dot = DotDot PROVE FALSE
    OBVIOUS
  <2>1. PICK a, b : {CtlName, Dot, DotDot} = {a, b}
    OBVIOUS
  <2>2. /\ IsFiniteSet({a}) /\ Cardinality({a}) = 1 /\ {a, b} = {a} \cup {b}
    BY FS_Singleton
  <2>3. Cardinality({a} \cup {b}) = (IF b \in {a} THEN 1 ELSE 2)
    BY <2>2, FS_AddElement
  <2>4. Cardinality({CtlName, Dot, DotDot}) = 3
    BY NamesAssumption
  <2> QED
    BY <2>1, <2>2, <2>3, <2>4
<1> QED
  BY <1>1, NamesAssumption DEF Nodes

LEMMA IdlePlace ==
  /\ Idle \in Places /\ PlaceOK(Idle) /\ Held(Idle) = {} /\ ~IsNew(Idle)
  /\ Idle.at = "idle" /\ Idle.op = "none" /\ Idle.dir = None /\ Idle.node = None /\ Idle.name = None
  /\ Idle.from = Source /\ Source.dir = None /\ Source.node = None /\ Source.name = None
BY Distinct DEF Idle, Places, PlaceOK, OpOK, NameOK, NodeOK, FromOK, Source, Held, IsNew, Asking

\* A place but for what is in it of an action.
LEMMA PlaceFields ==
  ASSUME NEW p \in Places
  PROVE  /\ p.op \in Operations \cup {"none"} /\ p.dir \in Dirs \cup {None}
         /\ p.name \in AllNames \cup {None} /\ p.node \in Nodes \cup {None}
         /\ p.from.dir \in Dirs \cup {None} /\ p.from.name \in AllNames \cup {None}
         /\ p.from.node \in Nodes \cup {None}
BY DEF Places

-----------------------------------------------------------------------------
(* Counting references.                                                    *)

Is(a, n) == IF a = n THEN 1 ELSE 0
Slots == {"dir", "node", "fromdir", "fromnode"}
Num(p, n) ==
  Is(Ref(p, "dir"), n) + Is(Ref(p, "node"), n) + Is(Ref(p, "fromdir"), n) + Is(Ref(p, "fromnode"), n)

LEMMA RefIs ==
  ASSUME NEW p
  PROVE  /\ Ref(p, "dir") = p.dir /\ Ref(p, "fromdir") = p.from.dir /\ Ref(p, "fromnode") = p.from.node
         /\ p.at = "found" \/ IsNew(p) => Ref(p, "node") = None
         /\ p.at # "found" /\ ~IsNew(p) => Ref(p, "node") = p.node
BY DEF Ref

LEMMA NumType == ASSUME NEW p, NEW n PROVE Num(p, n) \in Nat
BY DEF Num, Is

LEMMA IdleNum == ASSUME NEW n \in Nodes PROVE Num(Idle, n) = 0
BY IdlePlace, RefIs, Distinct DEF Num, Is

LEMMA UsersFinite == ASSUME NEW s, NEW n PROVE IsFiniteSet(Users(s, n)) /\ Cardinality(Users(s, n)) \in Nat
<1>1. Users(s, n) \subseteq Threads
  BY DEF Users
<1> QED
  BY <1>1, FS_Subset, FS_CardinalityType, NamesAssumption

\* k, when a thread goes from p to q, if it counts references in slot s to n.
After(k, p, q, s, n) == k - Is(Ref(p, s), n) + Is(Ref(q, s), n)

\* One thread moves: what becomes of the number of those with a reference in slot s.
LEMMA UsersMove ==
  ASSUME ThreadsOK, NEW t \in Threads, NEW q, pc' = [pc EXCEPT ![t] = q], NEW s, NEW n
  PROVE  Cardinality(Users(s, n)') = After(Cardinality(Users(s, n)), pc[t], q, s, n)
<1>1. /\ pc'[t] = q /\ \A u \in Threads : u # t => pc'[u] = pc[u]
  BY DEF ThreadsOK
<1>2. Users(s, n)' = {u \in Threads : Ref(pc'[u], s) = n}
  BY DEF Users, Ref, IsNew
<1>3. IsFiniteSet(Users(s, n)) /\ Cardinality(Users(s, n)) \in Nat
  BY UsersFinite
<1>4. CASE Ref(q, s) = n <=> Ref(pc[t], s) = n
  <2>1. Users(s, n)' = Users(s, n)
    BY <1>1, <1>2, <1>4 DEF Users
  <2>2. Is(Ref(pc[t], s), n) = Is(Ref(q, s), n) /\ Is(Ref(q, s), n) \in Nat
    BY <1>4 DEF Is
  <2> QED
    BY <1>3, <2>1, <2>2 DEF After
<1>5. CASE Ref(q, s) = n /\ Ref(pc[t], s) # n
  <2>1. Users(s, n)' = Users(s, n) \cup {t} /\ t \notin Users(s, n)
    BY <1>1, <1>2, <1>5 DEF Users
  <2>2. Cardinality(Users(s, n)') = Cardinality(Users(s, n)) + 1
    BY <1>3, <2>1, FS_AddElement
  <2>3. Is(Ref(pc[t], s), n) = 0 /\ Is(Ref(q, s), n) = 1
    BY <1>5 DEF Is
  <2> QED
    BY <1>3, <2>2, <2>3 DEF After
<1>6. CASE Ref(q, s) # n /\ Ref(pc[t], s) = n
  <2>1. Users(s, n)' = Users(s, n) \ {t} /\ t \in Users(s, n)
    BY <1>1, <1>2, <1>6 DEF Users
  <2>2. Cardinality(Users(s, n)') = Cardinality(Users(s, n)) - 1
    BY <1>3, <2>1, FS_RemoveElement
  <2>3. Is(Ref(pc[t], s), n) = 1 /\ Is(Ref(q, s), n) = 0
    BY <1>6 DEF Is
  <2> QED
    BY <1>3, <2>2, <2>3 DEF After
<1> QED
  BY <1>4, <1>5, <1>6

LEMMA AllUsersMove ==
  ASSUME ThreadsOK, NEW t \in Threads, NEW q, pc' = [pc EXCEPT ![t] = q]
  PROVE  \A s, n : Cardinality(Users(s, n)') = After(Cardinality(Users(s, n)), pc[t], q, s, n)
BY UsersMove

\* A node has a reference for each time a thread at p has one.
LEMMA NumUsed ==
  ASSUME UseOK, NEW t \in Threads, NEW n \in Nodes
  PROVE  use[n] >= Num(pc[t], n)
<1> DEFINE c(s) == Cardinality(Users(s, n))
           i(s) == Is(Ref(pc[t], s), n)
<1>1. ASSUME NEW s \in Slots PROVE c(s) \in Nat /\ i(s) \in Nat /\ c(s) >= i(s)
  <2>1. IsFiniteSet(Users(s, n)) /\ c(s) \in Nat
    BY UsersFinite
  <2>2. CASE Ref(pc[t], s) = n
    <3>1. t \in Users(s, n)
      BY <2>2 DEF Users
    <3>2. c(s) # 0
      BY <2>1, <3>1, FS_EmptySet
    <3> QED
      BY <2>1, <2>2, <3>2 DEF Is
  <2>3. CASE Ref(pc[t], s) # n
    BY <2>1, <2>3 DEF Is
  <2> QED
    BY <2>2, <2>3
<1>2. use[n] = c("dir") + c("node") + c("fromdir") + c("fromnode")
  BY DEF UseOK
<1>3. Num(pc[t], n) = i("dir") + i("node") + i("fromdir") + i("fromnode")
  BY DEF Num
<1>4. \A s \in Slots : c(s) \in Nat /\ i(s) \in Nat /\ c(s) >= i(s)
  BY <1>1
<1> HIDE DEF c, i
<1>5. /\ c("dir") \in Nat /\ i("dir") \in Nat /\ c("dir") >= i("dir")
      /\ c("node") \in Nat /\ i("node") \in Nat /\ c("node") >= i("node")
      /\ c("fromdir") \in Nat /\ i("fromdir") \in Nat /\ c("fromdir") >= i("fromdir")
      /\ c("fromnode") \in Nat /\ i("fromnode") \in Nat /\ c("fromnode") >= i("fromnode")
  BY <1>4 DEF Slots
<1> QED
  BY <1>2, <1>3, <1>5

LEMMA UseMove ==
  ASSUME ThreadsOK, UseOK, NEW t \in Threads, NEW q, pc' = [pc EXCEPT ![t] = q],
         use' \in [Nodes -> Int],
         \A n \in Nodes : use'[n] = use[n] - Num(pc[t], n) + Num(q, n)
  PROVE  UseOK'
<1>1. ASSUME NEW n \in Nodes
      PROVE  /\ use'[n] \in Nat
             /\ use'[n] = Cardinality(Users("dir", n)') + Cardinality(Users("node", n)')
                          + Cardinality(Users("fromdir", n)') + Cardinality(Users("fromnode", n)')
  <2>0. \A s \in Slots : Cardinality(Users(s, n)') = After(Cardinality(Users(s, n)), pc[t], q, s, n)
    BY AllUsersMove
  <2> DEFINE c(s) == Cardinality(Users(s, n))
             d(s) == Cardinality(Users(s, n)')
             i(s) == Is(Ref(pc[t], s), n)
             j(s) == Is(Ref(q, s), n)
  <2>1. \A s \in Slots : d(s) = c(s) - i(s) + j(s)
    BY <2>0 DEF After
  <2>2. \A s \in Slots : c(s) \in Nat /\ i(s) \in Nat /\ j(s) \in Nat
    BY UsersFinite DEF Is
  <2>3. use[n] = c("dir") + c("node") + c("fromdir") + c("fromnode")
    BY DEF UseOK
  <2>4. Num(pc[t], n) = i("dir") + i("node") + i("fromdir") + i("fromnode")
    BY DEF Num
  <2>5. Num(q, n) = j("dir") + j("node") + j("fromdir") + j("fromnode")
    BY DEF Num
  <2>6. use[n] >= Num(pc[t], n) /\ use[n] \in Nat /\ Num(pc[t], n) \in Nat /\ Num(q, n) \in Nat
    BY NumUsed, NumType DEF UseOK
  <2>7. use'[n] = use[n] - Num(pc[t], n) + Num(q, n)
    OBVIOUS
  <2> HIDE DEF c, d, i, j
  <2>8. /\ d("dir") = c("dir") - i("dir") + j("dir") /\ d("node") = c("node") - i("node") + j("node")
        /\ d("fromdir") = c("fromdir") - i("fromdir") + j("fromdir")
        /\ d("fromnode") = c("fromnode") - i("fromnode") + j("fromnode")
    BY <2>1 DEF Slots
  <2>9. /\ c("dir") \in Nat /\ c("node") \in Nat /\ c("fromdir") \in Nat /\ c("fromnode") \in Nat
        /\ i("dir") \in Nat /\ i("node") \in Nat /\ i("fromdir") \in Nat /\ i("fromnode") \in Nat
        /\ j("dir") \in Nat /\ j("node") \in Nat /\ j("fromdir") \in Nat /\ j("fromnode") \in Nat
    BY <2>2 DEF Slots
  <2>10. use'[n] \in Nat
    BY <2>6, <2>7
  <2>11. use'[n] = d("dir") + d("node") + d("fromdir") + d("fromnode")
    BY <2>3, <2>4, <2>5, <2>7, <2>8, <2>9
  <2> QED
    BY <2>10, <2>11 DEF d
<1> QED
  BY <1>1 DEF UseOK

(* How often a node is in what is given back.                              *)

Firsts(S, n, k) == {i \in 1..k : S[i] = n}

LEMMA FirstsOneMore ==
  ASSUME NEW S, NEW n, NEW k \in Nat, NEW m, m = k + 1, IsFiniteSet(Firsts(S, n, k))
  PROVE  /\ IsFiniteSet(Firsts(S, n, m))
         /\ Cardinality(Firsts(S, n, m)) = Cardinality(Firsts(S, n, k)) + Is(S[m], n)
<1>1. Cardinality(Firsts(S, n, k)) \in Nat
  BY FS_CardinalityType
<1>2. CASE S[m] = n
  <2>1. Firsts(S, n, m) = Firsts(S, n, k) \cup {m} /\ m \notin Firsts(S, n, k)
    BY <1>2 DEF Firsts
  <2>2. IsFiniteSet(Firsts(S, n, m)) /\ Cardinality(Firsts(S, n, m)) = Cardinality(Firsts(S, n, k)) + 1
    BY <2>1, FS_AddElement
  <2> QED
    BY <1>2, <2>2 DEF Is
<1>3. CASE S[m] # n
  <2>1. Firsts(S, n, m) = Firsts(S, n, k)
    BY <1>3 DEF Firsts
  <2> QED
    BY <1>1, <1>3, <2>1 DEF Is
<1> QED
  BY <1>2, <1>3

LEMMA TimesFirsts ==
  ASSUME NEW S, NEW n, NEW k, DOMAIN S = 1..k
  PROVE  Times(S, n) = Cardinality(Firsts(S, n, k))
BY DEF Times, Firsts

LEMMA FirstsUpTo ==
  ASSUME NEW S, NEW n
  PROVE  /\ IsFiniteSet(Firsts(S, n, 0)) /\ Cardinality(Firsts(S, n, 0)) = 0
         /\ IsFiniteSet(Firsts(S, n, 1)) /\ Cardinality(Firsts(S, n, 1)) = Is(S[1], n)
         /\ Cardinality(Firsts(S, n, 2)) = Is(S[1], n) + Is(S[2], n)
<1>1. IsFiniteSet(Firsts(S, n, 0)) /\ Cardinality(Firsts(S, n, 0)) = 0
  <2>1. Firsts(S, n, 0) = {}
    BY DEF Firsts
  <2> QED
    BY <2>1, FS_EmptySet
<1>2. IsFiniteSet(Firsts(S, n, 1)) /\ Cardinality(Firsts(S, n, 1)) = Is(S[1], n)
  <2>1. 1 = 0 + 1 /\ 0 \in Nat /\ Is(S[1], n) \in Nat
    BY DEF Is
  <2> QED
    BY <1>1, <2>1, FirstsOneMore
<1>3. Cardinality(Firsts(S, n, 2)) = Is(S[1], n) + Is(S[2], n)
  <2>1. 2 = 1 + 1 /\ 1 \in Nat
    OBVIOUS
  <2> QED
    BY <1>2, <2>1, FirstsOneMore
<1> QED
  BY <1>1, <1>2, <1>3

LEMMA Times0 == ASSUME NEW n PROVE Times(<<>>, n) = 0
<1>1. DOMAIN <<>> = 1..0
  OBVIOUS
<1> QED
  BY <1>1, TimesFirsts, FirstsUpTo

LEMMA Times1 == ASSUME NEW a, NEW n PROVE Times(<<a>>, n) = Is(a, n)
<1>1. DOMAIN <<a>> = 1..1 /\ <<a>>[1] = a
  OBVIOUS
<1>2. Times(<<a>>, n) = Cardinality(Firsts(<<a>>, n, 1))
  BY <1>1, TimesFirsts
<1>3. Cardinality(Firsts(<<a>>, n, 1)) = Is(<<a>>[1], n)
  BY FirstsUpTo
<1> QED
  BY <1>1, <1>2, <1>3

LEMMA Times2 == ASSUME NEW a, NEW b, NEW n PROVE Times(<<a, b>>, n) = Is(a, n) + Is(b, n)
<1>1. DOMAIN <<a, b>> = 1..2 /\ <<a, b>>[1] = a /\ <<a, b>>[2] = b
  OBVIOUS
<1>2. Times(<<a, b>>, n) = Cardinality(Firsts(<<a, b>>, n, 2))
  BY <1>1, TimesFirsts
<1>3. Cardinality(Firsts(<<a, b>>, n, 2)) = Is(<<a, b>>[1], n) + Is(<<a, b>>[2], n)
  BY FirstsUpTo
<1> QED
  BY <1>1, <1>2, <1>3

-----------------------------------------------------------------------------
(* A thread moves: it has the locks and references of its new place, and   *)
(* the others have theirs.                                                 *)

Moves(t, q) ==
  /\ pc' = [pc EXCEPT ![t] = q] /\ q \in Places /\ PlaceOK(q)
  /\ lock' \in [Nodes -> Threads \cup {None}]
  /\ \A n \in Nodes : lock'[n] = t <=> n \in Held(q)
  /\ \A n \in Nodes, u \in Threads \ {t} : lock'[n] = u <=> lock[n] = u
  /\ use' \in [Nodes -> Int]
  /\ \A n \in Nodes : use'[n] = use[n] - Num(pc[t], n) + Num(q, n)

LEMMA MovesPlaces ==
  ASSUME Inv, NEW t \in Threads, NEW q, Moves(t, q)
  PROVE  /\ ThreadsOK' /\ LockOK' /\ UseOK'
         /\ pc'[t] = q /\ \A u \in Threads \ {t} : pc'[u] = pc[u]
<1>1. pc'[t] = q /\ (\A u \in Threads \ {t} : pc'[u] = pc[u]) /\ ThreadsOK'
  BY DEF Inv, ThreadsOK, Moves
<1>2. LockOK'
  <2>1. ASSUME NEW n \in Nodes, NEW u \in Threads PROVE lock'[n] = u <=> n \in Held(pc'[u])
    <3>1. CASE u = t
      BY <1>1, <3>1 DEF Moves
    <3>2. CASE u # t
      BY <1>1, <3>2 DEF Moves, Inv, LockOK
    <3> QED
      BY <3>1, <3>2
  <2>2. \A n \in Nodes, u \in Threads : lock'[n] = u <=> n \in Held(pc'[u])
    BY <2>1
  <2> QED
    BY <2>2 DEF LockOK, Moves, Held, IsNew
<1>3. UseOK'
  BY UseMove DEF Inv, Moves
<1> QED
  BY <1>1, <1>2, <1>3

\* Locks and references stay as they are.
LEMMA Stays ==
  ASSUME Inv, NEW t \in Threads, NEW q \in Places, PlaceOK(q), pc' = [pc EXCEPT ![t] = q],
         UNCHANGED <<lock, use>>, Held(q) = Held(pc[t]), \A n \in Nodes : Num(q, n) = Num(pc[t], n)
  PROVE  Moves(t, q)
<1>1. \A n \in Nodes : lock'[n] = t <=> n \in Held(q)
  BY DEF Inv, LockOK
<1>2. \A n \in Nodes : use'[n] = use[n] - Num(pc[t], n) + Num(q, n)
  <2> TAKE n \in Nodes
  <2>1. use[n] \in Nat /\ Num(q, n) \in Nat /\ use'[n] = use[n] /\ Num(q, n) = Num(pc[t], n)
    BY NumType DEF Inv, UseOK
  <2> QED
    BY <2>1
<1>3. use' \in [Nodes -> Int] /\ lock' \in [Nodes -> Threads \cup {None}]
  BY DEF Inv, UseOK, LockOK
<1> QED
  BY <1>1, <1>2, <1>3 DEF Moves

\* What a thread had is given back.
LEMMA Gives ==
  ASSUME Inv, NEW t \in Threads, NEW puts, NEW rels, GiveBack(t, puts, rels),
         \A n \in Held(pc[t]) : Times(puts, n) > 0,
         \A n \in Nodes : /\ Times(puts, n) \in Nat /\ Times(rels, n) \in Nat
                          /\ Num(pc[t], n) = Times(puts, n) + Times(rels, n)
  PROVE  Moves(t, Idle)
<1>1. pc' = [pc EXCEPT ![t] = Idle] /\ Idle \in Places /\ PlaceOK(Idle)
  BY IdlePlace DEF GiveBack
<1>2. /\ lock' \in [Nodes -> Threads \cup {None}]
      /\ \A n \in Nodes : lock'[n] # t
      /\ \A n \in Nodes, u \in Threads \ {t} : lock'[n] = u <=> lock[n] = u
  <2>1. lock \in [Nodes -> Threads \cup {None}] /\ \A n \in Nodes : lock[n] = t => n \in Held(pc[t])
    BY DEF Inv, LockOK
  <2>2. lock' = [n \in Nodes |-> IF lock[n] = t /\ Times(puts, n) > 0 THEN None ELSE lock[n]]
    BY DEF GiveBack, Unlocked
  <2> QED
    BY <2>1, <2>2, Distinct
<1>3. /\ use' \in [Nodes -> Int]
      /\ \A n \in Nodes : use'[n] = use[n] - Num(pc[t], n) + Num(Idle, n)
  <2>1. use' = [n \in Nodes |-> [m \in Nodes |-> use[m] - Times(puts, m)][n] - Times(rels, n)]
    BY DEF GiveBack, Dropped
  <2>2. ASSUME NEW n \in Nodes
        PROVE  use'[n] \in Int /\ use'[n] = use[n] - Num(pc[t], n) + Num(Idle, n)
    <3>1. use'[n] = (use[n] - Times(puts, n)) - Times(rels, n)
      BY <2>1
    <3>2. use[n] \in Nat /\ Num(Idle, n) = 0
      BY IdleNum DEF Inv, UseOK
    <3> QED
      BY <3>1, <3>2
  <2> QED
    BY <2>1, <2>2
<1>4. \A n \in Nodes : lock'[n] = t <=> n \in Held(Idle)
  BY <1>2, IdlePlace
<1> QED
  BY <1>1, <1>2, <1>3, <1>4 DEF Moves

\* What the directories, the name cache and the attributes hold stays right.
LEMMA DataLess ==
  ASSUME Inv, known \subseteq known'
  PROVE  /\ cache' \subseteq cache => CacheOK'
         /\ attr' = attr => AttrOK'
         /\ \A D : attr' = Invalid(D) => AttrOK'
<1>1. ASSUME cache' \subseteq cache PROVE CacheOK'
  <2>1. IsFiniteSet(cache') /\ Cardinality(cache') <= Cardinality(cache)
    BY <1>1, FS_Subset DEF Inv, CacheOK
  <2>2. Cardinality(cache') \in Nat /\ Cardinality(cache) \in Nat /\ CacheSize \in Nat
    BY <2>1, FS_CardinalityType, NamesAssumption DEF Inv, CacheOK
  <2>3. Cardinality(cache') <= CacheSize
    BY <2>1, <2>2 DEF Inv, CacheOK
  <2> QED
    BY <1>1, <2>1, <2>3 DEF Inv, CacheOK
<1>2. attr' = attr => AttrOK'
  BY DEF Inv, AttrOK
<1>3. \A D : attr' = Invalid(D) => AttrOK'
  BY DEF Inv, AttrOK, Invalid
<1> QED
  BY <1>1, <1>2, <1>3

\* A thread moves, while Venus does nothing.
LEMMA Quiet ==
  ASSUME Inv, NEW t \in Threads, NEW q, Moves(t, q), ~IsNew(q),
         UNCHANGED <<tree, fresh, panicked>>,
         known \subseteq known', known' \subseteq known \cup ({q.node} \ {None}),
         q.dir \in known \cup {None}, q.from.dir \in known \cup {None},
         q.from.node \in known \cup {None},
         q.node \in known' \cup {None} \/ q.at = "found", q.node \notin fresh,
         \A u \in Threads \ {t} : IsNew(pc[u]) => pc[u].node # q.node,
         CacheOK', AttrOK', ops' \in 0..MaxOps
  PROVE  Inv'
<1>1. /\ ThreadsOK' /\ LockOK' /\ UseOK'
      /\ pc'[t] = q /\ \A u \in Threads \ {t} : pc'[u] = pc[u]
  BY MovesPlaces
<1>2. SeenOK'
  <2>1. SeenBy(q)'
    BY DEF SeenBy
  <2>2. \A u \in Threads : SeenBy(pc[u])
    BY DEF Inv, SeenOK
  <2>3. ASSUME NEW u \in Threads \ {t}, NEW p, p = pc[u] PROVE SeenBy(p)'
    BY <2>2, <2>3 DEF SeenBy, IsNew
  <2> QED
    BY <1>1, <2>1, <2>3 DEF SeenOK, SeenBy, IsNew
<1>3. KnownOK'
  <2>1. q.node \in Nodes \cup {None}
    BY PlaceFields DEF Moves
  <2> QED
    BY <2>1 DEF Inv, KnownOK
<1>4. TreeOK'
  BY DEF Inv, TreeOK
<1>5. NewOK'
  <2>1. ASSUME NEW u \in Threads, IsNew(pc'[u])
        PROVE  /\ u # t /\ pc[u].node \notin known'
               /\ \A v \in Threads \ {u} : pc'[v].node # pc[u].node
    <3>1. u # t
      BY <1>1, <2>1
    <3>2. IsNew(pc[u]) /\ pc[u].node \notin known /\ \A v \in Threads \ {u} : pc[v].node # pc[u].node
      BY <1>1, <2>1, <3>1 DEF Inv, NewOK
    <3> QED
      BY <1>1, <3>1, <3>2
  <2> QED
    BY <1>1, <2>1 DEF Inv, NewOK, IsNew
<1> QED
  BY <1>1, <1>2, <1>3, <1>4, <1>5 DEF Inv

\* A thread goes on with nodes that are known, or with the one it has.
LEMMA Onward ==
  ASSUME Inv, NEW t \in Threads, NEW q, Moves(t, q), ~IsNew(q),
         UNCHANGED <<tree, fresh, panicked>>,
         \/ known' = known /\ q.node \in known \cup {None}
         \/ known' = known \cup {q.node} /\ q.node = pc[t].node /\ q.node # None,
         q.dir \in known \cup {None}, q.from.dir \in known \cup {None},
         q.from.node \in known \cup {None},
         CacheOK', AttrOK', ops' \in 0..MaxOps
  PROVE  Inv'
<1>1. q.node \notin fresh
  <2>1. pc[t].node \notin fresh /\ None \notin fresh /\ known \cap fresh = {}
    BY Distinct DEF Inv, SeenOK, SeenBy, KnownOK
  <2> QED
    BY <2>1
<1>2. ASSUME NEW u \in Threads \ {t}, IsNew(pc[u]) PROVE pc[u].node # q.node
  <2>1. pc[u].node \notin known /\ pc[u].node # pc[t].node
    BY <1>2 DEF Inv, NewOK
  <2>2. pc[u].node \in Nodes
    BY <1>2 DEF Inv, ThreadsOK, PlaceOK, NodeOK
  <2> QED
    BY <2>1, <2>2, Distinct
<1> QED
  BY <1>1, <1>2, Quiet

\* A thread is done.
LEMMA Home ==
  ASSUME Inv, NEW t \in Threads, Moves(t, Idle), UNCHANGED <<known, tree, fresh, panicked>>,
         CacheOK', AttrOK', ops' \in 0..MaxOps
  PROVE  Inv'
BY Onward, IdlePlace

-----------------------------------------------------------------------------
(* coda_lookup.                                                            *)

\* The place q of a thread that has found c.
Reached(p, q, c) ==
  /\ q \in Places /\ q.op = p.op /\ q.dir = p.dir /\ q.name = p.name /\ q.from = p.from /\ q.node = c
  /\ q.at \in {"child", "has", "relock"} /\ (q.at # "child" => (q.at = "relock" <=> p.op = "mkdirup"))

LEMMA ReachGets ==
  ASSUME NEW t \in Threads, NEW p \in Places, NEW L \in [Nodes -> Threads \cup {None}], NEW U,
         NEW c \in Nodes, p.dir \in Dirs, c # p.dir,
         p.name = DotDot <=> p.op \in {"up", "mkdirup"},
         \A n \in Nodes : L[n] = t <=> n = p.dir /\ p.name # DotDot,
         Reach(t, p, L, U, c)
  PROVE  \E q \in Places :
           /\ pc' = [pc EXCEPT ![t] = q] /\ Reached(p, q, c)
           /\ lock' \in [Nodes -> Threads \cup {None}]
           /\ \A n \in Nodes : lock'[n] = t <=> n \in Held(q)
           /\ \A n \in Nodes, u \in Threads \ {t} : lock'[n] = u <=> L[n] = u
           /\ use' = [U EXCEPT ![c] = @ + 1]
<1> DEFINE M == Left(p, L)
           s == IF p.op = "mkdirup" THEN "relock" ELSE "has"
           g == [[p EXCEPT !.node = c] EXCEPT !.at = s]
           w == [[p EXCEPT !.node = c] EXCEPT !.at = "child"]
<1>1. /\ M \in [Nodes -> Threads \cup {None}]
      /\ \A n \in Nodes : M[n] = t <=> n = p.dir /\ p.name # DotDot /\ Holds(p)
      /\ \A n \in Nodes, u \in Threads \ {t} : M[n] = u <=> L[n] = u
  BY Distinct DEF Left
<1>2. p.op = "mkdirup" => p.name = DotDot
  OBVIOUS
<1>3. /\ use' = [U EXCEPT ![c] = @ + 1]
      /\ \/ M[c] = None /\ GotChild(t, [p EXCEPT !.node = c], M)
         \/ /\ M[c] # None /\ Go(t, [p EXCEPT !.node = c], "child")
            /\ lock' = IF c = Ctl THEN L ELSE M
  BY DEF Reach
<1> HIDE DEF M
<1>4. CASE M[c] = None /\ GotChild(t, [p EXCEPT !.node = c], M)
  <2>1. [p EXCEPT !.node = c].node = c /\ [p EXCEPT !.node = c].op = p.op
    BY DEF Places
  <2>2. lock' = [M EXCEPT ![c] = t] /\ pc' = [pc EXCEPT ![t] = g]
    BY <1>4, <2>1 DEF GotChild, Go
  <2>3. /\ g \in Places /\ g.op = p.op /\ g.dir = p.dir /\ g.name = p.name /\ g.from = p.from
        /\ g.node = c /\ g.at = s
    BY DEF Places
  <2> HIDE DEF g
  <2>6. Reached(p, g, c)
    BY <2>3 DEF Reached
  <2>4. \A n \in Nodes : n \in Held(g) <=> n = c \/ (n = p.dir /\ p.name # DotDot /\ Holds(p))
    BY <1>2, <2>3 DEF Held, Reached, IsNew, Holds, Wanting
  <2>5. /\ lock' \in [Nodes -> Threads \cup {None}]
        /\ \A n \in Nodes : lock'[n] = t <=> n \in Held(g)
        /\ \A n \in Nodes, u \in Threads \ {t} : lock'[n] = u <=> L[n] = u
    BY <1>1, <1>4, <2>2, <2>4, Distinct
  <2> QED
    BY <1>3, <2>2, <2>3, <2>5, <2>6
<1>5. CASE /\ M[c] # None /\ Go(t, [p EXCEPT !.node = c], "child")
           /\ lock' = IF c = Ctl THEN L ELSE M
  <2>2. pc' = [pc EXCEPT ![t] = w]
    BY <1>5 DEF Go
  <2>3. /\ w \in Places /\ w.op = p.op /\ w.dir = p.dir /\ w.name = p.name /\ w.from = p.from
        /\ w.node = c /\ w.at = "child"
    BY DEF Places
  <2> HIDE DEF w
  <2>6. Reached(p, w, c)
    BY <2>3 DEF Reached
  <2>4. \A n \in Nodes : n \in Held(w) <=> n = p.dir /\ p.name # DotDot /\ (Holds(p) \/ c = Ctl)
    BY <2>3 DEF Held, Reached, IsNew, Holds
  <2>5. /\ lock' \in [Nodes -> Threads \cup {None}]
        /\ \A n \in Nodes : lock'[n] = t <=> n \in Held(w)
        /\ \A n \in Nodes, u \in Threads \ {t} : lock'[n] = u <=> L[n] = u
    BY <1>1, <1>5, <2>4
  <2> QED
    BY <1>3, <2>2, <2>3, <2>5, <2>6
<1> QED
  BY <1>3, <1>4, <1>5

\* What is at hand after coda_lookup: the control object, something cached, or nothing
\* yet, and Venus is asked.
Looked(p, q) ==
  \/ /\ q \in Places /\ q.op = p.op /\ q.dir = p.dir /\ q.name = p.name /\ q.from = p.from
     /\ q.at = "lookup" /\ q.node = None /\ p.name # CtlName /\ Cached(p.dir, p.name) = {}
  \/ p.name = CtlName /\ Reached(p, q, Ctl)
  \/ p.name # CtlName /\ \E e \in Cached(p.dir, p.name) : Reached(p, q, e.node)

LEMMA LookupGets ==
  ASSUME CacheOK, NEW t \in Threads, NEW p \in Places, NEW U, lock \in [Nodes -> Threads \cup {None}],
         p.dir \in Dirs, p.name \in Names \cup {CtlName, DotDot},
         p.name = DotDot <=> p.op \in {"up", "mkdirup"}, p.node = None,
         lock[p.dir] \in {t, None}, \A n \in Nodes : lock[n] = t => n = p.dir /\ p.name # DotDot,
         coda_lookup(t, p, U)
  PROVE  \E q \in Places :
           /\ pc' = [pc EXCEPT ![t] = q] /\ Looked(p, q)
           /\ lock' \in [Nodes -> Threads \cup {None}]
           /\ \A n \in Nodes : lock'[n] = t <=> n \in Held(q)
           /\ \A n \in Nodes, u \in Threads \ {t} : lock'[n] = u <=> lock[n] = u
           /\ use' = IF q.at = "lookup" THEN U ELSE [U EXCEPT ![q.node] = @ + 1]
<1> DEFINE L == LockedFor(t, p)
<1>1. /\ L \in [Nodes -> Threads \cup {None}]
      /\ \A n \in Nodes : L[n] = t <=> n = p.dir /\ p.name # DotDot
      /\ \A n \in Nodes, u \in Threads \ {t} : L[n] = u <=> lock[n] = u
  BY Distinct DEF LockedFor
<1>2. \A e \in Cached(p.dir, p.name) : e.node \in Nodes /\ e.node # p.dir /\ p.name # CtlName
  BY Distinct DEF Cached, CacheOK
<1>3. Ctl \in Nodes /\ Ctl # p.dir
  BY Distinct
<1>4. \/ p.name = CtlName /\ Reach(t, p, L, U, Ctl)
      \/ \E e \in Cached(p.dir, p.name) : Reach(t, p, L, U, e.node)
      \/ /\ p.name # CtlName /\ Cached(p.dir, p.name) = {}
         /\ lock' = L /\ use' = U /\ Go(t, p, "lookup")
  BY DEF coda_lookup
<1> HIDE DEF L
<1>5. ASSUME NEW c \in Nodes, c # p.dir, Reach(t, p, L, U, c),
             p.name = CtlName => c = Ctl, p.name # CtlName => \E e \in Cached(p.dir, p.name) : e.node = c
      PROVE  \E q \in Places :
               /\ pc' = [pc EXCEPT ![t] = q] /\ Looked(p, q)
               /\ lock' \in [Nodes -> Threads \cup {None}]
               /\ \A n \in Nodes : lock'[n] = t <=> n \in Held(q)
               /\ \A n \in Nodes, u \in Threads \ {t} : lock'[n] = u <=> lock[n] = u
               /\ use' = IF q.at = "lookup" THEN U ELSE [U EXCEPT ![q.node] = @ + 1]
  <2>1. PICK q \in Places :
           /\ pc' = [pc EXCEPT ![t] = q] /\ Reached(p, q, c)
           /\ lock' \in [Nodes -> Threads \cup {None}]
           /\ \A n \in Nodes : lock'[n] = t <=> n \in Held(q)
           /\ \A n \in Nodes, u \in Threads \ {t} : lock'[n] = u <=> L[n] = u
           /\ use' = [U EXCEPT ![c] = @ + 1]
    BY <1>1, <1>5, ReachGets
  <2>2. Looked(p, q)
    BY <1>5, <2>1 DEF Looked
  <2>3. q.at # "lookup" /\ q.node = c
    BY <2>1 DEF Reached
  <2>4. \A n \in Nodes, u \in Threads \ {t} : lock'[n] = u <=> lock[n] = u
    BY <1>1, <2>1
  <2>5. use' = IF q.at = "lookup" THEN U ELSE [U EXCEPT ![q.node] = @ + 1]
    BY <2>1, <2>3
  <2> QED
    BY <2>1, <2>2, <2>4, <2>5
<1>6. CASE p.name = CtlName /\ Reach(t, p, L, U, Ctl)
  BY <1>3, <1>5, <1>6
<1>7. CASE \E e \in Cached(p.dir, p.name) : Reach(t, p, L, U, e.node)
  BY <1>2, <1>5, <1>7
<1>8. CASE /\ p.name # CtlName /\ Cached(p.dir, p.name) = {}
           /\ lock' = L /\ use' = U /\ Go(t, p, "lookup")
  <2> DEFINE q == [p EXCEPT !.at = "lookup"]
  <2>1. /\ pc' = [pc EXCEPT ![t] = q] /\ q \in Places /\ q.op = p.op /\ q.from = p.from
        /\ q.at = "lookup" /\ q.dir = p.dir /\ q.name = p.name /\ q.node = None
    BY <1>8 DEF Go, Places
  <2> HIDE DEF q
  <2>3. Looked(p, q)
    BY <1>8, <2>1 DEF Looked
  <2>2. \A n \in Nodes : n \in Held(q) <=> n = p.dir /\ p.name # DotDot
    BY <2>1 DEF Held
  <2> QED
    BY <1>1, <1>8, <2>1, <2>2, <2>3
<1> QED
  BY <1>4, <1>6, <1>7, <1>8

\* The place of a thread that sets out for name n of directory d.
Path(op, d, n, from) ==
  [at |-> "idle", op |-> op, dir |-> d, name |-> n, node |-> None, from |-> from]

\* Which operations may look which names up, with what they bring.
Brings(op, d, n, from) ==
  /\ n = DotDot <=> op \in {"up", "mkdirup"}
  /\ n = CtlName => op \notin {"from", "rename"}
  /\ op \notin {"link", "rename"} => from = Source
  /\ op = "link" => from.dir = None /\ from.node \in Files
  /\ op = "rename" => from.dir = d /\ from.name \in Names /\ from.node \in Nodes

LEMMA ReachedOK ==
  ASSUME NEW p, NEW q, NEW c \in Nodes, Reached(p, q, c), p.op \in Operations, p.dir \in Dirs,
         p.name \in Names \cup {CtlName, DotDot}, Brings(p.op, p.dir, p.name, p.from), c # p.dir,
         p.name = CtlName => c = Ctl, p.name = DotDot => c \in Dirs
  PROVE  PlaceOK(q) /\ ~IsNew(q)
<1>1. /\ q.op = p.op /\ q.dir = p.dir /\ q.name = p.name /\ q.from = p.from /\ q.node = c
      /\ q.at \in {"child", "has", "relock"} /\ (q.at = "relock" => p.op = "mkdirup")
  BY DEF Reached
<1>2. p.op # "none" /\ CtlName # DotDot /\ None \notin Nodes
  BY Distinct DEF Operations
<1>3. OpOK(q)
  BY <1>1, <1>2 DEF OpOK
<1>4. NameOK(q)
  BY <1>1, <1>2 DEF NameOK, Brings
<1>5. NodeOK(q)
  BY <1>1, <1>2 DEF NodeOK, IsNew
<1>6. FromOK(q)
  BY <1>1 DEF FromOK, Brings
<1> QED
  BY <1>1, <1>3, <1>4, <1>5, <1>6 DEF PlaceOK, IsNew

LEMMA LookedOK ==
  ASSUME Inv, NEW p, NEW q \in Places, Looked(p, q), p.op \in Operations, p.dir \in Dirs,
         p.name \in Names \cup {CtlName, DotDot}, Brings(p.op, p.dir, p.name, p.from)
  PROVE  /\ PlaceOK(q) /\ ~IsNew(q)
         /\ q.op = p.op /\ q.dir = p.dir /\ q.name = p.name /\ q.from = p.from
         /\ q.at \in {"lookup", "child", "has", "relock"}
         /\ q.node \in known \cup {None} /\ (q.at = "lookup" <=> q.node = None) /\ q.node # p.dir
<1>1. CASE /\ q \in Places /\ q.op = p.op /\ q.dir = p.dir /\ q.name = p.name /\ q.from = p.from
           /\ q.at = "lookup" /\ q.node = None /\ p.name # CtlName /\ Cached(p.dir, p.name) = {}
  <2>1. p.op # "none" /\ None \notin Dirs
    BY Distinct DEF Operations
  <2>2. OpOK(q) /\ NameOK(q) /\ NodeOK(q) /\ FromOK(q)
    BY <1>1, <2>1 DEF OpOK, NameOK, NodeOK, FromOK, Brings, IsNew
  <2> QED
    BY <1>1, <2>1, <2>2 DEF PlaceOK, IsNew
<1>2. ASSUME NEW c \in known, c # p.dir, Reached(p, q, c), p.name = CtlName => c = Ctl,
             p.name = DotDot => c \in Dirs
      PROVE  /\ PlaceOK(q) /\ ~IsNew(q)
             /\ q.op = p.op /\ q.dir = p.dir /\ q.name = p.name /\ q.from = p.from
             /\ q.at \in {"child", "has", "relock"} /\ q.node = c
  <2>1. c \in Nodes
    BY DEF Inv, KnownOK
  <2>2. PlaceOK(q) /\ ~IsNew(q)
    BY <1>2, <2>1, ReachedOK
  <2> QED
    BY <1>2, <2>2 DEF Reached
<1>3. None \notin known /\ Ctl \in known /\ Ctl # p.dir
  BY Distinct DEF Inv, KnownOK
<1>4. CASE p.name = CtlName /\ Reached(p, q, Ctl)
  BY <1>2, <1>3, <1>4, Distinct
<1>5. CASE p.name # CtlName /\ \E e \in Cached(p.dir, p.name) : Reached(p, q, e.node)
  <2>1. PICK e \in Cached(p.dir, p.name) : Reached(p, q, e.node)
    BY <1>5
  <2>2. e.node \in known /\ e.node # p.dir /\ (p.name = DotDot => e.node \in Dirs)
    BY Distinct DEF Cached, Inv, CacheOK
  <2> QED
    BY <1>2, <1>3, <1>5, <2>1, <2>2
<1> QED
  BY <1>1, <1>4, <1>5 DEF Looked

LEMMA FreshPath ==
  ASSUME NEW op \in Operations, NEW d \in Dirs, NEW n \in Names \cup {CtlName, DotDot},
         NEW from \in [dir : Dirs \cup {None}, name : AllNames \cup {None}, node : Nodes \cup {None}]
  PROVE  LET p == Path(op, d, n, from)
         IN /\ p \in Places /\ p.op = op /\ p.dir = d /\ p.name = n /\ p.node = None /\ p.from = from
BY DEF Path, Places, AllNames

LEMMA CallLooks ==
  ASSUME Inv, NEW t \in Threads, At(t, "idle") \/ At(t, "second"), NEW op \in Operations, NEW d \in known \cap Dirs,
         NEW n \in Names \cup {CtlName, DotDot}, NEW from, from = pc[t].from, Brings(op, d, n, from),
         Call(t, op, d, n, from)
  PROVE  \E q \in Places : Moves(t, q) /\ Looked(Path(op, d, n, from), q)
<1> DEFINE p == Path(op, d, n, from)
           U == [use EXCEPT ![d] = @ + 1]
<1>1. from \in [dir : Dirs \cup {None}, name : AllNames \cup {None}, node : Nodes \cup {None}]
  BY DEF Inv, ThreadsOK, Places
<1>2. p \in Places /\ p.op = op /\ p.dir = d /\ p.name = n /\ p.node = None /\ p.from = from
  BY <1>1, FreshPath
<1>3. lock[d] = None /\ coda_lookup(t, p, U)
  BY DEF Call, Path
<1>4. /\ pc[t].dir = None /\ pc[t].node = None /\ pc[t].at \in {"idle", "second"}
      /\ Held(pc[t]) = {} /\ ~IsNew(pc[t])
  BY DEF Inv, ThreadsOK, PlaceOK, NameOK, At, Held, IsNew
<1>5. lock \in [Nodes -> Threads \cup {None}] /\ \A m \in Nodes : lock[m] # t
  BY <1>4 DEF Inv, LockOK
<1>5a. /\ CacheOK /\ p.dir \in Dirs /\ p.name \in Names \cup {CtlName, DotDot}
       /\ p.name = DotDot <=> p.op \in {"up", "mkdirup"}
       /\ lock[p.dir] \in {t, None} /\ \A m \in Nodes : lock[m] = t => m = p.dir /\ p.name # DotDot
  BY <1>2, <1>3, <1>5 DEF Inv, Brings
<1> HIDE DEF p, U
<1>6. PICK q \in Places :
        /\ pc' = [pc EXCEPT ![t] = q] /\ Looked(p, q)
        /\ lock' \in [Nodes -> Threads \cup {None}]
        /\ \A m \in Nodes : lock'[m] = t <=> m \in Held(q)
        /\ \A m \in Nodes, u \in Threads \ {t} : lock'[m] = u <=> lock[m] = u
        /\ use' = IF q.at = "lookup" THEN U ELSE [U EXCEPT ![q.node] = @ + 1]
  BY <1>2, <1>3, <1>5, <1>5a, LookupGets
<1>7. /\ PlaceOK(q) /\ q.dir = d /\ q.from = from /\ ~IsNew(q) /\ q.at # "found"
      /\ q.node \in known \cup {None} /\ (q.at = "lookup" <=> q.node = None) /\ q.node # d
  BY <1>2, <1>6, LookedOK
<1>8. use \in [Nodes -> Nat] /\ d \in Nodes /\ q.node \in Nodes \cup {None} /\ None \notin Nodes
  BY <1>7, Distinct DEF Inv, UseOK, KnownOK
<1>9. /\ use' \in [Nodes -> Int]
      /\ \A m \in Nodes : use'[m] = use[m] + Is(d, m) + Is(q.node, m)
  BY <1>6, <1>7, <1>8 DEF Is, U
<1>10. ASSUME NEW m \in Nodes PROVE use'[m] = use[m] - Num(pc[t], m) + Num(q, m)
  <2>1. Num(q, m) = Is(d, m) + Is(q.node, m) + Is(from.dir, m) + Is(from.node, m)
    BY <1>7, RefIs DEF Num
  <2>2. Num(pc[t], m) = Is(from.dir, m) + Is(from.node, m)
    <3>1. Is(None, m) = 0 /\ Is(from.dir, m) \in Nat /\ Is(from.node, m) \in Nat
      BY <1>8 DEF Is
    <3>2. /\ Ref(pc[t], "dir") = None /\ Ref(pc[t], "node") = None
          /\ Ref(pc[t], "fromdir") = from.dir /\ Ref(pc[t], "fromnode") = from.node
      BY <1>4, RefIs
    <3> QED
      BY <3>1, <3>2 DEF Num
  <2>3. /\ Is(d, m) \in Nat /\ Is(q.node, m) \in Nat /\ Is(from.dir, m) \in Nat
        /\ Is(from.node, m) \in Nat /\ use[m] \in Nat
    BY <1>8 DEF Is
  <2> QED
    BY <1>9, <2>1, <2>2, <2>3
<1> QED
  BY <1>6, <1>7, <1>9, <1>10 DEF Moves, p

LEMMA CallInv ==
  ASSUME Inv, NEW t \in Threads, At(t, "idle") \/ At(t, "second"), NEW op \in Operations, NEW d \in known \cap Dirs,
         NEW n \in Names \cup {CtlName, DotDot}, NEW from, from = pc[t].from, Brings(op, d, n, from),
         Call(t, op, d, n, from), UNCHANGED <<cache, attr, known, tree, fresh, panicked>>,
         ops' \in 0..MaxOps
  PROVE  Inv'
<1>1. PICK q \in Places : Moves(t, q) /\ Looked(Path(op, d, n, from), q)
  BY CallLooks
<1> DEFINE p == Path(op, d, n, from)
<1>2. from \in [dir : Dirs \cup {None}, name : AllNames \cup {None}, node : Nodes \cup {None}]
  BY DEF Inv, ThreadsOK, Places
<1>3. p \in Places /\ p.op = op /\ p.dir = d /\ p.name = n /\ p.node = None /\ p.from = from
  BY <1>2, FreshPath
<1> HIDE DEF p
<1>4. Looked(p, q)
  BY <1>1 DEF p
<1>5. ~IsNew(q) /\ q.dir = d /\ q.from = from /\ q.node \in known \cup {None}
  BY <1>3, <1>4, LookedOK
<1>6. from.dir \in known \cup {None} /\ from.node \in known \cup {None}
  BY DEF Inv, SeenOK, SeenBy
<1>7. CacheOK' /\ AttrOK'
  BY DataLess
<1> QED
  BY <1>1, <1>5, <1>6, <1>7, Onward

-----------------------------------------------------------------------------
(* The steps of threads up to their upcall.                                *)

LEMMA StartCalls ==
  ASSUME Inv, Calm, NEW t \in Threads, Start(t) \/ Second(t)
  PROVE  /\ At(t, "idle") \/ At(t, "second")
         /\ UNCHANGED <<cache, attr, known, tree, fresh, panicked>> /\ ops' \in 0..MaxOps
         /\ \E op \in Operations, d \in known \cap Dirs, n \in Names \cup {CtlName, DotDot} :
              Brings(op, d, n, pc[t].from) /\ Call(t, op, d, n, pc[t].from)
<1>1. pc[t] \in Places /\ PlaceOK(pc[t])
  BY DEF Inv, ThreadsOK
<1>2. "across" \notin Env /\ "control" \notin Env
  BY DEF Calm
<1>3. CASE Start(t)
  <2>1. At(t, "idle") /\ ops' \in 0..MaxOps /\ UNCHANGED <<cache, attr, known, tree, fresh, panicked>>
    BY <1>3, NamesAssumption DEF Start, Inv
  <2>2. pc[t].from = Source
    BY <1>1, <2>1 DEF PlaceOK, OpOK, FromOK, At
  <2>3. ASSUME NEW op, NEW d \in known \cap Dirs, NEW n, Call(t, op, d, n, Source),
               \/ /\ op \in {"walk", "create", "mkdir", "symlink", "remove", "rmdir", "from"}
                  /\ n \in Names \cup {CtlName}
               \/ op \in {"up", "mkdirup"} /\ n = DotDot
        PROVE  /\ op \in Operations /\ n \in Names \cup {CtlName, DotDot}
               /\ Brings(op, d, n, pc[t].from) /\ Call(t, op, d, n, pc[t].from)
    <3>1. n = DotDot <=> op \in {"up", "mkdirup"}
      BY <2>3, Distinct
    <3>2. n = CtlName => op \notin {"from", "rename"}
      BY <1>2, <2>3 DEF Call
    <3>3. op \notin {"link", "rename"} /\ op \in Operations
      BY <2>3 DEF Operations
    <3> QED
      BY <2>2, <2>3, <3>1, <3>2, <3>3 DEF Brings
  <2>4. PICK d \in known \cap Dirs :
       \/ \E op \in Ops \cap {"walk", "create", "mkdir", "symlink", "remove", "rmdir", "from"},
             n \in Names \cup {CtlName} : Call(t, op, d, n, Source)
       \/ d # Root /\ \E op \in Ops \cap {"up", "mkdirup"} : Call(t, op, d, DotDot, Source)
    BY <1>3 DEF Start
  <2> QED
    BY <2>1, <2>3, <2>4
<1>4. CASE Second(t)
  <2>1. /\ At(t, "second") /\ ops' \in 0..MaxOps
        /\ UNCHANGED <<cache, attr, known, tree, fresh, panicked>>
    BY <1>4 DEF Second, Inv
  <2>2. PICK d \in known \cap Dirs, n \in Names \cup {CtlName} :
       /\ pc[t].op = "rename" => d = pc[t].from.dir \/ "across" \in Env
       /\ Call(t, pc[t].op, d, n, pc[t].from)
    BY <1>4 DEF Second
  <2>3. pc[t].op \in {"link", "rename"} /\ FromOK(pc[t])
    BY <1>1, <2>1 DEF PlaceOK, OpOK, At
  <2>4. Brings(pc[t].op, d, n, pc[t].from)
    <3>1. n # DotDot /\ pc[t].op \notin {"up", "mkdirup"}
      BY <2>3, Distinct
    <3>2. n = CtlName => pc[t].op \notin {"from", "rename"}
      BY <1>2, <2>2, <2>3 DEF Call
    <3> QED
      BY <1>2, <2>2, <2>3, <3>1, <3>2 DEF Brings, FromOK
  <2>5. pc[t].op \in Operations
    BY <2>3 DEF Operations
  <2> QED
    BY <2>1, <2>2, <2>4, <2>5
<1> QED
  BY <1>3, <1>4

LEMMA StartInv == ASSUME Inv, Calm, NEW t \in Threads, Start(t) \/ Second(t) PROVE Inv'
BY StartCalls, CallInv

\* A thread that gives back what it has.
LEMMA GivesOf ==
  ASSUME Inv, NEW t \in Threads,
         \/ GiveBack(t, <<pc[t].dir>>, <<>>) /\ pc[t].from = Source /\ Ref(pc[t], "node") = None
         \/ /\ GiveBack(t, <<pc[t].dir>>, <<pc[t].from.dir, pc[t].from.node>>)
            /\ Ref(pc[t], "node") = None
         \/ /\ GiveBack(t, <<pc[t].dir, pc[t].node>>, <<pc[t].from.dir, pc[t].from.node>>)
            /\ pc[t].at # "found" /\ ~IsNew(pc[t])
         \/ /\ GiveBack(t, <<pc[t].dir, pc[t].node>>, <<pc[t].from.node>>)
            /\ pc[t].from.dir = None /\ pc[t].at # "found" /\ ~IsNew(pc[t])
         \/ /\ GiveBack(t, <<pc[t].node, pc[t].dir>>, <<pc[t].from.node, pc[t].from.dir>>)
            /\ pc[t].at # "found" /\ ~IsNew(pc[t])
         \/ /\ GiveBack(t, <<pc[t].node, pc[t].dir>>, <<>>)
            /\ pc[t].from = Source /\ pc[t].at # "found" /\ ~IsNew(pc[t])
         \/ /\ GiveBack(t, <<pc[t].node>>, <<pc[t].dir>>)
            /\ pc[t].from = Source /\ pc[t].at = "hold"
  PROVE  Moves(t, Idle)
<1> DEFINE p == pc[t]
<1>1. p \in Places /\ PlaceOK(p)
  BY DEF Inv, ThreadsOK
<1>2. \A a : ~(a \in Nodes) => \A n \in Nodes : Is(a, n) = 0
  BY DEF Is
<1>3. \A a, n : Is(a, n) \in Nat /\ (a = n => Is(a, n) > 0)
  BY DEF Is
<1>4. None \notin Nodes /\ Source.dir = None /\ Source.node = None
  BY Distinct, IdlePlace
<1>5. \A n : Num(p, n) = Is(p.dir, n) + Is(Ref(p, "node"), n) + Is(p.from.dir, n) + Is(p.from.node, n)
  BY RefIs DEF Num
<1>6. \A n : Is(None, n) = 0 \/ n \notin Nodes
  BY <1>4 DEF Is
<1>7. \A n \in Held(p) : /\ n = p.dir \/ (n = p.node /\ p.at # "found" /\ ~IsNew(p))
                         /\ p.at = "hold" => n = p.node
  BY <1>1 DEF Held, PlaceOK, NodeOK
<1>8. p.at # "found" /\ ~IsNew(p) => Ref(p, "node") = p.node
  BY RefIs
<1>9. Ref(p, "node") = None => \A n \in Held(p) : n = p.dir
  BY <1>4, <1>7, <1>8 DEF Held
<1> HIDE DEF p
<1>10. CASE GiveBack(t, <<p.dir>>, <<>>) /\ p.from = Source /\ Ref(p, "node") = None
  <2>1. \A n \in Held(p) : Times(<<p.dir>>, n) > 0
    BY <1>3, <1>9, <1>10, Times0, Times1, Times2
  <2>2. ASSUME NEW n \in Nodes
        PROVE  /\ Times(<<p.dir>>, n) \in Nat /\ Times(<<>>, n) \in Nat
               /\ Num(p, n) = Times(<<p.dir>>, n) + Times(<<>>, n)
    <3>1. Times(<<p.dir>>, n) = Is(p.dir, n) /\ Times(<<>>, n) = 0
      BY Times0, Times1, Times2
    <3>2. Num(p, n) = Is(p.dir, n) + Is(None, n) + Is(None, n) + Is(None, n) /\ Is(None, n) = 0
      BY <1>4, <1>5, <1>6, <1>10
    <3> QED
      BY <1>3, <3>1, <3>2
  <2> QED
    BY <1>10, <2>1, <2>2, Gives DEF p
<1>11. CASE GiveBack(t, <<p.dir>>, <<p.from.dir, p.from.node>>) /\ Ref(p, "node") = None
  <2>1. \A n \in Held(p) : Times(<<p.dir>>, n) > 0
    BY <1>3, <1>9, <1>11, Times0, Times1, Times2
  <2>2. ASSUME NEW n \in Nodes
        PROVE  /\ Times(<<p.dir>>, n) \in Nat /\ Times(<<p.from.dir, p.from.node>>, n) \in Nat
               /\ Num(p, n) = Times(<<p.dir>>, n) + Times(<<p.from.dir, p.from.node>>, n)
    <3>1. /\ Times(<<p.dir>>, n) = Is(p.dir, n)
          /\ Times(<<p.from.dir, p.from.node>>, n) = Is(p.from.dir, n) + Is(p.from.node, n)
      BY Times0, Times1, Times2
    <3>2. Num(p, n) = Is(p.dir, n) + Is(None, n) + Is(p.from.dir, n) + Is(p.from.node, n) /\ Is(None, n) = 0
      BY <1>5, <1>6, <1>11
    <3> QED
      BY <1>3, <3>1, <3>2
  <2> QED
    BY <1>11, <2>1, <2>2, Gives DEF p
<1>12. ASSUME Ref(p, "node") = p.node, NEW a, NEW b, {a, b} = {p.dir, p.node},
              \A n \in Nodes : Is(a, n) + Is(b, n) = Is(p.dir, n) + Is(p.node, n),
              NEW rels, \A n \in Nodes : Times(rels, n) = Is(p.from.dir, n) + Is(p.from.node, n),
              GiveBack(t, <<a, b>>, rels)
       PROVE  Moves(t, Idle)
  <2>1. \A n \in Held(p) : Times(<<a, b>>, n) > 0
    <3> TAKE n \in Held(p)
    <3>1. n = a \/ n = b
      BY <1>7, <1>12
    <3>2. Times(<<a, b>>, n) = Is(a, n) + Is(b, n)
      BY Times0, Times1, Times2
    <3> QED
      BY <1>3, <3>1, <3>2
  <2>2. ASSUME NEW n \in Nodes
        PROVE  /\ Times(<<a, b>>, n) \in Nat /\ Times(rels, n) \in Nat
               /\ Num(p, n) = Times(<<a, b>>, n) + Times(rels, n)
    <3>1. Times(<<a, b>>, n) = Is(p.dir, n) + Is(p.node, n)
      BY <1>12, Times0, Times1, Times2
    <3>2. Times(rels, n) = Is(p.from.dir, n) + Is(p.from.node, n)
      BY <1>12
    <3>3. Num(p, n) = Is(p.dir, n) + Is(p.node, n) + Is(p.from.dir, n) + Is(p.from.node, n)
      BY <1>5, <1>12
    <3> QED
      BY <1>3, <3>1, <3>2, <3>3
  <2> QED
    BY <1>12, <2>1, <2>2, Gives DEF p
<1>13. CASE /\ GiveBack(t, <<p.dir, p.node>>, <<p.from.dir, p.from.node>>)
            /\ p.at # "found" /\ ~IsNew(p)
  <2>1. \A n \in Nodes : Times(<<p.from.dir, p.from.node>>, n) = Is(p.from.dir, n) + Is(p.from.node, n)
    BY Times0, Times1, Times2
  <2> QED
    BY <1>8, <1>12, <1>13, <2>1
<1>14. CASE /\ GiveBack(t, <<p.dir, p.node>>, <<p.from.node>>)
            /\ p.from.dir = None /\ p.at # "found" /\ ~IsNew(p)
  <2>1. \A n \in Nodes : Times(<<p.from.node>>, n) = Is(p.from.dir, n) + Is(p.from.node, n)
    <3> TAKE n \in Nodes
    <3>1. Times(<<p.from.node>>, n) = Is(p.from.node, n) /\ Is(p.from.dir, n) = 0
      BY <1>6, <1>14, Times0, Times1, Times2
    <3> QED
      BY <1>3, <3>1
  <2> QED
    BY <1>8, <1>12, <1>14, <2>1
<1>15. CASE /\ GiveBack(t, <<p.node, p.dir>>, <<p.from.node, p.from.dir>>)
            /\ p.at # "found" /\ ~IsNew(p)
  <2>1. \A n \in Nodes : Times(<<p.from.node, p.from.dir>>, n) = Is(p.from.dir, n) + Is(p.from.node, n)
    <3> TAKE n \in Nodes
    <3>1. Times(<<p.from.node, p.from.dir>>, n) = Is(p.from.node, n) + Is(p.from.dir, n)
      BY Times0, Times1, Times2
    <3> QED
      BY <1>3, <3>1
  <2>2. \A n \in Nodes : Is(p.node, n) + Is(p.dir, n) = Is(p.dir, n) + Is(p.node, n)
    BY <1>3
  <2>3. {p.node, p.dir} = {p.dir, p.node}
    OBVIOUS
  <2> QED
    BY <1>8, <1>12, <1>15, <2>1, <2>2, <2>3
<1>16. CASE GiveBack(t, <<p.node, p.dir>>, <<>>) /\ p.from = Source /\ p.at # "found" /\ ~IsNew(p)
  <2>1. \A n \in Nodes : Times(<<>>, n) = Is(p.from.dir, n) + Is(p.from.node, n)
    <3> TAKE n \in Nodes
    <3>1. Times(<<>>, n) = 0 /\ Is(p.from.dir, n) = 0 /\ Is(p.from.node, n) = 0
      BY <1>4, <1>6, <1>16, Times0, Times1, Times2
    <3> QED
      BY <3>1
  <2>2. \A n \in Nodes : Is(p.node, n) + Is(p.dir, n) = Is(p.dir, n) + Is(p.node, n)
    BY <1>3
  <2>3. {p.node, p.dir} = {p.dir, p.node}
    OBVIOUS
  <2> QED
    BY <1>8, <1>12, <1>16, <2>1, <2>2, <2>3
<1>17. CASE GiveBack(t, <<p.node>>, <<p.dir>>) /\ p.from = Source /\ p.at = "hold"
  <2>1. \A n \in Held(p) : Times(<<p.node>>, n) > 0
    BY <1>3, <1>7, <1>17, Times0, Times1, Times2
  <2>2. ASSUME NEW n \in Nodes
        PROVE  /\ Times(<<p.node>>, n) \in Nat /\ Times(<<p.dir>>, n) \in Nat
               /\ Num(p, n) = Times(<<p.node>>, n) + Times(<<p.dir>>, n)
    <3>1. Times(<<p.dir>>, n) = Is(p.dir, n) /\ Times(<<p.node>>, n) = Is(p.node, n)
      BY Times0, Times1, Times2
    <3>2. Ref(p, "node") = p.node
      BY <1>8, <1>17 DEF IsNew
    <3>3. Num(p, n) = Is(p.dir, n) + Is(p.node, n) + Is(None, n) + Is(None, n) /\ Is(None, n) = 0
      BY <1>4, <1>5, <1>6, <1>17, <3>2
    <3> QED
      BY <1>3, <3>1, <3>3
  <2> QED
    BY <1>17, <2>1, <2>2, Gives DEF p
<1> QED
  BY <1>10, <1>11, <1>13, <1>14, <1>15, <1>16, <1>17 DEF p

LEMMA BindingIs ==
  ASSUME TreeOK, NEW d \in Dirs, NEW n \in Names \cup {DotDot}
  PROVE  /\ Binding(d, n) \in Dirs \cup Files \cup {None}
         /\ n \in Names => Binding(d, n) = tree[d][n]
         /\ n = DotDot /\ Binding(d, n) # None
              => Binding(d, n) \in Dirs /\ \E m \in Names : tree[Binding(d, n)][m] = d
         /\ Binding(d, n) # None => Binding(d, n) # d /\ Binding(d, n) \notin fresh
<1>1. CASE n \in Names
  <2>1. Binding(d, n) = tree[d][n] /\ n # DotDot
    BY <1>1, Distinct DEF Binding
  <2> QED
    BY <1>1, <2>1 DEF TreeOK
<1>2. CASE n = DotDot
  <2>1. n \notin Names /\ n # Dot
    BY <1>2, Distinct
  <2>2. CASE Parents(d) = {}
    <3>1. Binding(d, n) = None
      BY <1>2, <2>1, <2>2 DEF Binding
    <3> QED
      BY <2>1, <3>1
  <2>3. CASE Parents(d) # {}
    <3>1. Binding(d, n) = CHOOSE p \in Parents(d) : TRUE
      BY <1>2, <2>1, <2>3 DEF Binding
    <3>2. Binding(d, n) \in Parents(d)
      BY <2>3, <3>1
    <3>3. PICK m \in Names : Binding(d, n) \in Dirs /\ tree[Binding(d, n)][m] = d
      BY <3>2 DEF Parents
    <3>4. d # None
      BY Distinct
    <3>5. d # Binding(d, n) /\ Binding(d, n) \notin fresh
      BY <3>3, <3>4 DEF TreeOK
    <3> QED
      BY <2>1, <3>3, <3>5
  <2> QED
    BY <2>2, <2>3
<1> QED
  BY <1>1, <1>2

LEMMA LookupAnswerInv == ASSUME Inv, NEW t \in Threads, LookupAnswer(t) PROVE Inv'
<1> DEFINE p == pc[t]
           b == Binding(p.dir, p.name)
           q == [[p EXCEPT !.node = b] EXCEPT !.at = "found"]
<1>1. p \in Places /\ PlaceOK(p) /\ SeenBy(p) /\ p.at = "lookup"
  BY DEF Inv, ThreadsOK, SeenOK, LookupAnswer, At
<1>2. /\ pc' = [pc EXCEPT ![t] = q] /\ UNCHANGED <<lock, use, cache, attr, known, tree, fresh, panicked, ops>>
  BY DEF LookupAnswer, Go
<1>3. /\ p.dir \in Dirs /\ p.name \in Names \cup {DotDot} /\ p.node = None
      /\ p.name = DotDot <=> p.op \in {"up", "mkdirup"}
  BY <1>1, Distinct DEF PlaceOK, NameOK, NodeOK
<1>4. /\ b \in Nodes \cup {None} /\ b \notin fresh
      /\ b # None => b # p.dir /\ (p.name = DotDot => b \in Dirs)
      /\ p.name \in Names => b = tree[p.dir][p.name]
      /\ p.name = DotDot /\ b # None => \E m \in Names : tree[b][m] = p.dir
  <2>1. None \notin fresh
    BY Distinct DEF Inv, KnownOK
  <2> QED
    BY <1>3, <2>1, BindingIs, Distinct DEF Inv
<1> HIDE DEF b
<1>5. /\ q \in Places /\ q.at = "found" /\ q.op = p.op /\ q.dir = p.dir /\ q.name = p.name
      /\ q.node = b /\ q.from = p.from
  BY <1>1, <1>4 DEF Places
<1> HIDE DEF p, q
<1>6. PlaceOK(q) /\ ~IsNew(q)
  <2>1. OpOK(q) /\ FromOK(q)
    BY <1>1, <1>5 DEF PlaceOK, OpOK, FromOK
  <2>2. NameOK(q)
    BY <1>1, <1>3, <1>5, Distinct DEF PlaceOK, NameOK
  <2>3. NodeOK(q) /\ ~IsNew(q)
    BY <1>4, <1>5 DEF NodeOK, IsNew
  <2> QED
    BY <2>1, <2>2, <2>3 DEF PlaceOK
<1>7. Moves(t, q)
  <2>1. Held(q) = Held(p)
    BY <1>1, <1>5 DEF Held
  <2>2. Ref(q, "node") = None /\ Ref(p, "node") = None
    BY <1>1, <1>3, <1>5, RefIs DEF IsNew
  <2>3. \A n \in Nodes : Num(q, n) = Num(p, n)
    BY <1>5, <2>2, RefIs DEF Num
  <2> QED
    BY <1>2, <1>5, <1>6, <2>1, <2>3, Stays DEF p
<1>8. ASSUME NEW u \in Threads \ {t}, IsNew(pc[u]) PROVE pc[u].node # q.node
  <2>1. /\ pc[u].node \in Nodes /\ pc[u].dir \in Dirs /\ pc[u].dir \in Held(pc[u])
    BY <1>8, Distinct DEF Inv, ThreadsOK, PlaceOK, NodeOK, NameOK, IsNew, Held
  <2>2. \A d \in Dirs, n \in Names : tree[d][n] # None =>
          (tree[d][n] = pc[u].node => d = pc[u].dir) /\ d # pc[u].node
    BY <1>8 DEF Inv, NewOK
  <2>3. SUFFICES ASSUME b = pc[u].node PROVE FALSE
    BY <1>5
  <2>4. b # None
    BY <2>1, <2>3, Distinct
  <2>5. CASE p.name \in Names
    <3>1. p.dir = pc[u].dir
      BY <1>3, <1>4, <2>2, <2>3, <2>4, <2>5
    <3>2. p.dir \in Held(p) /\ p.dir \in Nodes
      BY <1>1, <1>3, <2>5, Distinct DEF Held
    <3>3. lock[p.dir] = t /\ lock[p.dir] = u
      BY <2>1, <3>1, <3>2 DEF Inv, LockOK, p
    <3> QED
      BY <3>3
  <2>6. CASE p.name = DotDot
    <3>1. PICK m \in Names : tree[b][m] = p.dir
      BY <1>4, <2>4, <2>6
    <3>2. p.dir # None /\ b \in Dirs
      BY <1>3, <1>4, <2>4, <2>6, Distinct
    <3> QED
      BY <2>2, <2>3, <3>1, <3>2
  <2> QED
    BY <1>3, <2>5, <2>6
<1>9. CacheOK' /\ AttrOK' /\ ops' \in 0..MaxOps
  BY <1>2, DataLess DEF Inv
<1>10. /\ q.dir \in known \cup {None} /\ q.from.dir \in known \cup {None}
       /\ q.from.node \in known \cup {None} /\ q.node \notin fresh
  BY <1>1, <1>4, <1>5 DEF SeenBy
<1> QED
  BY <1>2, <1>5, <1>6, <1>7, <1>8, <1>9, <1>10, Quiet

\* A thread that goes home.
LEMMA HomeAgain ==
  ASSUME Inv, NEW t \in Threads, Moves(t, Idle), UNCHANGED <<known, tree, fresh, panicked, ops>>,
         cache' \subseteq cache, AttrOK'
  PROVE  Inv'
<1>1. CacheOK' /\ ops' \in 0..MaxOps
  BY DataLess DEF Inv
<1> QED
  BY <1>1, Home DEF Inv

\* Only the place changes, and the thread keeps its locks and references.
LEMMA Steady ==
  ASSUME Inv, NEW t \in Threads, NEW q \in Places, PlaceOK(q), pc' = [pc EXCEPT ![t] = q],
         UNCHANGED <<lock, use, known, tree, fresh, panicked, ops>>,
         ~IsNew(pc[t]), ~IsNew(q), pc[t].at # "found" \/ pc[t].node = None, q.at # "found",
         q.dir = pc[t].dir, q.node = pc[t].node, q.from = pc[t].from, Held(q) = Held(pc[t]),
         cache' \subseteq cache, AttrOK'
  PROVE  Moves(t, q) /\ Inv'
<1>1. \A n \in Nodes : Num(q, n) = Num(pc[t], n)
  BY RefIs DEF Num
<1>2. Moves(t, q)
  BY <1>1, Stays
<1>3. SeenBy(pc[t])
  BY DEF Inv, SeenOK
<1>4. q.node \in known \cup {None}
  BY <1>3 DEF SeenBy
<1>5. CacheOK' /\ ops' \in 0..MaxOps
  BY DataLess DEF Inv
<1> QED
  BY <1>2, <1>3, <1>4, <1>5, Onward DEF SeenBy

LEMMA StartLinkInv == ASSUME Inv, Calm, NEW t \in Threads, StartLink(t) PROVE Inv'
<1>1. pc[t] \in Places /\ PlaceOK(pc[t]) /\ pc[t].at = "idle"
  BY DEF Inv, ThreadsOK, StartLink, At
<1>2. PICK s \in known \cap (Files \cup {Ctl}) :
       /\ s = Ctl => "control" \in Env
       /\ use' = [use EXCEPT ![s] = @ + 1]
       /\ Go(t, [Idle EXCEPT !.op = "link", !.from = [Source EXCEPT !.node = s]], "second")
  BY DEF StartLink
<1>3. UNCHANGED <<lock, cache, attr, known, tree, fresh, panicked>> /\ ops' \in 0..MaxOps
  BY NamesAssumption DEF StartLink, Inv
<1>4. s \in Files /\ s \in Nodes /\ None \notin Nodes
  BY <1>2, Distinct DEF Calm
<1> DEFINE q == [[Idle EXCEPT !.op = "link", !.from = [Source EXCEPT !.node = s]] EXCEPT !.at = "second"]
<1>5. /\ q \in Places /\ pc' = [pc EXCEPT ![t] = q]
      /\ q.at = "second" /\ q.op = "link" /\ q.dir = None /\ q.name = None /\ q.node = None
      /\ q.from.dir = None /\ q.from.node = s
  BY <1>2, <1>4 DEF Go, Idle, Source, Places, Operations
<1> HIDE DEF q
<1>6. PlaceOK(q) /\ ~IsNew(q)
  BY <1>4, <1>5 DEF PlaceOK, OpOK, NameOK, NodeOK, FromOK, IsNew
<1>7. Held(q) = {} /\ Held(pc[t]) = {}
  BY <1>1, <1>4, <1>5 DEF Held
<1>8. ASSUME NEW n \in Nodes PROVE use'[n] = use[n] - Num(pc[t], n) + Num(q, n)
  <2>1. use[n] \in Nat /\ use'[n] = use[n] + Is(s, n) /\ Is(s, n) \in Nat /\ Is(None, n) = 0
    BY <1>2, <1>4 DEF Inv, UseOK, Is
  <2>2. Num(q, n) = Is(None, n) + Is(None, n) + Is(None, n) + Is(s, n)
    BY <1>5, <1>6, RefIs DEF Num
  <2>3. /\ pc[t].dir = None /\ pc[t].node = None /\ pc[t].from = Source
        /\ pc[t].at # "found" /\ ~IsNew(pc[t])
    BY <1>1 DEF PlaceOK, OpOK, NameOK, FromOK, IsNew
  <2>4. Num(pc[t], n) = Is(None, n) + Is(None, n) + Is(None, n) + Is(None, n)
    BY <2>3, RefIs, IdlePlace DEF Num
  <2> QED
    BY <2>1, <2>2, <2>4
<1>9. Moves(t, q)
  <2>1. use' \in [Nodes -> Int] /\ lock' \in [Nodes -> Threads \cup {None}]
    BY <1>2, <1>3, <1>4 DEF Inv, UseOK, LockOK
  <2>2. \A n \in Nodes : lock'[n] = t <=> n \in Held(q)
    BY <1>3, <1>7 DEF Inv, LockOK
  <2> QED
    BY <1>3, <1>5, <1>6, <1>8, <2>1, <2>2 DEF Moves
<1>10. CacheOK' /\ AttrOK'
  BY <1>3, DataLess
<1> QED
  BY <1>2, <1>3, <1>5, <1>6, <1>9, <1>10, Onward

LEMMA LookupFailsInv == ASSUME Inv, NEW t \in Threads, LookupFails(t) PROVE Inv'
<1> DEFINE p == pc[t]
<1>1. p \in Places /\ PlaceOK(p) /\ p.at = "lookup" /\ p.node = None
  BY DEF Inv, ThreadsOK, LookupFails, At, PlaceOK, NodeOK
<1>2. UNCHANGED <<cache, attr, known, tree, fresh, panicked, ops>> /\ AttrOK'
  BY DEF LookupFails, Inv, AttrOK
<1>3. CASE p.name = DotDot /\ Go(t, [p EXCEPT !.op = "up"], "relock") /\ UNCHANGED <<lock, use>>
  <2> DEFINE q == [[p EXCEPT !.op = "up"] EXCEPT !.at = "relock"]
  <2>1. /\ q \in Places /\ pc' = [pc EXCEPT ![t] = q]
        /\ q.at = "relock" /\ q.op = "up" /\ q.dir = p.dir /\ q.name = p.name /\ q.node = p.node
        /\ q.from = p.from
    BY <1>1, <1>3 DEF Go, Places, Operations
  <2> HIDE DEF p, q
  <2>2. PlaceOK(q) /\ ~IsNew(q)
    <3>1. p.op \in {"up", "mkdirup"} /\ p.dir \in Dirs
      BY <1>1, <1>3 DEF PlaceOK, NameOK
    <3> QED
      BY <1>1, <1>3, <2>1, <3>1, Distinct DEF PlaceOK, OpOK, NameOK, NodeOK, FromOK, IsNew
  <2>3. Held(q) = Held(p)
    BY <1>1, <1>3, <2>1, Distinct DEF Held
  <2> QED
    BY <1>1, <1>2, <1>3, <2>1, <2>2, <2>3, Steady DEF IsNew, p
<1>4. CASE GiveBack(t, <<p.dir>>, <<p.from.dir, p.from.node>>)
  <2>1. Ref(p, "node") = None
    BY <1>1, RefIs DEF IsNew
  <2>2. Moves(t, Idle)
    BY <1>4, <2>1, GivesOf
  <2> QED
    BY <1>2, <2>2, HomeAgain
<1> QED
  BY <1>3, <1>4 DEF LookupFails

\* An operation asks Venus: it keeps the directory and the node it has found.
LEMMA AskInv ==
  ASSUME Inv, NEW t \in Threads, At(t, "has"), pc[t].op \in Asking, Ask(t, pc[t]),
         pc[t].op \in {"remove", "rmdir", "rename"} \/ pc[t].node = None, pc[t].name # CtlName,
         UNCHANGED <<lock, use, known, tree, fresh, panicked, ops>>, cache' \subseteq cache, AttrOK'
  PROVE  Inv'
<1> DEFINE p == pc[t]
           q == [p EXCEPT !.at = "asked"]
<1>1. p \in Places /\ PlaceOK(p) /\ p.at = "has"
  BY DEF Inv, ThreadsOK, At
<1>2. /\ q \in Places /\ pc' = [pc EXCEPT ![t] = q]
      /\ q.at = "asked" /\ q.op = p.op /\ q.dir = p.dir /\ q.name = p.name /\ q.node = p.node
      /\ q.from = p.from
  BY <1>1 DEF Ask, Go, Places
<1>3. /\ p.op \in Asking /\ (p.op \in {"remove", "rmdir", "rename"} \/ p.node = None)
      /\ p.name # CtlName
  OBVIOUS
<1> HIDE DEF p, q
<1>4. PlaceOK(q) /\ ~IsNew(q) /\ ~IsNew(p)
  BY <1>1, <1>2, <1>3 DEF PlaceOK, OpOK, NameOK, NodeOK, FromOK, IsNew, Asking
<1>5. Held(q) = Held(p)
  BY <1>1, <1>2, <1>3, <1>4 DEF Held, Holds, Wanting, Asking
<1> QED
  BY <1>1, <1>2, <1>4, <1>5, Steady DEF p
\* coda_nc_enter.
LEMMA EnteredOK ==
  ASSUME NEW C, IsFiniteSet(C), Cardinality(C) <= CacheSize, NEW e, NEW D \in Entered(C, e)
  PROVE  D \subseteq C \cup {e} /\ IsFiniteSet(D) /\ Cardinality(D) <= CacheSize
<1>1. Cardinality(C) \in Nat /\ CacheSize \in Nat
  BY FS_CardinalityType, NamesAssumption
<1>2. CASE D = C
  BY <1>2
<1>3. CASE Cardinality(C) < CacheSize /\ D = C \cup {e}
  <2>1. /\ IsFiniteSet(D) /\ D = C \cup {e}
        /\ Cardinality(D) = IF e \in C THEN Cardinality(C) ELSE Cardinality(C) + 1
    BY <1>3, FS_AddElement
  <2> QED
    BY <1>1, <1>3, <2>1
<1>4. CASE \E x \in C : D = (C \ {x}) \cup {e}
  <2>1. PICK x \in C : D = (C \ {x}) \cup {e}
    BY <1>4
  <2>2. IsFiniteSet(C \ {x}) /\ Cardinality(C \ {x}) = Cardinality(C) - 1
    BY <2>1, FS_RemoveElement
  <2>3. /\ IsFiniteSet(D) /\ Cardinality(D) \in Nat
        /\ Cardinality(D) = IF e \in C \ {x} THEN Cardinality(C \ {x}) ELSE Cardinality(C \ {x}) + 1
    BY <2>1, <2>2, FS_AddElement, FS_CardinalityType
  <2> QED
    BY <1>1, <2>1, <2>2, <2>3
<1> QED
  BY <1>2, <1>3, <1>4 DEF Entered

LEMMA FoundReaches ==
  ASSUME Inv, NEW t \in Threads, Found(t)
  PROVE  \E q \in Places : Moves(t, q) /\ Reached(pc[t], q, pc[t].node) /\ ~IsNew(q)
<1> DEFINE p == pc[t]
<1>1. p \in Places /\ PlaceOK(p) /\ p.at = "found" /\ p.node # None /\ Reach(t, p, lock, use, p.node)
  BY DEF Inv, ThreadsOK, Found, At
<1>2. /\ p.dir \in Dirs /\ p.node \in Nodes /\ p.node # p.dir /\ p.name \in Names \cup {DotDot}
      /\ p.name # CtlName /\ (p.name = DotDot <=> p.op \in {"up", "mkdirup"})
      /\ p.name = DotDot => p.node \in Dirs
  BY <1>1, PlaceFields, Distinct DEF PlaceOK, NameOK, NodeOK
<1>3. /\ lock \in [Nodes -> Threads \cup {None}]
      /\ \A n \in Nodes : lock[n] = t <=> n = p.dir /\ p.name # DotDot
  <2>1. \A n \in Nodes : n \in Held(p) <=> n = p.dir /\ p.name # DotDot
    BY <1>1 DEF Held
  <2> QED
    BY <2>1 DEF Inv, LockOK
<1> HIDE DEF p
<1>4. PICK q \in Places :
         /\ pc' = [pc EXCEPT ![t] = q] /\ Reached(p, q, p.node)
         /\ lock' \in [Nodes -> Threads \cup {None}]
         /\ \A n \in Nodes : lock'[n] = t <=> n \in Held(q)
         /\ \A n \in Nodes, u \in Threads \ {t} : lock'[n] = u <=> lock[n] = u
         /\ use' = [use EXCEPT ![p.node] = @ + 1]
  BY <1>1, <1>2, <1>3, ReachGets
<1>5. Brings(p.op, p.dir, p.name, p.from) /\ p.op \in Operations
  <2>1. p.op # "none" /\ p.op \in Operations \cup {"none"}
    BY <1>1, PlaceFields DEF PlaceOK, OpOK
  <2> QED
    BY <1>1, <1>2, <2>1 DEF PlaceOK, FromOK, Brings
<1>6. PlaceOK(q) /\ ~IsNew(q)
  BY <1>2, <1>4, <1>5, ReachedOK
<1>7. q.at # "found" /\ q.node = p.node /\ q.dir = p.dir /\ q.from = p.from
  BY <1>4 DEF Reached
<1>8. ASSUME NEW n \in Nodes PROVE use'[n] = use[n] - Num(p, n) + Num(q, n)
  <2>1. Num(q, n) = Is(p.dir, n) + Is(p.node, n) + Is(p.from.dir, n) + Is(p.from.node, n)
    BY <1>6, <1>7, RefIs DEF Num
  <2>2. Num(p, n) = Is(p.dir, n) + Is(None, n) + Is(p.from.dir, n) + Is(p.from.node, n) /\ Is(None, n) = 0
    BY <1>1, RefIs, Distinct DEF Num, Is
  <2>3. /\ Is(p.dir, n) \in Nat /\ Is(p.node, n) \in Nat /\ Is(p.from.dir, n) \in Nat
        /\ Is(p.from.node, n) \in Nat /\ use[n] \in Nat /\ use'[n] = use[n] + Is(p.node, n)
    BY <1>2, <1>4 DEF Is, Inv, UseOK
  <2> QED
    BY <2>1, <2>2, <2>3
<1>9. use' \in [Nodes -> Int]
  BY <1>2, <1>4 DEF Inv, UseOK
<1> QED
  BY <1>4, <1>6, <1>8, <1>9 DEF Moves, p

LEMMA FoundInv == ASSUME Inv, NEW t \in Threads, Found(t) PROVE Inv'
<1>1. PICK q \in Places : Moves(t, q) /\ Reached(pc[t], q, pc[t].node) /\ ~IsNew(q)
  BY FoundReaches
<1>2. /\ pc[t] \in Places /\ PlaceOK(pc[t]) /\ pc[t].at = "found" /\ pc[t].node # None
      /\ known' = known \cup {pc[t].node}
      /\ cache' \in Entered(cache, Entry(pc[t].dir, pc[t].name, pc[t].node))
      /\ UNCHANGED <<attr, tree, fresh, panicked, ops>>
  BY DEF Inv, ThreadsOK, Found, At
<1>3. q.node = pc[t].node /\ q.dir = pc[t].dir /\ q.from = pc[t].from
  BY <1>1 DEF Reached
<1>4. CacheOK'
  <2> DEFINE e == Entry(pc[t].dir, pc[t].name, pc[t].node)
  <2>1. cache' \subseteq cache \cup {e} /\ IsFiniteSet(cache') /\ Cardinality(cache') <= CacheSize
    BY <1>2, EnteredOK DEF Inv, CacheOK
  <2>2. /\ pc[t].dir \in Dirs /\ pc[t].node \in Nodes /\ pc[t].node # pc[t].dir
        /\ pc[t].name \in Names \cup {DotDot} /\ (pc[t].name = DotDot => pc[t].node \in Dirs)
        /\ pc[t].dir \in known
    BY <1>2, PlaceFields, Distinct DEF PlaceOK, NameOK, NodeOK, Inv, SeenOK, SeenBy
  <2>3. /\ e \in [dir : Dirs, name : Names \cup {Dot, DotDot}, node : Nodes]
        /\ e.dir = pc[t].dir /\ e.name = pc[t].name /\ e.node = pc[t].node
    BY <2>2 DEF Entry
  <2> HIDE DEF e
  <2>4. \A x \in cache : x \in [dir : Dirs, name : Names \cup {Dot, DotDot}, node : Nodes]
          /\ x.dir \in known /\ x.node \in known
          /\ (x.name # Dot => x.node # x.dir) /\ (x.name = DotDot => x.node \in Dirs)
    BY DEF Inv, CacheOK
  <2>5. \A x \in cache' : x \in [dir : Dirs, name : Names \cup {Dot, DotDot}, node : Nodes]
          /\ x.dir \in known' /\ x.node \in known'
          /\ (x.name # Dot => x.node # x.dir) /\ (x.name = DotDot => x.node \in Dirs)
    BY <1>2, <2>1, <2>2, <2>3, <2>4
  <2> QED
    BY <2>1, <2>5 DEF CacheOK
<1>5. AttrOK' /\ ops' \in 0..MaxOps
  BY <1>2, DataLess DEF Inv
<1>6. /\ pc[t].dir \in known \cup {None} /\ pc[t].from.dir \in known \cup {None}
      /\ pc[t].from.node \in known \cup {None}
  BY DEF Inv, SeenOK, SeenBy
<1> QED
  BY <1>1, <1>2, <1>3, <1>4, <1>5, <1>6, Onward

LEMMA NotFoundInv == ASSUME Inv, NEW t \in Threads, NotFound(t) PROVE Inv'
<1> DEFINE p == pc[t]
<1>1. p \in Places /\ PlaceOK(p) /\ p.at = "found" /\ p.node = None
  BY DEF Inv, ThreadsOK, NotFound, At
<1>2. UNCHANGED <<cache, attr, known, tree, fresh, panicked, ops>> /\ AttrOK'
  BY DEF NotFound, Inv, AttrOK
<1>3. /\ p.dir \in Dirs /\ p.name \in Names \cup {DotDot} /\ p.name # CtlName
      /\ p.name = DotDot <=> p.op \in {"up", "mkdirup"}
  BY <1>1, Distinct DEF PlaceOK, NameOK
<1>4. CASE p.name = DotDot /\ Go(t, p, "relock") /\ UNCHANGED <<lock, use>>
  <2> DEFINE q == [p EXCEPT !.at = "relock"]
  <2>1. /\ q \in Places /\ pc' = [pc EXCEPT ![t] = q]
        /\ q.at = "relock" /\ q.op = p.op /\ q.dir = p.dir /\ q.name = p.name /\ q.node = p.node
        /\ q.from = p.from
    BY <1>1, <1>4 DEF Go, Places
  <2> HIDE DEF p, q
  <2>2. PlaceOK(q) /\ ~IsNew(q)
    BY <1>1, <1>3, <1>4, <2>1, Distinct DEF PlaceOK, OpOK, NameOK, NodeOK, FromOK, IsNew
  <2>3. Held(q) = Held(p)
    BY <1>1, <1>3, <1>4, <2>1, Distinct DEF Held
  <2> QED
    BY <1>1, <1>2, <1>4, <2>1, <2>2, <2>3, Steady DEF IsNew, p
<1>5. CASE /\ p.op \in {"create", "mkdir", "symlink", "symlinked", "link", "rename"}
           /\ Go(t, p, "has") /\ UNCHANGED <<lock, use>>
  <2> DEFINE q == [p EXCEPT !.at = "has"]
  <2>1. /\ q \in Places /\ pc' = [pc EXCEPT ![t] = q]
        /\ q.at = "has" /\ q.op = p.op /\ q.dir = p.dir /\ q.name = p.name /\ q.node = p.node
        /\ q.from = p.from
    BY <1>1, <1>5 DEF Go, Places
  <2> HIDE DEF p, q
  <2>2. PlaceOK(q) /\ ~IsNew(q)
    BY <1>1, <1>3, <1>5, <2>1, Distinct DEF PlaceOK, OpOK, NameOK, NodeOK, FromOK, IsNew
  <2>3. Held(q) = Held(p)
    BY <1>1, <1>3, <1>5, <2>1, <2>2, Distinct DEF Held, Holds, Wanting
  <2> QED
    BY <1>1, <1>2, <1>5, <2>1, <2>2, <2>3, Steady DEF IsNew, p
<1>6. CASE p.op \in {"walk", "remove", "rmdir", "from"} /\ GiveBack(t, <<p.dir>>, <<>>)
  <2>1. Ref(p, "node") = None
    BY <1>1, RefIs
  <2>2. p.from = Source
    BY <1>1, <1>6 DEF PlaceOK, FromOK
  <2>3. Moves(t, Idle)
    BY <1>6, <2>1, <2>2, GivesOf
  <2> QED
    BY <1>2, <2>3, HomeAgain
<1> QED
  BY <1>4, <1>5, <1>6 DEF NotFound
\* Only the place and the locks change.
LEMMA Takes ==
  ASSUME Inv, NEW t \in Threads, NEW q \in Places, PlaceOK(q), pc' = [pc EXCEPT ![t] = q],
         UNCHANGED <<use, cache, attr, known, tree, fresh, panicked, ops>>,
         ~IsNew(pc[t]), ~IsNew(q), pc[t].at # "found", q.at # "found",
         q.dir = pc[t].dir, q.node = pc[t].node, q.from = pc[t].from,
         lock' \in [Nodes -> Threads \cup {None}],
         \A n \in Nodes : lock'[n] = t <=> n \in Held(q),
         \A n \in Nodes, u \in Threads \ {t} : lock'[n] = u <=> lock[n] = u
  PROVE  Moves(t, q) /\ Inv'
<1>1. \A n \in Nodes : Num(q, n) = Num(pc[t], n)
  BY RefIs DEF Num
<1>2. \A n \in Nodes : use'[n] = use[n] - Num(pc[t], n) + Num(q, n)
  <2> TAKE n \in Nodes
  <2>1. use[n] \in Nat /\ Num(q, n) \in Nat /\ use'[n] = use[n] /\ Num(q, n) = Num(pc[t], n)
    BY <1>1, NumType DEF Inv, UseOK
  <2> QED
    BY <2>1
<1>3. use' \in [Nodes -> Int]
  BY DEF Inv, UseOK
<1>4. Moves(t, q)
  BY <1>2, <1>3 DEF Moves
<1>5. SeenBy(pc[t])
  BY DEF Inv, SeenOK
<1>6. CacheOK' /\ AttrOK' /\ ops' \in 0..MaxOps
  BY DataLess DEF Inv
<1> QED
  BY <1>4, <1>5, <1>6, Onward DEF SeenBy

\* vn_lock got the lock of the node p waited for.
LEMMA ChildLocked ==
  ASSUME Inv, NEW t \in Threads, Locked(t), At(t, "child")
  PROVE  Inv' /\ \E q \in Places : Moves(t, q) /\ Reached(pc[t], q, pc[t].node) /\ q.at # "child"
<1> DEFINE p == pc[t]
           L == IF p.node = Ctl THEN Left(p, lock) ELSE lock
           s == IF p.op = "mkdirup" THEN "relock" ELSE "has"
           q == [p EXCEPT !.at = s]
<1>1. p \in Places /\ PlaceOK(p) /\ p.at = "child"
  BY DEF Inv, ThreadsOK, At
<1>2. /\ p.node \in Nodes /\ lock[p.node] = None /\ GotChild(t, p, L)
      /\ UNCHANGED <<use, cache, attr, known, tree, fresh, panicked, ops>>
  BY <1>1 DEF Locked, At, PlaceOK, NodeOK
<1>3. /\ q \in Places /\ pc' = [pc EXCEPT ![t] = q] /\ lock' = [L EXCEPT ![p.node] = t]
      /\ q.at = s /\ q.op = p.op /\ q.dir = p.dir /\ q.name = p.name /\ q.node = p.node
      /\ q.from = p.from
  BY <1>1, <1>2 DEF GotChild, Go, Places
<1>4. /\ p.dir \in Dirs /\ p.node # p.dir
      /\ p.name = DotDot <=> p.op \in {"up", "mkdirup"}
  BY <1>1, <1>2, Distinct DEF PlaceOK, NameOK, NodeOK
<1>5. /\ L \in [Nodes -> Threads \cup {None}]
      /\ \A n \in Nodes : L[n] = t <=> n = p.dir /\ p.name # DotDot /\ Holds(p)
      /\ \A n \in Nodes, u \in Threads \ {t} : L[n] = u <=> lock[n] = u
  <2>1. \A n \in Nodes : lock[n] = t <=> n = p.dir /\ p.name # DotDot /\ (Holds(p) \/ p.node = Ctl)
    BY <1>1 DEF Held, Inv, LockOK
  <2>2. lock \in [Nodes -> Threads \cup {None}]
    BY DEF Inv, LockOK
  <2> QED
    BY <2>1, <2>2, Distinct DEF Left
<1>6. s \in {"relock", "has"} /\ (s = "relock" <=> p.op = "mkdirup")
  OBVIOUS
<1> HIDE DEF p, q, L, s
<1>7. PlaceOK(q) /\ ~IsNew(q) /\ ~IsNew(p)
  BY <1>1, <1>2, <1>3, <1>4, <1>6, Distinct DEF PlaceOK, OpOK, NameOK, NodeOK, FromOK, IsNew
<1>8. \A n \in Nodes : n \in Held(q) <=> n = p.node \/ (n = p.dir /\ p.name # DotDot /\ Holds(p))
  BY <1>3, <1>4, <1>6, <1>7 DEF Held, Holds, Wanting
<1>9. /\ lock' \in [Nodes -> Threads \cup {None}]
      /\ \A n \in Nodes : lock'[n] = t <=> n \in Held(q)
      /\ \A n \in Nodes, u \in Threads \ {t} : lock'[n] = u <=> lock[n] = u
  <2>1. \A u \in Threads \ {t} : L[p.node] # u
    BY <1>2, <1>5, Distinct
  <2> QED
    BY <1>2, <1>3, <1>5, <1>8, <2>1
<1>10. q.at # "found" /\ p.at # "found" /\ q.at # "child"
  BY <1>1, <1>3, <1>6
<1>11. Moves(t, q) /\ Inv'
  BY <1>2, <1>3, <1>7, <1>9, <1>10, Takes DEF p
<1>12. Reached(p, q, p.node)
  BY <1>3, <1>6 DEF Reached
<1> QED
  BY <1>3, <1>10, <1>11, <1>12 DEF p

\* vn_lock got the lock of the directory of a "..".
LEMMA DirLocked ==
  ASSUME Inv, NEW t \in Threads, Locked(t), At(t, "relock")
  PROVE  /\ Inv'
         /\ \E q \in Places : /\ Moves(t, q)
                              /\ \/ q = Idle
                                 \/ /\ q.op = "mkdirup" /\ q.at = "has"
                                    /\ q.dir = pc[t].dir /\ q.name = pc[t].name /\ q.node = pc[t].node
<1> DEFINE p == pc[t]
           q == [p EXCEPT !.at = "has"]
<1>1. p \in Places /\ PlaceOK(p) /\ p.at = "relock"
  BY DEF Inv, ThreadsOK, At
<1>2. /\ lock[p.dir] = None /\ UNCHANGED <<cache, attr, known, tree, fresh, panicked, ops>>
      /\ p.dir \in Dirs /\ p.op \in {"up", "mkdirup"} /\ p.name = DotDot
      /\ p.op = "up" => p.node = None
      /\ p.from = Source /\ p.node # p.dir /\ ~IsNew(p)
  BY <1>1, Distinct DEF Locked, At, PlaceOK, OpOK, NameOK, NodeOK, FromOK, IsNew
<1>3. CASE lock' = [lock EXCEPT ![p.dir] = t] /\ Go(t, p, "has") /\ UNCHANGED use /\ p.op = "mkdirup"
  <2>1. /\ q \in Places /\ pc' = [pc EXCEPT ![t] = q]
        /\ q.at = "has" /\ q.op = p.op /\ q.dir = p.dir /\ q.name = p.name /\ q.node = p.node
        /\ q.from = p.from
    BY <1>1, <1>3 DEF Go, Places
  <2> HIDE DEF p, q
  <2>2. PlaceOK(q) /\ ~IsNew(q)
    BY <1>1, <1>2, <1>3, <2>1, Distinct DEF PlaceOK, OpOK, NameOK, NodeOK, FromOK, IsNew
  <2>3. \A n \in Nodes : n \in Held(q) <=> n = p.node \/ n = p.dir
    BY <1>2, <1>3, <2>1, <2>2 DEF Held, Holds, Wanting
  <2>4. \A n \in Nodes : lock[n] = t <=> n = p.node
    BY <1>1, <1>2 DEF Held, Inv, LockOK, p
  <2>5. /\ lock' \in [Nodes -> Threads \cup {None}]
        /\ \A n \in Nodes : lock'[n] = t <=> n \in Held(q)
        /\ \A n \in Nodes, u \in Threads \ {t} : lock'[n] = u <=> lock[n] = u
    BY <1>2, <1>3, <2>3, <2>4, Distinct DEF Inv, LockOK
  <2>6. q.at # "found" /\ p.at # "found"
    BY <1>1, <2>1
  <2>7. Moves(t, q) /\ Inv'
    BY <1>2, <1>3, <2>1, <2>2, <2>5, <2>6, Takes DEF p
  <2> QED
    BY <1>3, <2>1, <2>7 DEF p
<1>4. CASE GiveBack(t, <<p.dir>>, <<>>) /\ p.node = None
  <2>1. Ref(p, "node") = None
    BY <1>1, <1>2, <1>4, RefIs
  <2>2. Moves(t, Idle)
    BY <1>2, <1>4, <2>1, GivesOf
  <2>3. AttrOK'
    BY <1>2 DEF Inv, AttrOK
  <2> QED
    BY <1>2, <2>2, <2>3, HomeAgain, IdlePlace
<1>5. \/ /\ lock' = [lock EXCEPT ![p.dir] = t] /\ Go(t, p, "has") /\ UNCHANGED use
         /\ p.node # None \/ p.op = "mkdirup"
      \/ GiveBack(t, <<p.dir>>, <<>>) /\ p.node = None
  BY <1>1 DEF Locked, At
<1> QED
  BY <1>2, <1>3, <1>4, <1>5

LEMMA LockedInv == ASSUME Inv, NEW t \in Threads, Locked(t) PROVE Inv'
BY ChildLocked, DirLocked DEF Locked

LEMMA ReturnInv == ASSUME Inv, NEW t \in Threads, Return(t) PROVE Inv'
<1>1. /\ pc[t].at # "found" /\ ~IsNew(pc[t])
      /\ UNCHANGED <<cache, attr, known, tree, fresh, panicked, ops>> /\ AttrOK'
      /\ GiveBack(t, <<pc[t].dir, pc[t].node>>, <<pc[t].from.dir, pc[t].from.node>>)
  BY DEF Return, At, IsNew, Inv, AttrOK
<1>2. Moves(t, Idle)
  BY <1>1, GivesOf
<1> QED
  BY <1>1, <1>2, HomeAgain

LEMMA WalkedInv == ASSUME Inv, NEW t \in Threads, Walked(t) PROVE Inv'
<1> DEFINE p == pc[t]
           q == [p EXCEPT !.at = "hold"]
<1>1. p \in Places /\ PlaceOK(p) /\ p.at = "has" /\ p.op \in {"walk", "up"}
  BY DEF Inv, ThreadsOK, At, Walked
<1>2. UNCHANGED <<lock, use, cache, attr, known, tree, fresh, panicked, ops>> /\ AttrOK'
  BY DEF Walked, Inv, AttrOK
<1>3. /\ q \in Places /\ pc' = [pc EXCEPT ![t] = q]
      /\ q.at = "hold" /\ q.op = p.op /\ q.dir = p.dir /\ q.name = p.name /\ q.node = p.node
      /\ q.from = p.from
  BY <1>1 DEF Walked, Go, Places
<1> HIDE DEF p, q
<1>4. PlaceOK(q) /\ ~IsNew(q) /\ ~IsNew(p)
  BY <1>1, <1>3 DEF PlaceOK, OpOK, NameOK, NodeOK, FromOK, IsNew
<1>5. Held(q) = Held(p)
  BY <1>1, <1>3, <1>4 DEF Held, Holds, Wanting
<1> QED
  BY <1>1, <1>2, <1>3, <1>4, <1>5, Steady DEF p

LEMMA ReleaseInv == ASSUME Inv, NEW t \in Threads, Release(t) PROVE Inv'
<1>1. /\ pc[t].at = "hold" /\ pc[t].from = Source
      /\ UNCHANGED <<cache, attr, known, tree, fresh, panicked, ops>> /\ AttrOK'
      /\ GiveBack(t, <<pc[t].node>>, <<pc[t].dir>>)
  BY DEF Release, At, Inv, AttrOK, ThreadsOK, PlaceOK, OpOK, FromOK
<1>2. Moves(t, Idle)
  BY <1>1, GivesOf
<1> QED
  BY <1>1, <1>2, HomeAgain

LEMMA SourceFoundInv == ASSUME Inv, NEW t \in Threads, SourceFound(t) PROVE Inv'
<1> DEFINE p == pc[t]
           src == [dir |-> p.dir, name |-> p.name, node |-> p.node]
           q == [[Idle EXCEPT !.op = "rename", !.from = src] EXCEPT !.at = "second"]
<1>1. p \in Places /\ PlaceOK(p) /\ SeenBy(p) /\ p.at = "has" /\ p.op = "from"
  BY DEF Inv, ThreadsOK, SeenOK, At, SourceFound
<1>2. /\ UNCHANGED <<use, cache, attr, known, tree, fresh, panicked, ops>> /\ AttrOK'
      /\ lock' = Unlocked(lock, t, <<p.node>>)
  BY DEF SourceFound, Inv, AttrOK
<1>3. /\ p.dir \in Dirs /\ p.name \in Names /\ p.node \in Nodes /\ p.from = Source
      /\ p.name \in AllNames
  BY <1>1 DEF PlaceOK, NameOK, NodeOK, FromOK, AllNames
<1>4. /\ q \in Places /\ pc' = [pc EXCEPT ![t] = q]
      /\ q.at = "second" /\ q.op = "rename" /\ q.dir = None /\ q.name = None /\ q.node = None
      /\ q.from.dir = p.dir /\ q.from.name = p.name /\ q.from.node = p.node
  BY <1>3 DEF SourceFound, Go, Idle, Places, Operations
<1> HIDE DEF p, q
<1>5. PlaceOK(q) /\ ~IsNew(q) /\ ~IsNew(p)
  BY <1>1, <1>3, <1>4 DEF PlaceOK, OpOK, NameOK, NodeOK, FromOK, IsNew
<1>6. Held(q) = {} /\ Held(p) = {p.node}
  BY <1>1, <1>3, <1>4, <1>5, Distinct DEF Held, Holds, Wanting
<1>7. ASSUME NEW n \in Nodes PROVE use'[n] = use[n] - Num(p, n) + Num(q, n)
  <2>1. Num(p, n) = Is(p.dir, n) + Is(p.node, n) + Is(None, n) + Is(None, n)
    BY <1>1, <1>3, <1>5, RefIs, IdlePlace DEF Num
  <2>2. Num(q, n) = Is(None, n) + Is(None, n) + Is(p.dir, n) + Is(p.node, n)
    BY <1>4, <1>5, RefIs DEF Num
  <2>3. Is(p.dir, n) \in Nat /\ Is(p.node, n) \in Nat /\ Is(None, n) \in Nat /\ use[n] \in Nat
    BY DEF Is, Inv, UseOK
  <2> QED
    BY <1>2, <2>1, <2>2, <2>3
<1>8. /\ lock' \in [Nodes -> Threads \cup {None}]
      /\ \A n \in Nodes : lock'[n] = t <=> n \in Held(q)
      /\ \A n \in Nodes, u \in Threads \ {t} : lock'[n] = u <=> lock[n] = u
  <2>1. lock \in [Nodes -> Threads \cup {None}] /\ \A n \in Nodes : lock[n] = t <=> n = p.node
    BY <1>6 DEF Inv, LockOK, p
  <2>2. \A n \in Nodes : lock'[n] = IF lock[n] = t /\ Times(<<p.node>>, n) > 0 THEN None ELSE lock[n]
    BY <1>2 DEF Unlocked
  <2>3. Times(<<p.node>>, p.node) > 0
    BY Times1 DEF Is
  <2>4. lock' \in [Nodes -> Threads \cup {None}]
    BY <1>2, <2>1 DEF Unlocked
  <2> QED
    BY <1>6, <2>1, <2>2, <2>3, <2>4, Distinct
<1>9. use' \in [Nodes -> Int]
  BY <1>2 DEF Inv, UseOK
<1>10. Moves(t, q)
  BY <1>4, <1>5, <1>7, <1>8, <1>9 DEF Moves, p
<1>11. CacheOK' /\ ops' \in 0..MaxOps
  BY <1>2, DataLess DEF Inv
<1>12. /\ q.dir = None /\ q.node = None /\ q.from.dir \in known \cup {None}
       /\ q.from.node \in known \cup {None}
  BY <1>1, <1>4, <1>5 DEF SeenBy
<1> QED
  BY <1>2, <1>5, <1>10, <1>11, <1>12, Onward
LEMMA HasPlace ==
  ASSUME Inv, NEW t \in Threads, At(t, "has")
  PROVE  /\ PlaceOK(pc[t]) /\ pc[t] \in Places /\ pc[t].at = "has" /\ ~IsNew(pc[t])
         /\ pc[t].dir \in Dirs
         /\ pc[t].name = CtlName => pc[t].node = Ctl
         /\ pc[t].op \notin {"link", "rename"} => pc[t].from = Source
BY DEF Inv, ThreadsOK, At, PlaceOK, NameOK, FromOK, IsNew

LEMMA coda_createInv == ASSUME Inv, NEW t \in Threads, coda_create(t) PROVE Inv'
<1> DEFINE p == pc[t]
<1>1. /\ At(t, "has") /\ p.op = "create" /\ p.node = None
      /\ UNCHANGED <<cache, attr, known, tree, fresh, panicked, ops>> /\ AttrOK'
  BY DEF coda_create, Inv, AttrOK
<1>2. p.name # CtlName /\ p.from = Source /\ p.at = "has" /\ ~IsNew(p)
  BY <1>1, HasPlace, Distinct
<1>3. CASE GiveBack(t, <<p.dir>>, <<>>)
  <2>1. Ref(p, "node") = None
    BY <1>1, <1>2, RefIs
  <2>2. Moves(t, Idle)
    BY <1>2, <1>3, <2>1, GivesOf
  <2> QED
    BY <1>1, <2>2, HomeAgain
<1>4. CASE Ask(t, p) /\ UNCHANGED <<lock, use>>
  BY <1>1, <1>2, <1>4, AskInv DEF Asking
<1> QED
  BY <1>3, <1>4 DEF coda_create

LEMMA coda_mkdirInv == ASSUME Inv, NEW t \in Threads, coda_mkdir(t) PROVE Inv'
<1>1. /\ At(t, "has") /\ pc[t].op \in {"mkdir", "mkdirup", "symlink"} /\ pc[t].node = None
      /\ Ask(t, pc[t])
      /\ UNCHANGED <<lock, use, cache, attr, known, tree, fresh, panicked, ops>> /\ AttrOK'
  BY DEF coda_mkdir, Inv, AttrOK
<1>2. pc[t].name # CtlName
  BY <1>1, HasPlace, Distinct
<1> QED
  BY <1>1, <1>2, AskInv DEF Asking

LEMMA coda_linkInv == ASSUME Inv, NEW t \in Threads, coda_link(t) PROVE Inv'
<1>1. /\ At(t, "has") /\ pc[t].op = "link" /\ pc[t].node = None
      /\ UNCHANGED <<lock, cache, attr, known, tree, fresh, panicked, ops>> /\ AttrOK'
  BY DEF coda_link, Inv, AttrOK
<1>2. pc[t].name # CtlName /\ pc[t].from.node # Ctl
  BY <1>1, HasPlace, Distinct DEF PlaceOK, FromOK
<1>3. Ask(t, pc[t]) /\ UNCHANGED use
  BY <1>2 DEF coda_link
<1> QED
  BY <1>1, <1>2, <1>3, AskInv DEF Asking

LEMMA coda_removeInv == ASSUME Inv, NEW t \in Threads, coda_remove(t) PROVE Inv'
<1> DEFINE p == pc[t]
           hit == {e.node : e \in Cached(p.dir, p.name)}
<1>1. /\ At(t, "has") /\ p.op = "remove"
      /\ UNCHANGED <<known, tree, fresh, panicked, ops>>
  BY DEF coda_remove
<1>2. p.from = Source /\ p.at = "has" /\ ~IsNew(p)
  BY <1>1, HasPlace
<1>3. ASSUME GiveBack(t, <<p.node, p.dir>>, <<>>), cache' \subseteq cache, AttrOK' PROVE Inv'
  <2>1. Moves(t, Idle)
    BY <1>2, <1>3, GivesOf
  <2> QED
    BY <1>1, <1>3, <2>1, HomeAgain
<1>4. CASE GiveBack(t, <<p.node, p.dir>>, <<>>) /\ UNCHANGED <<cache, attr>>
  <2>1. AttrOK'
    BY <1>1, <1>4 DEF Inv, AttrOK
  <2> QED
    BY <1>3, <1>4, <2>1
<1>5. CASE /\ cache' = Forgets(p.dir, p.name)
           /\ attr' = [OneLinkLess(hit) EXCEPT ![p.dir] = None]
           /\ \/ p.name = CtlName /\ GiveBack(t, <<p.node, p.dir>>, <<>>)
              \/ p.name # CtlName /\ Ask(t, p) /\ UNCHANGED <<lock, use>>
  <2>1. cache' \subseteq cache
    BY <1>5 DEF Forgets
  <2>2. AttrOK'
    <3>1. OneLinkLess(hit) \in [Nodes -> Int \cup {None}]
      BY DEF OneLinkLess, Inv, AttrOK
    <3>2. \A n \in Nodes : OneLinkLess(hit)[n] # None => attr[n] # None
      BY DEF OneLinkLess
    <3>3. attr' \in [Nodes -> Int \cup {None}] /\ \A n \in Nodes : attr'[n] # None => attr[n] # None
      BY <1>5, <3>1, <3>2
    <3> QED
      BY <1>1, <3>3 DEF Inv, AttrOK
  <2> QED
    BY <1>1, <1>3, <1>5, <2>1, <2>2, AskInv DEF Asking
<1> QED
  BY <1>4, <1>5 DEF coda_remove

LEMMA coda_rmdirInv == ASSUME Inv, NEW t \in Threads, coda_rmdir(t) PROVE Inv'
<1>1. /\ At(t, "has") /\ pc[t].op = "rmdir" /\ pc[t].node \in Dirs /\ Ask(t, pc[t])
      /\ attr' = Invalid({pc[t].dir}) /\ cache' \subseteq cache
      /\ UNCHANGED <<lock, use, known, tree, fresh, panicked, ops>>
  BY DEF coda_rmdir, Forgets
<1>2. pc[t].name # CtlName
  BY <1>1, HasPlace, Distinct
<1>3. AttrOK'
  BY <1>1, DataLess
<1> QED
  BY <1>1, <1>2, <1>3, AskInv DEF Asking

LEMMA RenameAsks ==
  ASSUME Inv, NEW t \in Threads, coda_rename(t)
  PROVE  /\ At(t, "has") /\ pc[t].op = "rename" /\ Ask(t, pc[t]) /\ pc[t].name # CtlName
         /\ cache' = cache \ Renamed(pc[t]) /\ attr' = Invalid({pc[t].from.dir, pc[t].dir})
         /\ UNCHANGED <<lock, use, known, tree, fresh, panicked, ops>>
<1>1. At(t, "has") /\ pc[t].op = "rename"
  BY DEF coda_rename
<1>2. pc[t].name # CtlName /\ pc[t].from.name # CtlName
  BY <1>1, HasPlace, Distinct DEF PlaceOK, NameOK, FromOK
<1> QED
  BY <1>1, <1>2 DEF coda_rename

LEMMA coda_renameInv == ASSUME Inv, NEW t \in Threads, coda_rename(t) PROVE Inv'
<1>1. cache' \subseteq cache /\ AttrOK'
  BY RenameAsks, DataLess
<1> QED
  BY <1>1, RenameAsks, AskInv DEF Asking
-----------------------------------------------------------------------------
(* What Venus does.                                                        *)

LEMMA OffOK == ASSUME Inv, known' = known, NEW D, NEW f, NEW k \in Int, attr' = Off(D, f, k) PROVE AttrOK'
BY DEF Off, Inv, AttrOK

\* A thread's answer: it has changed its directory, with nodes that are known, were in it
\* before, or are new.
LEMMA Answered ==
  ASSUME Inv, NEW t \in Threads, NEW q, Moves(t, q), UNCHANGED <<cache, known, panicked, ops>>,
         q.dir = pc[t].dir, q.dir \in Dirs, q.from = pc[t].from, q.at = "done", pc[t].at = "asked",
         \/ q.node = pc[t].node /\ ~IsNew(q)
         \/ q.node \in fresh /\ IsNew(q),
         fresh' \subseteq fresh, q.node \notin fresh', TreeOK', AttrOK',
         \A d \in Dirs, n \in Names : tree'[d][n] # None =>
            \/ tree'[d][n] = tree[d][n]
            \/ /\ d = q.dir
               /\ \/ tree'[d][n] \in known \cup fresh
                  \/ \E m \in Names : tree[d][m] = tree'[d][n]
  PROVE  Inv'
<1>1. /\ ThreadsOK' /\ LockOK' /\ UseOK'
      /\ pc'[t] = q /\ \A u \in Threads \ {t} : pc'[u] = pc[u]
  BY MovesPlaces
<1>2. \A u \in Threads : SeenBy(pc[u])
  BY DEF Inv, SeenOK
<1>3. SeenOK'
  <2>1. SeenBy(q)'
    BY <1>2 DEF SeenBy, IsNew
  <2>2. ASSUME NEW u \in Threads \ {t}, NEW p, p = pc[u] PROVE SeenBy(p)'
    BY <1>2, <2>2 DEF SeenBy, IsNew
  <2> QED
    BY <1>1, <2>1, <2>2 DEF SeenOK, SeenBy, IsNew
<1>4. KnownOK'
  BY DEF Inv, KnownOK
<1>5. CacheOK'
  BY DataLess
<1>6. NewOK'
  <2>1. q.dir \in known /\ q.dir \notin fresh
    BY <1>2, Distinct DEF SeenBy, Inv, KnownOK
  <2>2. ASSUME IsNew(q)
        PROVE  /\ q.node \in fresh /\ q.node \notin known
               /\ \A d \in Dirs, n \in Names : tree'[d][n] # None =>
                    (tree'[d][n] = q.node => d = q.dir) /\ d # q.node
               /\ \A u \in Threads \ {t} : pc'[u].node # q.node
    <3>1. q.node \in fresh /\ q.node \notin known
      BY <2>2 DEF Inv, KnownOK
    <3>2. \A u \in Threads \ {t} : pc'[u].node # q.node
      BY <1>1, <1>2, <3>1 DEF SeenBy
    <3>3. \A d \in Dirs, n \in Names : tree[d][n] # None => d \notin fresh /\ tree[d][n] \notin fresh
      BY DEF Inv, TreeOK
    <3> QED
      BY <2>1, <3>1, <3>2, <3>3
  <2>3. ASSUME NEW u \in Threads \ {t}, IsNew(pc[u])
        PROVE  /\ pc[u].node \notin known /\ pc[u].node \notin fresh
               /\ \A d \in Dirs, n \in Names : tree'[d][n] # None =>
                    (tree'[d][n] = pc[u].node => d = pc[u].dir) /\ d # pc[u].node
               /\ \A v \in Threads \ {u} : pc'[v].node # pc[u].node
    <3>1. /\ pc[u].node \notin known
          /\ \A d \in Dirs, n \in Names : tree[d][n] # None =>
               (tree[d][n] = pc[u].node => d = pc[u].dir) /\ d # pc[u].node
          /\ \A v \in Threads \ {u} : pc[v].node # pc[u].node
      BY <2>3 DEF Inv, NewOK
    <3>2. pc[u].node \notin fresh /\ pc[u].node # None
      BY <1>2, <2>3, Distinct DEF SeenBy, Inv, ThreadsOK, PlaceOK, NodeOK
    <3>3. \A v \in Threads \ {u} : pc'[v].node # pc[u].node
      BY <1>1, <3>1, <3>2
    <3>4. \A d \in Dirs, n \in Names : tree'[d][n] # None =>
            (tree'[d][n] = pc[u].node => d = pc[u].dir) /\ d # pc[u].node
      BY <2>1, <3>1, <3>2
    <3> QED
      BY <3>1, <3>2, <3>3, <3>4
  <2> QED
    BY <1>1, <2>2, <2>3 DEF NewOK, IsNew
<1> QED
  BY <1>1, <1>3, <1>4, <1>5, <1>6 DEF Inv

\* The places between the message and the answer.
LEMMA AskedPlace ==
  ASSUME Inv, NEW t \in Threads, At(t, "asked")
  PROVE  /\ PlaceOK(pc[t]) /\ pc[t] \in Places /\ pc[t].at = "asked" /\ ~IsNew(pc[t]) /\ SeenBy(pc[t])
         /\ pc[t].dir \in Dirs /\ pc[t].dir \in known /\ pc[t].name \in Names \cup {DotDot}
         /\ pc[t].name = DotDot <=> pc[t].op = "mkdirup"
         /\ pc[t].op \in Asking
         /\ pc[t].op \notin {"remove", "rmdir", "rename"} => pc[t].node = None
<1>1. PlaceOK(pc[t]) /\ pc[t] \in Places /\ pc[t].at = "asked" /\ SeenBy(pc[t])
  BY DEF Inv, ThreadsOK, SeenOK, At
<1>2. ~IsNew(pc[t]) /\ pc[t].op \in Asking
  BY <1>1 DEF PlaceOK, OpOK, IsNew
<1>3. pc[t].dir \in Dirs /\ pc[t].dir # None
  BY <1>1, Distinct DEF PlaceOK, NameOK
<1>4. pc[t].name \in Names \cup {DotDot} /\ (pc[t].name = DotDot <=> pc[t].op = "mkdirup")
  BY <1>1, <1>2 DEF PlaceOK, NameOK, Asking
<1>5. pc[t].op \notin {"remove", "rmdir", "rename"} => pc[t].node = None
  BY <1>1, <1>2 DEF PlaceOK, NodeOK
<1> QED
  BY <1>1, <1>2, <1>3, <1>4, <1>5 DEF SeenBy

\* The thread is at done with what it had when it asked, or with the node made.
DonePlace(p, g) == [[p EXCEPT !.node = g] EXCEPT !.at = "done"]

LEMMA DoneMoves ==
  ASSUME Inv, NEW t \in Threads, At(t, "asked"), UNCHANGED <<lock, use>>, NEW g,
         \/ g = pc[t].node /\ pc[t].op \in {"symlink", "link", "remove", "rmdir", "rename"}
         \/ /\ pc[t].op \in {"create", "mkdir"} /\ g \in Nodes /\ g # pc[t].dir
            /\ pc[t].op = "mkdir" => g \in Dirs,
         pc' = [pc EXCEPT ![t] = DonePlace(pc[t], g)]
  PROVE  LET q == DonePlace(pc[t], g)
         IN /\ Moves(t, q) /\ q.dir = pc[t].dir /\ q.from = pc[t].from /\ q.at = "done"
            /\ q.node = g /\ q.op = pc[t].op /\ q.name = pc[t].name
            /\ IsNew(q) <=> pc[t].op \in {"create", "mkdir"}
<1> DEFINE p == pc[t]
           q == DonePlace(p, g)
<1>1. /\ PlaceOK(p) /\ p \in Places /\ p.at = "asked" /\ ~IsNew(p) /\ p.dir \in Dirs
      /\ p.name \in Names \cup {DotDot} /\ p.op \in Asking
      /\ p.name = DotDot <=> p.op = "mkdirup"
      /\ p.op \notin {"remove", "rmdir", "rename"} => p.node = None
  BY AskedPlace
<1>2. g \in Nodes \cup {None}
  BY <1>1, PlaceFields
<1>3. /\ q \in Places /\ q.op = p.op /\ q.dir = p.dir /\ q.name = p.name /\ q.from = p.from
      /\ q.node = g /\ q.at = "done"
  BY <1>1, <1>2 DEF Places, DonePlace
<1>3a. pc' = [pc EXCEPT ![t] = q]
  OBVIOUS
<1>3b. \/ g = p.node /\ p.op \in {"symlink", "link", "remove", "rmdir", "rename"}
       \/ p.op \in {"create", "mkdir"} /\ g \in Nodes /\ g # p.dir /\ (p.op = "mkdir" => g \in Dirs)
  OBVIOUS
<1> HIDE DEF p, q
<1>4. IsNew(q) <=> p.op \in {"create", "mkdir"}
  BY <1>3 DEF IsNew
<1>5. PlaceOK(q)
  <2>1. OpOK(q) /\ NameOK(q) /\ FromOK(q)
    BY <1>1, <1>3, Distinct DEF PlaceOK, OpOK, NameOK, FromOK
  <2>2. NodeOK(q)
    <3>1. g # None => g # p.dir /\ (p.name = DotDot => g \in Dirs)
      BY <1>1, <1>3b DEF PlaceOK, NodeOK
    <3> QED
      BY <1>1, <1>3, <1>3b, <1>4, <3>1 DEF NodeOK
  <2> QED
    BY <2>1, <2>2 DEF PlaceOK
<1>6. Held(q) = Held(p)
  BY <1>1, <1>3, <1>3b, <1>4, Distinct DEF Held
<1>7. ASSUME NEW n \in Nodes PROVE Num(q, n) = Num(p, n)
  <2>1. Ref(q, "node") = Ref(p, "node")
    <3>1. Ref(p, "node") = p.node /\ q.at # "found"
      BY <1>1, <1>3, RefIs
    <3>2. CASE IsNew(q)
      BY <1>1, <1>4, <3>1, <3>2, RefIs
    <3>3. CASE ~IsNew(q)
      BY <1>3, <1>3b, <1>4, <3>1, <3>3, RefIs
    <3> QED
      BY <3>2, <3>3
  <2>2. Ref(q, "dir") = Ref(p, "dir") /\ Ref(q, "fromdir") = Ref(p, "fromdir") /\ Ref(q, "fromnode") = Ref(p, "fromnode")
    BY <1>3, RefIs
  <2> QED
    BY <2>1, <2>2 DEF Num
<1>8. Moves(t, q)
  BY <1>3, <1>3a, <1>5, <1>6, <1>7, Stays DEF p
<1> QED
  BY <1>3, <1>4, <1>8 DEF p, q

LEMMA MadeInv ==
  ASSUME Inv, NEW t \in Threads, At(t, "asked"), Made(t),
         UNCHANGED <<lock, use, cache, known, panicked, ops>>
  PROVE  Inv'
<1> DEFINE p == pc[t]
<1>1. /\ PlaceOK(p) /\ p \in Places /\ p.at = "asked" /\ SeenBy(p) /\ p.dir \in Dirs /\ p.dir \in known
      /\ p.name = DotDot <=> p.op = "mkdirup"
      /\ p.op \notin {"remove", "rmdir", "rename"} => p.node = None
  BY AskedPlace
<1>2. p.dir \notin fresh /\ None \notin fresh /\ fresh \subseteq Nodes
  BY <1>1, Distinct DEF Inv, KnownOK
<1>3. ASSUME NEW g, Make(p, g), g \in Dirs \cup Files, g # p.dir, fresh' = fresh \/ fresh' = fresh \ {g}, g \notin fresh'
      PROVE  /\ p.op # "mkdirup" /\ TreeOK'
             /\ \A d \in Dirs, n \in Names : tree'[d][n] # None =>
                  tree'[d][n] = tree[d][n] \/ (d = p.dir /\ tree'[d][n] = g)
  <2>1. p.name \in Names /\ tree' = [tree EXCEPT ![p.dir][p.name] = g]
    BY <1>3 DEF Make
  <2>2. p.op # "mkdirup"
    BY <1>1, <2>1, Distinct
  <2>3. /\ tree' \in [Dirs -> [Names -> Dirs \cup Files \cup {None}]]
        /\ \A d \in Dirs, n \in Names : tree'[d][n] = tree[d][n] \/ (d = p.dir /\ tree'[d][n] = g)
    BY <1>1, <1>3, <2>1 DEF Inv, TreeOK
  <2>4. \A d \in Dirs, n \in Names : tree'[d][n] # None =>
          d \notin fresh' /\ tree'[d][n] \notin fresh' /\ tree'[d][n] # d
    BY <1>2, <1>3, <2>3 DEF Inv, TreeOK
  <2> QED
    BY <2>2, <2>3, <2>4 DEF TreeOK
<1>4. ASSUME p.op \in {"create", "mkdir", "symlink", "mkdirup"},
             NEW g \in fresh \cap (IF p.op = "mkdir" THEN Dirs ELSE Files),
             Make(p, g), fresh' = fresh \ {g},
             Go(t, IF p.op = "symlink" THEN p ELSE [p EXCEPT !.node = g], "done"),
             attr' = Off({p.dir}, None, 0)
      PROVE  Inv'
  <2>1. g \in Dirs \cup Files /\ g \in Nodes /\ g # p.dir /\ (p.op = "mkdir" => g \in Dirs)
    BY <1>2, <1>4
  <2>2. /\ p.op # "mkdirup" /\ TreeOK'
        /\ \A d \in Dirs, n \in Names : tree'[d][n] # None =>
             tree'[d][n] = tree[d][n] \/ (d = p.dir /\ tree'[d][n] = g)
    BY <1>3, <1>4, <2>1
  <2> DEFINE h == IF p.op = "symlink" THEN p.node ELSE g
             q == DonePlace(p, h)
  <2>3. pc' = [pc EXCEPT ![t] = q]
    <3>1. CASE p.op = "symlink"
      <4>1. [p EXCEPT !.node = p.node] = p
        BY <1>1 DEF Places
      <4> QED
        BY <1>4, <3>1, <4>1 DEF Go, DonePlace
    <3>2. CASE p.op # "symlink"
      BY <1>4, <3>2 DEF Go, DonePlace
    <3> QED
      BY <3>1, <3>2
  <2>4. \/ h = p.node /\ p.op = "symlink"
        \/ h = g /\ p.op \in {"create", "mkdir"}
    BY <1>4, <2>2
  <2> HIDE DEF h, q
  <2>5. /\ Moves(t, q) /\ q.dir = p.dir /\ q.from = p.from /\ q.at = "done"
        /\ q.node = h /\ (IsNew(q) <=> p.op \in {"create", "mkdir"})
    <3>1. \/ h = pc[t].node /\ pc[t].op \in {"symlink", "link", "remove", "rmdir", "rename"}
          \/ /\ pc[t].op \in {"create", "mkdir"} /\ h \in Nodes /\ h # pc[t].dir
             /\ pc[t].op = "mkdir" => h \in Dirs
      BY <2>1, <2>4
    <3>2. UNCHANGED <<lock, use>> /\ pc' = [pc EXCEPT ![t] = DonePlace(pc[t], h)]
      BY <2>3 DEF q
    <3> HIDE DEF p
    <3> QED
      BY <3>1, <3>2, DoneMoves DEF p, q
  <2>6. AttrOK'
    BY <1>4, OffOK
  <2>7. \/ q.node = p.node /\ ~IsNew(q)
        \/ q.node \in fresh /\ IsNew(q)
    BY <1>4, <2>4, <2>5
  <2>8. q.node \notin fresh'
    BY <1>1, <1>4, <2>4, <2>5 DEF SeenBy
  <2>9. q.dir \in Dirs /\ fresh' \subseteq fresh
    BY <1>1, <1>4, <2>5
  <2>10. \A d \in Dirs, n \in Names : tree'[d][n] # None =>
            tree'[d][n] = tree[d][n] \/ (d = q.dir /\ tree'[d][n] \in known \cup fresh)
    BY <1>4, <2>2, <2>5
  <2> HIDE DEF p
  <2> QED
    BY <1>1, <2>2, <2>5, <2>6, <2>7, <2>8, <2>9, <2>10, Answered DEF p
<1>5. ASSUME p.op = "link", Make(p, p.from.node), Go(t, p, "done"),
             attr' = Off({p.dir}, p.from.node, 1), UNCHANGED fresh
      PROVE  Inv'
  <2>1. p.from.node \in Files /\ p.from.node \in known /\ p.from.node \notin fresh /\ p.from.node # p.dir
    BY <1>1, <1>5, Distinct DEF PlaceOK, FromOK, SeenBy, Inv, KnownOK
  <2>2. /\ TreeOK'
        /\ \A d \in Dirs, n \in Names : tree'[d][n] # None =>
             tree'[d][n] = tree[d][n] \/ (d = p.dir /\ tree'[d][n] = p.from.node)
    BY <1>3, <1>5, <2>1
  <2> DEFINE q == DonePlace(p, p.node)
  <2>3. pc' = [pc EXCEPT ![t] = q]
    <3>1. [p EXCEPT !.node = p.node] = p
      BY <1>1 DEF Places
    <3> QED
      BY <1>5, <3>1 DEF Go, DonePlace
  <2> HIDE DEF q
  <2>5. /\ Moves(t, q) /\ q.dir = p.dir /\ q.from = p.from /\ q.at = "done"
        /\ q.node = p.node /\ ~IsNew(q)
    BY <1>5, <2>3, DoneMoves DEF q
  <2>6. AttrOK'
    BY <1>5, OffOK
  <2>8. q.node \notin fresh' /\ q.dir \in Dirs /\ fresh' \subseteq fresh
    BY <1>1, <1>5, <2>5 DEF SeenBy
  <2>10. \A d \in Dirs, n \in Names : tree'[d][n] # None =>
            tree'[d][n] = tree[d][n] \/ (d = q.dir /\ tree'[d][n] \in known \cup fresh)
    BY <2>1, <2>2, <2>5
  <2> HIDE DEF p
  <2> QED
    BY <1>1, <2>2, <2>5, <2>6, <2>8, <2>10, Answered DEF p
<1> QED
  BY <1>4, <1>5 DEF Made
LEMMA SameDone ==
  ASSUME NEW p \in Places, NEW t, Go(t, p, "done")
  PROVE  pc' = [pc EXCEPT ![t] = DonePlace(p, p.node)]
<1>1. [p EXCEPT !.node = p.node] = p
  BY DEF Places
<1> QED
  BY <1>1 DEF Go, DonePlace

LEMMA EmptiedInv ==
  ASSUME Inv, NEW t \in Threads, At(t, "asked"), Emptied(t),
         UNCHANGED <<lock, use, cache, known, panicked, ops>>
  PROVE  Inv'
<1> DEFINE p == pc[t]
           q == DonePlace(p, p.node)
<1>1. /\ p \in Places /\ p.at = "asked" /\ SeenBy(p) /\ p.dir \in Dirs
      /\ p.name = DotDot <=> p.op = "mkdirup"
      /\ p.name \in Names \cup {DotDot}
  BY AskedPlace
<1>2. /\ p.op \in {"remove", "rmdir"} /\ Go(t, p, "done") /\ UNCHANGED fresh
      /\ tree' = [tree EXCEPT ![p.dir][p.name] = None]
      /\ attr' = Off({p.dir}, tree[p.dir][p.name], -1)
  BY DEF Emptied
<1>3. pc' = [pc EXCEPT ![t] = q]
  BY <1>1, <1>2, SameDone
<1>4. /\ Moves(t, q) /\ q.dir = p.dir /\ q.from = p.from /\ q.at = "done"
      /\ q.node = p.node /\ ~IsNew(q)
  BY <1>2, <1>3, DoneMoves
<1> HIDE DEF q
<1>5. AttrOK'
  BY <1>2, OffOK
<1>6. /\ tree' \in [Dirs -> [Names -> Dirs \cup Files \cup {None}]]
      /\ \A d \in Dirs, n \in Names : tree'[d][n] # None => tree'[d][n] = tree[d][n]
  BY <1>1, <1>2 DEF Inv, TreeOK
<1>7. TreeOK'
  BY <1>2, <1>6 DEF Inv, TreeOK
<1>8. q.node \notin fresh' /\ q.dir \in Dirs /\ fresh' \subseteq fresh
  BY <1>1, <1>2, <1>4 DEF SeenBy
<1> HIDE DEF p
<1> QED
  BY <1>1, <1>4, <1>5, <1>6, <1>7, <1>8, Answered DEF p

LEMMA MovedInv ==
  ASSUME Inv, NEW t \in Threads, At(t, "asked"), Moved(t),
         UNCHANGED <<lock, use, cache, known, panicked, ops>>
  PROVE  Inv'
<1> DEFINE p == pc[t]
           q == DonePlace(p, p.node)
           moved == tree[p.dir][p.from.name]
<1>1. /\ p \in Places /\ p.at = "asked" /\ SeenBy(p) /\ p.dir \in Dirs /\ PlaceOK(p)
      /\ p.name = DotDot <=> p.op = "mkdirup"
      /\ p.name \in Names \cup {DotDot}
  BY AskedPlace
<1>2. p.op = "rename"
  BY DEF Moved
<1>3. /\ p.from.dir = p.dir /\ p.from.name \in Names /\ p.name \in Names
  BY <1>1, <1>2 DEF PlaceOK, FromOK
<1>4. /\ moved # None /\ Go(t, p, "done") /\ UNCHANGED fresh
      /\ tree' = [[tree EXCEPT ![p.dir][p.from.name] = None] EXCEPT ![p.dir][p.name] = moved]
      /\ attr' = Off({p.from.dir, p.dir}, tree[p.dir][p.name], -1)
  BY <1>3 DEF Moved
<1>5. pc' = [pc EXCEPT ![t] = q]
  BY <1>1, <1>4, SameDone
<1>6. /\ Moves(t, q) /\ q.dir = p.dir /\ q.from = p.from /\ q.at = "done"
      /\ q.node = p.node /\ ~IsNew(q)
  BY <1>2, <1>5, DoneMoves
<1> HIDE DEF q
<1>7. AttrOK'
  BY <1>4, OffOK
<1>8. /\ tree' \in [Dirs -> [Names -> Dirs \cup Files \cup {None}]]
      /\ \A d \in Dirs, n \in Names : tree'[d][n] # None =>
           tree'[d][n] = tree[d][n] \/ (d = p.dir /\ tree'[d][n] = moved)
  <2>1. tree \in [Dirs -> [Names -> Dirs \cup Files \cup {None}]] /\ moved \in Dirs \cup Files \cup {None}
    BY <1>1, <1>3 DEF Inv, TreeOK
  <2> HIDE DEF moved
  <2> QED
    BY <1>1, <1>3, <1>4, <2>1
<1>9. moved # p.dir /\ p.dir \notin fresh /\ moved \notin fresh
  BY <1>1, <1>3, <1>4 DEF Inv, TreeOK
<1>10. TreeOK'
  <2>1. \A d \in Dirs, n \in Names : tree[d][n] # None =>
          d \notin fresh /\ tree[d][n] \notin fresh /\ tree[d][n] # d
    BY DEF Inv, TreeOK
  <2> HIDE DEF moved
  <2>2. \A d \in Dirs, n \in Names : tree'[d][n] # None =>
          d \notin fresh' /\ tree'[d][n] \notin fresh' /\ tree'[d][n] # d
    BY <1>4, <1>8, <1>9, <2>1
  <2> QED
    BY <1>8, <2>2 DEF TreeOK
<1>11. q.node \notin fresh' /\ q.dir \in Dirs /\ fresh' \subseteq fresh
  BY <1>1, <1>4, <1>6 DEF SeenBy
<1>12. \A d \in Dirs, n \in Names : tree'[d][n] # None =>
         tree'[d][n] = tree[d][n] \/ (d = q.dir /\ \E m \in Names : tree[d][m] = tree'[d][n])
  BY <1>3, <1>6, <1>8
<1> HIDE DEF p
<1> QED
  BY <1>1, <1>6, <1>7, <1>10, <1>11, <1>12, Answered DEF p

LEMMA VenusDoesInv == ASSUME Inv, NEW t \in Threads, VenusDoes(t) PROVE Inv'
BY MadeInv, EmptiedInv, MovedInv DEF VenusDoes

LEMMA VenusRefusesInv == ASSUME Inv, NEW t \in Threads, VenusRefuses(t) PROVE Inv'
<1> DEFINE p == pc[t]
           q == [p EXCEPT !.at = "refused"]
<1>1. /\ PlaceOK(p) /\ p \in Places /\ p.at = "asked" /\ ~IsNew(p) /\ p.dir \in Dirs
      /\ p.name \in Names \cup {DotDot} /\ p.op \in Asking
      /\ p.op \notin {"remove", "rmdir", "rename"} => p.node = None
  BY AskedPlace DEF VenusRefuses
<1>2. UNCHANGED <<lock, use, cache, attr, known, tree, fresh, panicked, ops>> /\ AttrOK'
  BY DEF VenusRefuses, Inv, AttrOK
<1>3. /\ q \in Places /\ pc' = [pc EXCEPT ![t] = q]
      /\ q.at = "refused" /\ q.op = p.op /\ q.dir = p.dir /\ q.name = p.name /\ q.node = p.node
      /\ q.from = p.from
  BY <1>1 DEF VenusRefuses, Go, Places
<1> HIDE DEF p, q
<1>4. PlaceOK(q) /\ ~IsNew(q)
  BY <1>1, <1>3, Distinct DEF PlaceOK, OpOK, NameOK, NodeOK, FromOK, IsNew
<1>5. Held(q) = Held(p)
  BY <1>1, <1>3, <1>4 DEF Held
<1> QED
  BY <1>1, <1>2, <1>3, <1>4, <1>5, Steady DEF p

LEMMA DonePlaceOK ==
  ASSUME Inv, NEW t \in Threads, At(t, "done") \/ At(t, "refused")
  PROVE  /\ PlaceOK(pc[t]) /\ pc[t] \in Places /\ pc[t].at \in {"done", "refused"} /\ SeenBy(pc[t])
         /\ pc[t].dir \in Dirs /\ pc[t].dir \in known /\ pc[t].name \in Names \cup {DotDot}
         /\ pc[t].name = DotDot <=> pc[t].op = "mkdirup"
         /\ pc[t].op \in Asking
         /\ pc[t].op \notin {"remove", "rmdir", "rename"} => pc[t].node = None \/ IsNew(pc[t])
<1>1. PlaceOK(pc[t]) /\ pc[t] \in Places /\ pc[t].at \in {"done", "refused"} /\ SeenBy(pc[t])
  BY DEF Inv, ThreadsOK, SeenOK, At
<1>2. pc[t].op \in Asking
  BY <1>1 DEF PlaceOK, OpOK
<1>3. pc[t].dir \in Dirs /\ pc[t].dir # None
  BY <1>1, Distinct DEF PlaceOK, NameOK
<1>4. pc[t].name \in Names \cup {DotDot} /\ (pc[t].name = DotDot <=> pc[t].op = "mkdirup")
  BY <1>1, <1>2 DEF PlaceOK, NameOK, Asking
<1>5. pc[t].op \notin {"remove", "rmdir", "rename"} => pc[t].node = None \/ IsNew(pc[t])
  BY <1>1, <1>2 DEF PlaceOK, NodeOK
<1> QED
  BY <1>1, <1>2, <1>3, <1>4, <1>5 DEF SeenBy

LEMMA InterruptedInv == ASSUME Inv, NEW t \in Threads, Interrupted(t) PROVE Inv'
<1> DEFINE p == pc[t]
           r == IF p.op \in {"create", "mkdir"} THEN [p EXCEPT !.node = None] ELSE p
           q == [r EXCEPT !.at = "refused"]
<1>1. /\ PlaceOK(p) /\ p \in Places /\ p.at = "done" /\ SeenBy(p) /\ p.dir \in Dirs
      /\ p.name \in Names \cup {DotDot} /\ p.op \in Asking
      /\ p.op \notin {"remove", "rmdir", "rename"} => p.node = None \/ IsNew(p)
      /\ IsNew(p) <=> p.op \in {"create", "mkdir"}
  BY DonePlaceOK DEF Interrupted, At, IsNew
<1>2. /\ UNCHANGED <<lock, use, cache, attr, known, tree, fresh, panicked, ops>> /\ AttrOK'
      /\ pc' = [pc EXCEPT ![t] = q]
  BY DEF Interrupted, Inv, AttrOK, Go
<1>3. /\ q \in Places
      /\ q.at = "refused" /\ q.op = p.op /\ q.dir = p.dir /\ q.name = p.name
      /\ q.node = (IF IsNew(p) THEN None ELSE p.node)
      /\ q.from = p.from
  BY <1>1 DEF Places
<1> HIDE DEF p, q, r
<1>4. PlaceOK(q) /\ ~IsNew(q)
  BY <1>1, <1>3, Distinct DEF PlaceOK, OpOK, NameOK, NodeOK, FromOK, IsNew
<1>5. Held(q) = Held(p)
  BY <1>1, <1>3, <1>4, Distinct DEF Held
<1>6. Ref(q, "node") = Ref(p, "node")
  <2>1. Ref(q, "node") = q.node
    BY <1>3, <1>4, RefIs
  <2>2. CASE IsNew(p)
    BY <1>3, <2>1, <2>2, RefIs
  <2>3. CASE ~IsNew(p)
    BY <1>1, <1>3, <2>1, <2>3, RefIs
  <2> QED
    BY <2>2, <2>3
<1>7. ASSUME NEW n \in Nodes PROVE Num(q, n) = Num(p, n)
  <2>1. Ref(q, "dir") = Ref(p, "dir") /\ Ref(q, "fromdir") = Ref(p, "fromdir") /\ Ref(q, "fromnode") = Ref(p, "fromnode")
    BY <1>3, RefIs
  <2> QED
    BY <1>6, <2>1 DEF Num
<1>8. Moves(t, q)
  BY <1>2, <1>3, <1>4, <1>5, <1>7, Stays DEF p
<1>9. /\ q.dir \in known \cup {None} /\ q.node \in known \cup {None}
      /\ q.from.dir \in known \cup {None} /\ q.from.node \in known \cup {None}
  BY <1>1, <1>3 DEF SeenBy
<1>10. CacheOK' /\ ops' \in 0..MaxOps
  BY <1>2, DataLess DEF Inv
<1> QED
  BY <1>2, <1>4, <1>8, <1>9, <1>10, Onward
-----------------------------------------------------------------------------
(* The operations from their upcall on.                                    *)

LEMMA EndedInv ==
  ASSUME Inv, NEW t \in Threads, At(t, "done") \/ At(t, "refused"), ~IsNew(pc[t]), Ended(t),
         UNCHANGED <<cache, known, tree, fresh, panicked, ops>>, AttrOK'
  PROVE  Inv' /\ Moves(t, Idle)
<1> DEFINE p == pc[t]
<1>1. PlaceOK(p) /\ p.at \in {"done", "refused"} /\ p.at # "found" /\ ~IsNew(p)
  BY DonePlaceOK
<1>2. CASE p.op # "rename"
  <2>1. p.from.dir = None
    BY <1>1, <1>2, IdlePlace DEF PlaceOK, FromOK
  <2>2. GiveBack(t, <<p.dir, p.node>>, <<p.from.node>>)
    BY <1>2 DEF Ended
  <2>3. Moves(t, Idle)
    BY <1>1, <2>1, <2>2, GivesOf
  <2> QED
    BY <2>3, HomeAgain
<1>3. CASE p.op = "rename"
  <2>1. GiveBack(t, <<p.node, p.dir>>, <<p.from.node, p.from.dir>>)
    BY <1>3 DEF Ended
  <2>2. Moves(t, Idle)
    BY <1>1, <2>1, GivesOf
  <2> QED
    BY <2>2, HomeAgain
<1> QED
  BY <1>2, <1>3

LEMMA RefusedInv == ASSUME Inv, NEW t \in Threads, Refused(t) PROVE Inv'
<1>1. /\ At(t, "refused") /\ Ended(t) /\ UNCHANGED <<cache, known, tree, fresh, panicked, ops>>
      /\ attr' = attr \/ \E D : attr' = Invalid(D)
  BY DEF Refused
<1>2. ~IsNew(pc[t]) /\ AttrOK'
  BY <1>1, DataLess DEF At, IsNew
<1> QED
  BY <1>1, <1>2, EndedInv

LEMMA LinkDoneInv == ASSUME Inv, NEW t \in Threads, LinkDone(t) PROVE Inv'
<1>1. /\ At(t, "done") /\ pc[t].op = "link" /\ Ended(t)
      /\ UNCHANGED <<cache, known, tree, fresh, panicked, ops>> /\ \E D : attr' = Invalid(D)
  BY DEF LinkDone, Touched
<1>2. ~IsNew(pc[t]) /\ AttrOK'
  BY <1>1, DataLess DEF IsNew
<1> QED
  BY <1>1, <1>2, EndedInv

LEMMA RemoveDoneInv == ASSUME Inv, NEW t \in Threads, RemoveDone(t) PROVE Inv'
<1>1. /\ At(t, "done") /\ pc[t].op \in {"remove", "rmdir", "rename"} /\ Ended(t)
      /\ UNCHANGED <<cache, attr, known, tree, fresh, panicked, ops>>
  BY DEF RemoveDone
<1>2. ~IsNew(pc[t]) /\ AttrOK'
  BY <1>1, DataLess DEF IsNew
<1> QED
  BY <1>1, <1>2, EndedInv

\* What coda_create and coda_mkdir enter.
LEMMA MadeEntries ==
  ASSUME Inv, NEW t \in Threads, MadeDone(t)
  PROVE  /\ CacheOK'
         /\ \A e \in cache' : \/ e \in cache
                              \/ e = Entry(pc[t].dir, pc[t].name, pc[t].node)
                              \/ /\ pc[t].op = "mkdir"
                                 /\ \/ e = Entry(pc[t].node, Dot, pc[t].node)
                                    \/ e = Entry(pc[t].node, DotDot, pc[t].dir)
<1> DEFINE p == pc[t]
           e1 == Entry(p.dir, p.name, p.node)
           e2 == Entry(p.node, Dot, p.node)
           e3 == Entry(p.node, DotDot, p.dir)
           good(e) == /\ e \in [dir : Dirs, name : Names \cup {Dot, DotDot}, node : Nodes]
                      /\ e.dir \in known' /\ e.node \in known'
                      /\ e.name # Dot => e.node # e.dir
                      /\ e.name = DotDot => e.node \in Dirs
<1>1. /\ p.op \in {"create", "mkdir"} /\ IsNew(p) /\ PlaceOK(p)
      /\ p.dir \in Dirs /\ p.dir \in known /\ p.name \in Names
      /\ known' = known \cup {p.node}
  BY DonePlaceOK DEF MadeDone, At, IsNew
<1>2. p.node \in Nodes /\ p.node # p.dir /\ (p.op = "mkdir" => p.node \in Dirs)
  BY <1>1, Distinct DEF PlaceOK, NodeOK
<1>3. IsFiniteSet(cache) /\ Cardinality(cache) <= CacheSize
  BY DEF Inv, CacheOK
<1>4. \A e \in cache : good(e)
  BY <1>1 DEF Inv, CacheOK
<1>5. good(e1)
  <2>1. e1.dir = p.dir /\ e1.name = p.name /\ e1.node = p.node
        /\ e1 \in [dir : Dirs, name : Names \cup {Dot, DotDot}, node : Nodes]
    BY <1>1, <1>2 DEF Entry
  <2> QED
    BY <1>1, <1>2, <2>1, Distinct
<1>6. p.op = "mkdir" => good(e2) /\ good(e3)
  <2> SUFFICES ASSUME p.op = "mkdir" PROVE good(e2) /\ good(e3)
    OBVIOUS
  <2>1. /\ e2.dir = p.node /\ e2.name = Dot /\ e2.node = p.node
        /\ e2 \in [dir : Dirs, name : Names \cup {Dot, DotDot}, node : Nodes]
    BY <1>1, <1>2 DEF Entry
  <2>2. /\ e3.dir = p.node /\ e3.name = DotDot /\ e3.node = p.dir
        /\ e3 \in [dir : Dirs, name : Names \cup {Dot, DotDot}, node : Nodes]
    BY <1>1, <1>2, Distinct DEF Entry
  <2> HIDE DEF e2, e3
  <2> QED
    BY <1>1, <1>2, <2>1, <2>2, Distinct
<1> HIDE DEF e1, e2, e3, good
<1>7. PICK C1 \in Entered(cache, e1) :
         IF p.op = "mkdir" THEN \E C2 \in Entered(C1, e2) : cache' \in Entered(C2, e3)
         ELSE cache' = C1
  <2>1. cache' \in (IF p.op = "mkdir"
                    THEN UNION {Entered(C, e3) : C \in UNION {Entered(C, e2) : C \in Entered(cache, e1)}}
                    ELSE Entered(cache, e1))
    BY DEF MadeDone, e1, e2, e3
  <2> QED
    BY <2>1
<1>8. C1 \subseteq cache \cup {e1} /\ IsFiniteSet(C1) /\ Cardinality(C1) <= CacheSize
  BY <1>3, EnteredOK
<1>9. /\ IsFiniteSet(cache') /\ Cardinality(cache') <= CacheSize
      /\ cache' \subseteq cache \cup {e1} \cup (IF p.op = "mkdir" THEN {e2, e3} ELSE {})
  <2>1. CASE p.op # "mkdir"
    BY <1>7, <1>8, <2>1
  <2>2. CASE p.op = "mkdir"
    <3>1. PICK C2 \in Entered(C1, e2) : cache' \in Entered(C2, e3)
      BY <1>7, <2>2
    <3>2. C2 \subseteq C1 \cup {e2} /\ IsFiniteSet(C2) /\ Cardinality(C2) <= CacheSize
      BY <1>8, <3>1, EnteredOK
    <3>3. cache' \subseteq C2 \cup {e3} /\ IsFiniteSet(cache') /\ Cardinality(cache') <= CacheSize
      BY <3>1, <3>2, EnteredOK
    <3> QED
      BY <1>8, <2>2, <3>2, <3>3
  <2> QED
    BY <2>1, <2>2
<1>10. \A e \in cache' : good(e)
  BY <1>4, <1>5, <1>6, <1>9
<1>11. CacheOK'
  BY <1>9, <1>10 DEF CacheOK, good
<1> QED
  BY <1>9, <1>11 DEF e1, e2, e3

LEMMA MadeMoves ==
  ASSUME Inv, NEW t \in Threads, MadeDone(t)
  PROVE  LET q == [pc[t] EXCEPT !.at = "hold"]
         IN /\ Moves(t, q) /\ ~IsNew(q) /\ q.node = pc[t].node /\ q.dir = pc[t].dir
            /\ q.name = pc[t].name /\ q.op = pc[t].op /\ q.from = pc[t].from /\ q.at = "hold"
<1> DEFINE p == pc[t]
           q == [p EXCEPT !.at = "hold"]
<1>1. /\ p.op \in {"create", "mkdir"} /\ IsNew(p) /\ PlaceOK(p) /\ p \in Places /\ SeenBy(p)
      /\ p.dir \in Dirs /\ p.dir \in known /\ p.name \in Names
  BY DonePlaceOK DEF MadeDone, At, IsNew
<1>2. p.node \in Nodes /\ p.node # p.dir /\ p.node # None
  BY <1>1, Distinct DEF PlaceOK, NodeOK
<1>3. /\ q \in Places /\ pc' = [pc EXCEPT ![t] = q]
      /\ q.at = "hold" /\ q.op = p.op /\ q.dir = p.dir /\ q.name = p.name /\ q.node = p.node
      /\ q.from = p.from
  BY <1>1 DEF MadeDone, Go, Places
<1>4. /\ lock' = [Unlocked(lock, t, <<p.dir>>) EXCEPT ![p.node] = t]
      /\ use' = [use EXCEPT ![p.node] = @ + 1]
  BY DEF MadeDone
<1> HIDE DEF p, q
<1>5. PlaceOK(q) /\ ~IsNew(q)
  BY <1>1, <1>2, <1>3, Distinct DEF PlaceOK, OpOK, NameOK, NodeOK, FromOK, IsNew
<1>6. \A n \in Nodes : (n \in Held(p) <=> n = p.dir) /\ (n \in Held(q) <=> n = p.node)
  BY <1>1, <1>2, <1>3, <1>5 DEF Held, IsNew
<1>7. /\ lock' \in [Nodes -> Threads \cup {None}]
      /\ \A n \in Nodes : lock'[n] = t <=> n \in Held(q)
      /\ \A n \in Nodes, u \in Threads \ {t} : lock'[n] = u <=> lock[n] = u
  <2>1. lock \in [Nodes -> Threads \cup {None}] /\ \A n \in Nodes : lock[n] = t <=> n = p.dir
    BY <1>6 DEF Inv, LockOK, p
  <2>2. \A n \in Nodes : Unlocked(lock, t, <<p.dir>>)[n]
                         = IF lock[n] = t /\ Times(<<p.dir>>, n) > 0 THEN None ELSE lock[n]
    BY DEF Unlocked
  <2>3. Times(<<p.dir>>, p.dir) > 0
    BY Times1 DEF Is
  <2>4. Unlocked(lock, t, <<p.dir>>) \in [Nodes -> Threads \cup {None}]
    BY <2>1 DEF Unlocked
  <2>5. \A u \in Threads \ {t} : lock[p.node] # u
    <3>1. ASSUME NEW u \in Threads \ {t}, lock[p.node] = u PROVE FALSE
      <4>1. p.node \in Held(pc[u])
        BY <1>2, <3>1 DEF Inv, LockOK
      <4>2. p.node = pc[u].dir \/ p.node = pc[u].node
        BY <4>1 DEF Held
      <4>3. p.node \notin known /\ pc[u].node # p.node
        BY <1>1 DEF Inv, NewOK, p
      <4>4. pc[u].dir \in known \cup {None}
        BY DEF Inv, SeenOK, SeenBy
      <4> QED
        BY <1>2, <4>2, <4>3, <4>4
    <3> QED
      BY <3>1
  <2> HIDE DEF Unlocked
  <2>6. \A n \in Nodes : lock'[n] = IF n = p.node THEN t ELSE Unlocked(lock, t, <<p.dir>>)[n]
    BY <1>4, <2>4
  <2>7. lock' \in [Nodes -> Threads \cup {None}]
    BY <1>4, <2>4
  <2> QED
    BY <1>2, <1>6, <2>1, <2>2, <2>3, <2>5, <2>6, <2>7, Distinct
<1>8. ASSUME NEW n \in Nodes PROVE use'[n] = use[n] - Num(p, n) + Num(q, n)
  <2>1. Num(q, n) = Is(p.dir, n) + Is(p.node, n) + Is(p.from.dir, n) + Is(p.from.node, n)
    BY <1>3, <1>5, RefIs DEF Num
  <2>2. Num(p, n) = Is(p.dir, n) + Is(None, n) + Is(p.from.dir, n) + Is(p.from.node, n) /\ Is(None, n) = 0
    BY <1>1, RefIs, Distinct DEF Num, Is
  <2>3. /\ Is(p.dir, n) \in Nat /\ Is(p.node, n) \in Nat /\ Is(p.from.dir, n) \in Nat
        /\ Is(p.from.node, n) \in Nat /\ use[n] \in Nat /\ use'[n] = use[n] + Is(p.node, n)
    BY <1>2, <1>4 DEF Is, Inv, UseOK
  <2> QED
    BY <2>1, <2>2, <2>3
<1>9. use' \in [Nodes -> Int]
  BY <1>2, <1>4 DEF Inv, UseOK
<1>10. Moves(t, q)
  BY <1>3, <1>5, <1>7, <1>8, <1>9 DEF Moves, p
<1> QED
  BY <1>3, <1>5, <1>10 DEF p, q

LEMMA MadeDoneInv == ASSUME Inv, NEW t \in Threads, MadeDone(t) PROVE Inv'
<1> DEFINE p == pc[t]
           q == [p EXCEPT !.at = "hold"]
<1>1. /\ IsNew(p) /\ SeenBy(p) /\ p.dir \in known /\ PlaceOK(p)
      /\ known' = known \cup {p.node} /\ panicked' = (panicked \/ p.node \in known)
      /\ attr' = [Touched(p) EXCEPT ![p.node] = 0] /\ UNCHANGED <<tree, fresh, ops>>
  BY DonePlaceOK DEF MadeDone, At, IsNew
<1>2. p.node \in Nodes /\ p.node # None /\ p.node \notin fresh
  BY <1>1, Distinct DEF PlaceOK, NodeOK, SeenBy
<1>3. /\ Moves(t, q) /\ ~IsNew(q) /\ q.node = p.node /\ q.dir = p.dir /\ q.from = p.from /\ q.at = "hold"
  BY MadeMoves
<1> HIDE DEF q
<1>4. p.node \notin known /\ \A u \in Threads \ {t} : pc[u].node # p.node
  BY <1>1 DEF Inv, NewOK
<1>5. UNCHANGED panicked
  BY <1>1, <1>4 DEF Inv
<1>6. AttrOK'
  <2>1. /\ Touched(p) \in [Nodes -> Int \cup {None}]
        /\ \A n \in Nodes : Touched(p)[n] # None => n \in known
    BY DEF Touched, Invalid, Inv, AttrOK
  <2> QED
    BY <1>1, <1>2, <2>1 DEF AttrOK
<1>7. CacheOK' /\ ops' \in 0..MaxOps
  BY <1>1, MadeEntries DEF Inv
<1> HIDE DEF p
<1> QED
  BY <1>1, <1>2, <1>3, <1>4, <1>5, <1>6, <1>7, Quiet DEF SeenBy, p

\* coda_symlink looks its new file up.
LEMMA SymlinkLooks ==
  ASSUME Inv, NEW t \in Threads, SymlinkDone(t)
  PROVE  \E q \in Places :
           /\ Moves(t, q) /\ PlaceOK(q) /\ ~IsNew(q) /\ q.from = pc[t].from
           /\ q.op = "symlinked" /\ q.dir = pc[t].dir /\ q.name = pc[t].name /\ q.name \in Names
           /\ q.at \in {"lookup", "child", "has"} /\ q.node \in known \cup {None}
           /\ q.at = "lookup" => Cached(q.dir, q.name) = {} /\ q.node = None
           /\ q.at # "lookup" => \E e \in Cached(q.dir, q.name) : e.node = q.node
<1> DEFINE p == pc[t]
           r == [p EXCEPT !.op = "symlinked"]
<1>1. /\ p.op = "symlink" /\ PlaceOK(p) /\ p \in Places /\ SeenBy(p) /\ p.dir \in Dirs
      /\ p.name \in Names /\ p.node = None /\ ~IsNew(p) /\ p.at = "done" /\ p.from = Source
      /\ coda_lookup(t, r, use)
  BY DonePlaceOK DEF SymlinkDone, At, IsNew, PlaceOK, FromOK
<1>2. /\ r \in Places /\ r.op = "symlinked" /\ r.dir = p.dir /\ r.name = p.name /\ r.node = p.node
      /\ r.from = p.from
  BY <1>1 DEF Places, Operations
<1> HIDE DEF p, r
<1>3. \A n \in Nodes : lock[n] = t <=> n = p.dir
  <2>1. \A n \in Nodes : n \in Held(p) <=> n = p.dir
    BY <1>1, Distinct DEF Held
  <2> QED
    BY <2>1 DEF Inv, LockOK, p
<1>4. /\ lock \in [Nodes -> Threads \cup {None}] /\ CacheOK /\ use \in [Nodes -> Nat]
      /\ r.name # CtlName /\ r.name # DotDot /\ r.op \notin {"up", "mkdirup"}
  BY <1>1, <1>2, Distinct DEF Inv, LockOK, UseOK
<1>5. /\ r.dir \in Dirs /\ r.name \in Names \cup {CtlName, DotDot} /\ r.node = None
      /\ r.name = DotDot <=> r.op \in {"up", "mkdirup"}
      /\ lock[r.dir] \in {t, None} /\ \A n \in Nodes : lock[n] = t => n = r.dir /\ r.name # DotDot
  BY <1>1, <1>2, <1>3, <1>4, Distinct
<1>6. PICK q \in Places :
        /\ pc' = [pc EXCEPT ![t] = q] /\ Looked(r, q)
        /\ lock' \in [Nodes -> Threads \cup {None}]
        /\ \A n \in Nodes : lock'[n] = t <=> n \in Held(q)
        /\ \A n \in Nodes, u \in Threads \ {t} : lock'[n] = u <=> lock[n] = u
        /\ use' = IF q.at = "lookup" THEN use ELSE [use EXCEPT ![q.node] = @ + 1]
  BY <1>1, <1>2, <1>4, <1>5, LookupGets
<1>7. Brings(r.op, r.dir, r.name, r.from) /\ r.op \in Operations
  BY <1>1, <1>2, <1>4, <1>5 DEF Brings, Operations
<1>8. /\ PlaceOK(q) /\ ~IsNew(q)
      /\ q.op = r.op /\ q.dir = r.dir /\ q.name = r.name /\ q.from = r.from
      /\ q.at \in {"lookup", "child", "has", "relock"}
      /\ q.node \in known \cup {None} /\ (q.at = "lookup" <=> q.node = None) /\ q.node # r.dir
  BY <1>5, <1>6, <1>7, LookedOK
<1>9. q.at # "relock"
  BY <1>2, <1>8 DEF PlaceOK, OpOK
<1>10. q.node \in Nodes \cup {None} /\ None \notin Nodes
  BY <1>8, Distinct DEF Inv, KnownOK
<1>11. /\ use' \in [Nodes -> Int]
       /\ \A m \in Nodes : use'[m] = use[m] + Is(q.node, m)
  BY <1>4, <1>6, <1>8, <1>10 DEF Is
<1>12. ASSUME NEW m \in Nodes PROVE use'[m] = use[m] - Num(p, m) + Num(q, m)
  <2>1. Ref(q, "node") = q.node
    BY <1>8, RefIs
  <2>2. Num(q, m) = Is(p.dir, m) + Is(q.node, m) + Is(p.from.dir, m) + Is(p.from.node, m)
    BY <1>2, <1>8, <2>1, RefIs DEF Num
  <2>3. Num(p, m) = Is(p.dir, m) + Is(None, m) + Is(p.from.dir, m) + Is(p.from.node, m) /\ Is(None, m) = 0
    BY <1>1, <1>10, RefIs DEF Num, Is
  <2>4. /\ Is(p.dir, m) \in Nat /\ Is(q.node, m) \in Nat /\ Is(p.from.dir, m) \in Nat
        /\ Is(p.from.node, m) \in Nat /\ use[m] \in Nat
    BY <1>4 DEF Is
  <2> QED
    BY <1>11, <2>2, <2>3, <2>4
<1>13. Moves(t, q)
  BY <1>6, <1>8, <1>11, <1>12 DEF Moves, p
<1>14. /\ q.at = "lookup" => Cached(q.dir, q.name) = {} /\ q.node = None
       /\ q.at # "lookup" => \E e \in Cached(q.dir, q.name) : e.node = q.node
  BY <1>4, <1>6, <1>8 DEF Looked, Reached
<1> QED
  BY <1>1, <1>2, <1>8, <1>9, <1>13, <1>14 DEF p

LEMMA SymlinkDoneInv == ASSUME Inv, NEW t \in Threads, SymlinkDone(t) PROVE Inv'
<1>1. PICK q \in Places :
        /\ Moves(t, q) /\ ~IsNew(q) /\ q.from = pc[t].from /\ q.dir = pc[t].dir
        /\ q.node \in known \cup {None}
  BY SymlinkLooks
<1>2. UNCHANGED <<cache, known, tree, fresh, panicked, ops>> /\ \E D : attr' = Invalid(D)
  BY DEF SymlinkDone, Touched
<1>3. CacheOK' /\ AttrOK' /\ ops' \in 0..MaxOps
  BY <1>2, DataLess DEF Inv
<1>4. SeenBy(pc[t])
  BY DEF Inv, SeenOK
<1> QED
  BY <1>1, <1>2, <1>3, <1>4, Onward DEF SeenBy
-----------------------------------------------------------------------------
(* Steps of no thread.                                                     *)

LEMMA Still ==
  ASSUME Inv, UNCHANGED <<lock, use, pc, known, panicked, ops>>, fresh' \subseteq fresh,
         CacheOK', AttrOK', TreeOK', NewOK'
  PROVE  Inv'
<1>1. ThreadsOK' /\ LockOK' /\ UseOK'
  BY DEF Inv, ThreadsOK, LockOK, UseOK, Users, Ref, IsNew, Held
<1>2. SeenOK'
  BY DEF Inv, SeenOK, SeenBy, IsNew
<1>3. KnownOK'
  BY DEF Inv, KnownOK
<1> QED
  BY <1>1, <1>2, <1>3 DEF Inv

LEMMA ElsewhereInv == ASSUME Inv, NEW d \in Dirs, NEW n \in Names, Elsewhere(d, n) PROVE Inv'
<1>1. PICK g \in (fresh \cap Files) \cup {None} :
        tree' = [tree EXCEPT ![d][n] = g] /\ fresh' = fresh \ {g}
  BY DEF Elsewhere
<1>2. /\ tree[d][n] \in Files /\ cache' \subseteq cache
      /\ attr' = [Off({d}, tree[d][n], -1) EXCEPT ![d] = IF d \in known THEN None ELSE @]
      /\ UNCHANGED <<lock, use, pc, known, panicked, ops>>
  BY DEF Elsewhere
<1>3. d \notin fresh /\ tree[d][n] # None /\ None \notin fresh /\ g # d
  BY <1>1, <1>2, Distinct DEF Inv, TreeOK, KnownOK
<1>4. /\ tree' \in [Dirs -> [Names -> Dirs \cup Files \cup {None}]]
      /\ \A e \in Dirs, m \in Names : tree'[e][m] # None =>
           \/ tree'[e][m] = tree[e][m]
           \/ e = d /\ tree'[e][m] = g /\ g \in fresh
  BY <1>1, <1>2 DEF Inv, TreeOK
<1>5. TreeOK'
  <2>1. \A e \in Dirs, m \in Names : tree[e][m] # None =>
          e \notin fresh /\ tree[e][m] \notin fresh /\ tree[e][m] # e
    BY DEF Inv, TreeOK
  <2>2. \A e \in Dirs, m \in Names : tree'[e][m] # None =>
          e \notin fresh' /\ tree'[e][m] \notin fresh' /\ tree'[e][m] # e
    BY <1>1, <1>3, <1>4, <2>1
  <2> QED
    BY <1>4, <2>2 DEF TreeOK
<1>6. NewOK'
  <2>1. ASSUME NEW t \in Threads, IsNew(pc[t])
        PROVE  \A e \in Dirs, m \in Names : tree'[e][m] # None =>
                  (tree'[e][m] = pc[t].node => e = pc[t].dir) /\ e # pc[t].node
    <3>1. \A e \in Dirs, m \in Names : tree[e][m] # None =>
            (tree[e][m] = pc[t].node => e = pc[t].dir) /\ e # pc[t].node
      BY <2>1 DEF Inv, NewOK
    <3>2. pc[t].node \notin fresh
      BY DEF Inv, SeenOK, SeenBy
    <3> QED
      BY <1>2, <1>3, <1>4, <3>1, <3>2
  <2> QED
    BY <1>2, <2>1 DEF NewOK, Inv, IsNew
<1>7. AttrOK'
  <2>1. /\ Off({d}, tree[d][n], -1) \in [Nodes -> Int \cup {None}]
        /\ \A m \in Nodes : Off({d}, tree[d][n], -1)[m] # None => m \in known
    BY DEF Off, Inv, AttrOK
  <2> HIDE DEF Off
  <2> QED
    BY <1>2, <2>1 DEF AttrOK
<1>8. CacheOK'
  BY <1>2, DataLess
<1> QED
  BY <1>1, <1>2, <1>5, <1>6, <1>7, <1>8, Still

LEMMA coda_getattrInv == ASSUME Inv, NEW n \in Nodes, coda_getattr(n) PROVE Inv'
<1>1. /\ n \in known /\ attr' = [attr EXCEPT ![n] = 0]
      /\ UNCHANGED <<lock, use, cache, pc, known, tree, fresh, panicked, ops>>
  BY DEF coda_getattr
<1>2. AttrOK'
  BY <1>1 DEF Inv, AttrOK
<1>3. CacheOK' /\ TreeOK' /\ NewOK'
  BY <1>1 DEF Inv, CacheOK, TreeOK, NewOK, IsNew
<1> QED
  BY <1>1, <1>2, <1>3, Still

LEMMA PurgeInv == ASSUME Inv, Purge PROVE Inv'
<1>1. cache' \subseteq cache /\ UNCHANGED <<lock, use, attr, pc, known, tree, fresh, panicked, ops>>
  BY DEF Purge
<1>2. CacheOK' /\ AttrOK'
  BY <1>1, DataLess
<1>3. TreeOK' /\ NewOK'
  BY <1>1 DEF Inv, TreeOK, NewOK, IsNew
<1> QED
  BY <1>1, <1>2, <1>3, Still

-----------------------------------------------------------------------------
(* The invariant.                                                          *)

LEMMA InvInit == Init => Inv
<1> SUFFICES ASSUME Init PROVE Inv
  OBVIOUS
<1>1. /\ lock = [n \in Nodes |-> None] /\ use = [n \in Nodes |-> 0]
      /\ cache = {} /\ attr = [n \in Nodes |-> None] /\ pc = [t \in Threads |-> Idle]
      /\ known = Linked(Tree) \cup {Root, Ctl}
      /\ tree = Tree /\ fresh = Nodes \ (Linked(Tree) \cup {Root, Ctl})
      /\ panicked = FALSE /\ ops = 0
  BY DEF Init
<1>2. ThreadsOK
  BY <1>1, IdlePlace DEF ThreadsOK
<1>3. Linked(Tree) \subseteq Nodes
  BY NamesAssumption DEF Linked, Nodes
<1>4. KnownOK
  BY <1>1, <1>3, Distinct DEF KnownOK
<1>5. SeenOK
  BY <1>1, IdlePlace, Distinct DEF SeenOK, SeenBy
<1>6. CacheOK
  BY <1>1, FS_EmptySet, NamesAssumption DEF CacheOK
<1>7. TreeOK
  <2>1. ASSUME NEW d \in Dirs, NEW n \in Names, Tree[d][n] # None
        PROVE  d \notin fresh /\ Tree[d][n] \notin fresh /\ Tree[d][n] # d
    <3>1. d \in Linked(Tree) \cup {Root}
      BY <2>1, NamesAssumption DEF IsTree
    <3>2. Tree[d][n] \in Linked(Tree)
      BY <2>1 DEF Linked
    <3>3. {d} \in (SUBSET Dirs) \ {{}}
      OBVIOUS
    <3>4. \E x \in {d} : \A m \in Names : Tree[x][m] \notin {d}
      BY <3>3, NamesAssumption DEF IsTree
    <3> QED
      BY <1>1, <3>1, <3>2, <3>4
  <2> QED
    BY <1>1, <2>1, NamesAssumption DEF TreeOK
<1>8. NewOK
  BY <1>1, IdlePlace DEF NewOK
<1>9. LockOK
  BY <1>1, IdlePlace, Distinct DEF LockOK
<1>10. UseOK
  <2>1. \A s \in Slots, n \in Nodes : Users(s, n) = {}
    BY <1>1, IdlePlace, RefIs, Distinct DEF Users, Slots
  <2>2. Cardinality({}) = 0
    BY FS_EmptySet
  <2>3. \A s \in Slots, n \in Nodes : Cardinality(Users(s, n)) = 0
    BY <2>1, <2>2
  <2> QED
    BY <1>1, <2>3 DEF UseOK, Slots
<1>11. AttrOK
  BY <1>1 DEF AttrOK
<1>12. ops \in 0..MaxOps
  BY <1>1, NamesAssumption
<1> QED
  BY <1>1, <1>2, <1>4, <1>5, <1>6, <1>7, <1>8, <1>9, <1>10, <1>11, <1>12 DEF Inv

LEMMA InvNext == ASSUME Inv, Calm, [Next]_vars PROVE Inv'
<1>1. ASSUME NEW t \in Threads,
             \/ Start(t) \/ StartLink(t) \/ Second(t) \/ LookupAnswer(t) \/ LookupFails(t)
             \/ Found(t) \/ NotFound(t) \/ Locked(t) \/ Return(t) \/ Walked(t) \/ Release(t)
             \/ SourceFound(t)
      PROVE  Inv'
  BY <1>1, StartInv, StartLinkInv, LookupAnswerInv, LookupFailsInv, FoundInv, NotFoundInv,
     LockedInv, ReturnInv, WalkedInv, ReleaseInv, SourceFoundInv
<1>2. ASSUME NEW t \in Threads,
             \/ coda_create(t) \/ coda_mkdir(t) \/ coda_link(t) \/ coda_remove(t)
             \/ coda_rmdir(t) \/ coda_rename(t)
      PROVE  Inv'
  BY <1>2, coda_createInv, coda_mkdirInv, coda_linkInv, coda_removeInv, coda_rmdirInv,
     coda_renameInv
<1>3. ASSUME NEW t \in Threads,
             \/ VenusDoes(t) \/ VenusRefuses(t) \/ Interrupted(t) \/ Refused(t) \/ MadeDone(t)
             \/ SymlinkDone(t) \/ LinkDone(t) \/ RemoveDone(t)
      PROVE  Inv'
  BY <1>3, VenusDoesInv, VenusRefusesInv, InterruptedInv, RefusedInv, MadeDoneInv,
     SymlinkDoneInv, LinkDoneInv, RemoveDoneInv
<1>4. CASE UNCHANGED vars
  <2>1. UNCHANGED <<lock, use, pc, known, panicked, ops>> /\ UNCHANGED <<cache, attr, tree, fresh>>
    BY <1>4 DEF vars
  <2>2. CacheOK' /\ AttrOK' /\ TreeOK' /\ NewOK'
    BY <2>1 DEF Inv, CacheOK, AttrOK, TreeOK, NewOK, IsNew
  <2> QED
    BY <2>1, <2>2, Still
<1>5. CASE \E d \in Dirs, n \in Names : Elsewhere(d, n)
  BY <1>5, ElsewhereInv
<1>6. CASE (\E n \in Nodes : coda_getattr(n)) \/ Purge
  BY <1>6, coda_getattrInv, PurgeInv
<1> QED
  BY <1>1, <1>2, <1>3, <1>4, <1>5, <1>6 DEF Next

\* The places, locks and references of threads, in every reachable state.
THEOREM NamesInvariant == Calm => (Spec => []Inv)
<1> SUFFICES ASSUME Calm PROVE Spec => []Inv
  OBVIOUS
<1>1. Inv /\ [Next]_vars => Inv'
  BY InvNext
<1> QED
  BY <1>1, InvInit, PTL DEF Spec

-----------------------------------------------------------------------------
(* What the invariant says of the properties.                              *)

LEMMA InvType == Inv => TypeOK
<1> SUFFICES ASSUME Inv PROVE TypeOK
  OBVIOUS
<1>1. lock \in [Nodes -> Threads \cup {None}] /\ use \in [Nodes -> Nat] /\ pc \in [Threads -> Places]
  BY DEF Inv, LockOK, UseOK, ThreadsOK
<1>2. /\ cache \subseteq [dir : Dirs, name : Names \cup {Dot, DotDot}, node : Nodes]
      /\ Cardinality(cache) <= CacheSize /\ attr \in [Nodes -> Int \cup {None}]
      /\ known \subseteq Nodes /\ fresh \subseteq Nodes
      /\ tree \in [Dirs -> [Names -> Dirs \cup Files \cup {None}]]
      /\ panicked \in BOOLEAN /\ ops \in 0..MaxOps
  BY DEF Inv, CacheOK, AttrOK, KnownOK, TreeOK
<1> QED
  BY <1>1, <1>2 DEF TypeOK, Places

LEMMA InvAssure == Inv => AssureRight
<1> SUFFICES ASSUME Inv, NEW t \in Threads, pc[t].at = "has"
             PROVE  LET p == pc[t]
                        mine(n) == n # None /\ lock[n] = t
                    IN /\ Holds(p) => mine(p.dir) /\ (p.node # None => mine(p.node))
                       /\ ~Holds(p) => ~mine(p.dir) /\ mine(p.node)
                       /\ p.op = "link" /\ ~Unsuitable(p) => ~mine(p.from.node)
                       /\ p.op = "rename" /\ ~Unsuitable(p) /\ p.from.dir \notin {p.dir, p.node}
                            => ~mine(p.from.dir)
  BY DEF AssureRight
<1> DEFINE p == pc[t]
<1>1. /\ p \in Places /\ PlaceOK(p) /\ ~IsNew(p) /\ p.dir \in Dirs
  BY HasPlace DEF At
<1>2. /\ p.dir \in Nodes /\ p.dir # None /\ p.node \in Nodes \cup {None} /\ None \notin Nodes
      /\ p.from.dir \in Nodes \cup {None} /\ p.from.node \in Nodes \cup {None}
  BY <1>1, PlaceFields, Distinct
<1>3. \A n \in Nodes : lock[n] = t <=> (n = p.dir /\ Holds(p)) \/ n = p.node
  BY <1>1 DEF Inv, LockOK, Held
<1> HIDE DEF p
<1>4. ~Holds(p) => p.node # None /\ p.node # p.dir
  <2>1. p.op \in Operations \cup {"none"} /\ p.at = "has"
    BY <1>1, PlaceFields DEF p
  <2>2. ~Holds(p) => p.op \in {"walk", "up", "from"}
    BY <1>1, <2>1 DEF Holds, Wanting, Operations, PlaceOK, OpOK
  <2>3. p.op \in {"walk", "up", "from"} => p.node \in Nodes
    BY <1>1, <2>1 DEF PlaceOK, NodeOK
  <2>4. p.node # None => p.node # p.dir
    BY <1>1 DEF PlaceOK, NodeOK
  <2> QED
    BY <1>2, <2>2, <2>3, <2>4
<1>5. p.op = "link" /\ ~Unsuitable(p) => p.node = None /\ p.from.node # p.dir /\ p.from.node \in Nodes
  BY <1>1, <1>2, Distinct DEF Unsuitable, PlaceOK, FromOK
<1>6. p.op = "rename" => p.from.dir = p.dir
  BY <1>1, pc[t].at = "has" DEF PlaceOK, FromOK, p
<1> QED
  BY <1>2, <1>3, <1>4, <1>5, <1>6 DEF p

LEMMA InvGiven == Inv => GivenBack
<1> SUFFICES ASSUME Inv PROVE GivenBack
  OBVIOUS
<1>1. ASSUME NEW t \in Threads, At(t, "idle") PROVE pc[t].dir = None /\ pc[t].node = None /\ pc[t].from = Source
                                                   /\ Held(pc[t]) = {} /\ pc[t].at # "found" /\ ~IsNew(pc[t])
  <2>1. PlaceOK(pc[t]) /\ pc[t].at = "idle"
    BY <1>1 DEF Inv, ThreadsOK, At
  <2> QED
    BY <2>1 DEF PlaceOK, OpOK, NameOK, FromOK, IsNew, Held
<1>2. ASSUME NEW n \in Nodes, lock[n] # None PROVE ~At(lock[n], "idle")
  <2>1. lock[n] \in Threads
    BY <1>2 DEF Inv, LockOK
  <2>2. n \in Held(pc[lock[n]])
    BY <2>1 DEF Inv, LockOK
  <2> QED
    BY <1>1, <2>1, <2>2
<1>3. ASSUME \A t \in Threads : At(t, "idle"), NEW n \in Nodes PROVE use[n] = 0
  <2>1. \A t \in Threads : pc[t].dir = None /\ pc[t].node = None /\ pc[t].from = Source
                           /\ pc[t].at # "found" /\ ~IsNew(pc[t])
    BY <1>1, <1>3
  <2>2. \A t \in Threads : /\ Ref(pc[t], "dir") = None /\ Ref(pc[t], "node") = None
                           /\ Ref(pc[t], "fromdir") = None /\ Ref(pc[t], "fromnode") = None
    BY <2>1, RefIs, IdlePlace
  <2>3. /\ Users("dir", n) = {} /\ Users("node", n) = {} /\ Users("fromdir", n) = {}
        /\ Users("fromnode", n) = {}
    BY <2>2, Distinct DEF Users
  <2>4. Cardinality({}) = 0
    BY FS_EmptySet
  <2> QED
    BY <2>3, <2>4 DEF Inv, UseOK
<1> QED
  BY <1>2, <1>3 DEF GivenBack

\* What ASSURE_LOCKED and ASSURE_UNLOCKED of coda_vnops.c assert holds whenever an operation
\* begins: a directory its operation wants is locked, one that it does not want is not.
THEOREM NamesAssureRight == Calm => (Spec => []AssureRight)
BY NamesInvariant, InvAssure, PTL

\* Every path of every operation gives back the locks and references coda_lookup took.
THEOREM NamesGivenBack == Calm => (Spec => []GivenBack)
BY NamesInvariant, InvGiven, PTL

\* Nobody has seen a file or directory before coda_create or coda_mkdir, which panic on a
\* cnode that exists for what they have made.
THEOREM NamesNewIsNew == Calm => (Spec => []NewIsNew)
<1>1. Inv => NewIsNew
  BY DEF Inv, NewIsNew
<1> QED
  BY <1>1, NamesInvariant, PTL

-----------------------------------------------------------------------------
(* Steps of a thread that find nothing new and wait for no answer: what    *)
(* the thread has found is what it had, or nothing.                        *)

Fades(p, q) ==
  \/ q.dir = None
  \/ q.dir = p.dir /\ q.name = p.name /\ q.from = p.from /\ q.node \in {p.node, None}

\* No answer comes, and what the thread is going to change is not cached.
Fading(t) ==
  \E q \in Places :
    /\ pc' = [pc EXCEPT ![t] = q] /\ Fades(pc[t], q) /\ q.at \notin {"lookup", "found", "done"}
    /\ MissingOK /\ Changing(q) => Missing(cache', q)

LEMMA IdleFading == ASSUME NEW t \in Threads, pc' = [pc EXCEPT ![t] = Idle] PROVE Fading(t)
BY IdlePlace DEF Fading, Fades, Changing

LEMMA GoFading ==
  ASSUME Inv, NEW t \in Threads, NEW s \in {"child", "relock", "has", "asked", "refused", "hold"},
         Go(t, pc[t], s), cache' \subseteq cache,
         \/ s \notin {"has", "asked"}
         \/ s = "has" /\ pc[t].at \in {"child", "relock"}
         \/ s = "has" /\ pc[t].at = "found" /\ pc[t].name # DotDot
         \/ pc[t].at = "has" /\ pc[t].name = DotDot /\ pc[t].op # "rename"
         \/ pc[t].at = "has" /\ pc[t].node = None /\ pc[t].op # "rename"
         \/ /\ pc[t].name \in Names => Lacks(cache', pc[t].dir, pc[t].name)
            /\ pc[t].op = "rename" => Lacks(cache', pc[t].from.dir, pc[t].from.name)
  PROVE  Fading(t)
<1> DEFINE p == pc[t]
           q == [p EXCEPT !.at = s]
<1>1. p \in Places /\ PlaceOK(p)
  BY DEF Inv, ThreadsOK
<1>2. /\ q \in Places /\ pc' = [pc EXCEPT ![t] = q]
      /\ q.at = s /\ q.op = p.op /\ q.dir = p.dir /\ q.name = p.name /\ q.node = p.node
      /\ q.from = p.from
  BY <1>1 DEF Go, Places
<1> HIDE DEF q
<1>3. ASSUME NEW d, NEW n, Lacks(cache, d, n) PROVE Lacks(cache', d, n)
  BY <1>3 DEF Lacks
<1>4. ASSUME MissingOK, Changing(q) PROVE Missing(cache', q)
  <2>1. CASE /\ p.name \in Names => Lacks(cache', p.dir, p.name)
             /\ p.op = "rename" => Lacks(cache', p.from.dir, p.from.name)
    BY <1>2, <2>1 DEF Missing
  <2>2. ASSUME Changing(p), p.op # "rename" \/ s # "asked" PROVE Missing(cache', q)
    <3>1. p.name \in Names => Lacks(cache', p.dir, p.name)
      BY <1>3, <1>4, <2>2 DEF MissingOK, Missing
    <3>2. ~(q.op = "rename" /\ q.at \in {"asked", "done"})
      BY <1>2, <2>2
    <3> QED
      BY <1>2, <3>1, <3>2 DEF Missing
  <2>3. ASSUME p.name = DotDot, p.op # "rename" PROVE Missing(cache', q)
    BY <1>2, <2>3, Distinct DEF Missing
  <2>4. CASE s \notin {"has", "asked"}
    BY <1>2, <1>4, <2>4 DEF Changing
  <2>5. CASE s = "has" /\ p.at \in {"child", "relock"}
    <3>1. p.at = "child" => p.node # None
      BY <1>1, Distinct DEF PlaceOK, NodeOK
    <3>2. p.at = "relock" => p.name = DotDot
      BY <1>1 DEF PlaceOK, OpOK, NameOK
    <3> QED
      BY <1>2, <1>4, <2>5, <3>1, <3>2 DEF Changing
  <2>6. CASE p.at = "found" /\ p.name # DotDot /\ s = "has"
    BY <2>2, <2>6 DEF Changing
  <2>7. CASE p.at = "has" /\ p.name = DotDot /\ p.op # "rename"
    BY <2>3, <2>7
  <2>8. CASE p.at = "has" /\ p.node = None /\ p.op # "rename"
    <3>1. CASE p.name = DotDot
      BY <2>3, <2>8, <3>1
    <3>2. CASE p.name # DotDot
      BY <2>2, <2>8, <3>2 DEF Changing
    <3> QED
      BY <3>1, <3>2
  <2> QED
    BY <2>1, <2>4, <2>5, <2>6, <2>7, <2>8
<1> QED
  BY <1>2, <1>4 DEF Fading, Fades

LEMMA GivesFading == ASSUME NEW t \in Threads, NEW puts, NEW rels, GiveBack(t, puts, rels) PROVE Fading(t)
BY IdleFading DEF GiveBack

LEMMA LookupFailsFading == ASSUME Inv, NEW t \in Threads, LookupFails(t) PROVE Fading(t)
<1> DEFINE p == pc[t]
           q == [[p EXCEPT !.op = "up"] EXCEPT !.at = "relock"]
<1>1. CASE Go(t, [p EXCEPT !.op = "up"], "relock")
  <2>1. p \in Places
    BY DEF Inv, ThreadsOK
  <2>2. /\ q \in Places /\ pc' = [pc EXCEPT ![t] = q] /\ q.at = "relock"
        /\ q.dir = p.dir /\ q.name = p.name /\ q.from = p.from /\ q.node = p.node
    BY <1>1, <2>1 DEF Go, Places, Operations
  <2> HIDE DEF q
  <2> QED
    BY <2>2 DEF Fading, Fades, Changing
<1> QED
  BY <1>1, GivesFading DEF LookupFails

LEMMA FoundFading == ASSUME Inv, NEW t \in Threads, Found(t) PROVE Fading(t)
<1>1. PICK q \in Places : Moves(t, q) /\ Reached(pc[t], q, pc[t].node)
  BY FoundReaches
<1>2. pc[t].node # None
  BY DEF Found
<1> QED
  BY <1>1, <1>2 DEF Fading, Fades, Changing, Moves, Reached

LEMMA NotFoundFading == ASSUME Inv, NEW t \in Threads, NotFound(t) PROVE Fading(t)
<1>1. pc[t].at = "found" /\ pc[t].node = None /\ cache' = cache
  BY DEF NotFound, At
<1>2. CASE Go(t, pc[t], "relock")
  BY <1>1, <1>2, GoFading
<1>3. CASE /\ pc[t].op \in {"create", "mkdir", "symlink", "symlinked", "link", "rename"}
           /\ Go(t, pc[t], "has")
  <2>1. pc[t].name # DotDot
    BY <1>1, <1>3 DEF Inv, ThreadsOK, PlaceOK, NameOK
  <2> QED
    BY <1>1, <1>3, <2>1, GoFading
<1> QED
  BY <1>2, <1>3, GivesFading DEF NotFound

LEMMA LockedFading == ASSUME Inv, NEW t \in Threads, Locked(t) PROVE Fading(t)
<1>1. cache' = cache
  BY DEF Locked
<1>2. CASE pc[t].at = "child"
  BY <1>1, <1>2, GoFading DEF Locked, At, GotChild
<1>3. CASE pc[t].at = "relock" /\ Go(t, pc[t], "has")
  BY <1>1, <1>3, GoFading
<1> QED
  BY <1>2, <1>3, GivesFading DEF Locked, At

LEMMA WalksFading ==
  ASSUME Inv, NEW t \in Threads, Return(t) \/ Walked(t) \/ Release(t)
  PROVE  Fading(t)
<1>1. CASE Walked(t)
  BY <1>1, GoFading DEF Walked
<1> QED
  BY <1>1, GivesFading DEF Return, Release

LEMMA SourceFoundFading == ASSUME Inv, NEW t \in Threads, SourceFound(t) PROVE Fading(t)
<1> DEFINE p == pc[t]
           src == [dir |-> p.dir, name |-> p.name, node |-> p.node]
           q == [[Idle EXCEPT !.op = "rename", !.from = src] EXCEPT !.at = "second"]
<1>1. p \in Places
  BY DEF Inv, ThreadsOK
<1>2. q \in Places /\ pc' = [pc EXCEPT ![t] = q] /\ q.at = "second" /\ q.dir = None
  BY <1>1 DEF SourceFound, Go, Idle, Places, Operations
<1> HIDE DEF q
<1> QED
  BY <1>2 DEF Fading, Fades, Changing

LEMMA AsksFading ==
  ASSUME Inv, NEW t \in Threads, coda_create(t) \/ coda_mkdir(t) \/ coda_link(t)
  PROVE  Fading(t)
<1>1. pc[t].at = "has" /\ pc[t].node = None /\ pc[t].op # "rename" /\ cache' = cache
  BY DEF coda_create, coda_mkdir, coda_link, At
<1>2. CASE Go(t, pc[t], "asked")
  BY <1>1, <1>2, GoFading
<1>3. CASE pc' = [pc EXCEPT ![t] = Idle]
  BY <1>3, IdleFading
<1> QED
  BY <1>2, <1>3, GivesFading DEF coda_create, coda_mkdir, coda_link, Ask

LEMMA Forgotten ==
  ASSUME NEW d, NEW n, NEW C, C \subseteq cache \ Cached(d, n)
  PROVE  Lacks(C, d, n)
BY DEF Lacks, Cached

LEMMA RemovesFading ==
  ASSUME Inv, NEW t \in Threads, coda_remove(t) \/ coda_rmdir(t) \/ coda_rename(t)
  PROVE  Fading(t) /\ cache' \subseteq cache
<1>1. CASE coda_remove(t)
  <2>1. pc[t].op = "remove" /\ cache' \subseteq cache
    BY <1>1 DEF coda_remove, Forgets
  <2>2. CASE cache' = Forgets(pc[t].dir, pc[t].name) /\ Ask(t, pc[t])
    <3>1. Lacks(cache', pc[t].dir, pc[t].name)
      BY <2>2, Forgotten DEF Forgets
    <3> QED
      BY <2>1, <2>2, <3>1, GoFading DEF Ask
  <2> QED
    BY <1>1, <2>1, <2>2, GivesFading DEF coda_remove
<1>2. CASE coda_rmdir(t)
  <2>1. pc[t].op = "rmdir" /\ cache' \subseteq cache \ Cached(pc[t].dir, pc[t].name) /\ Ask(t, pc[t])
    BY <1>2 DEF coda_rmdir, Forgets
  <2>2. Lacks(cache', pc[t].dir, pc[t].name) /\ cache' \subseteq cache
    BY <2>1, Forgotten
  <2> QED
    BY <2>1, <2>2, GoFading DEF Ask
<1>3. CASE coda_rename(t)
  <2>1. Ask(t, pc[t]) /\ cache' = cache \ Renamed(pc[t])
    BY <1>3, RenameAsks
  <2>2. /\ cache' \subseteq cache /\ cache' \subseteq cache \ Cached(pc[t].dir, pc[t].name)
        /\ cache' \subseteq cache \ Cached(pc[t].from.dir, pc[t].from.name)
    BY <2>1 DEF Renamed
  <2>3. Lacks(cache', pc[t].dir, pc[t].name) /\ Lacks(cache', pc[t].from.dir, pc[t].from.name)
    BY <2>2, Forgotten
  <2> QED
    BY <2>1, <2>2, <2>3, GoFading DEF Ask
<1> QED
  BY <1>1, <1>2, <1>3

LEMMA InterruptedFading == ASSUME Inv, NEW t \in Threads, Interrupted(t) PROVE Fading(t)
<1> DEFINE p == pc[t]
           r == IF p.op \in {"create", "mkdir"} THEN [p EXCEPT !.node = None] ELSE p
           q == [r EXCEPT !.at = "refused"]
<1>1. p \in Places
  BY DEF Inv, ThreadsOK
<1>2. /\ q \in Places /\ pc' = [pc EXCEPT ![t] = q] /\ q.at = "refused"
      /\ q.dir = p.dir /\ q.name = p.name /\ q.from = p.from /\ q.node \in {p.node, None}
  BY <1>1 DEF Interrupted, Go, Places
<1> HIDE DEF q
<1> QED
  BY <1>2 DEF Fading, Fades, Changing

LEMMA EndsFading ==
  ASSUME Inv, NEW t \in Threads,
         VenusRefuses(t) \/ Refused(t) \/ LinkDone(t) \/ RemoveDone(t)
  PROVE  Fading(t)
<1>1. CASE VenusRefuses(t)
  BY <1>1, GoFading DEF VenusRefuses
<1>2. CASE Ended(t)
  BY <1>2, GivesFading DEF Ended
<1> QED
  BY <1>1, <1>2 DEF Refused, LinkDone, RemoveDone

LEMMA MadeDoneFading == ASSUME Inv, NEW t \in Threads, MadeDone(t) PROVE Fading(t)
<1> DEFINE q == [pc[t] EXCEPT !.at = "hold"]
<1>1. pc[t] \in Places
  BY DEF Inv, ThreadsOK
<1>2. /\ q \in Places /\ pc' = [pc EXCEPT ![t] = q] /\ q.at = "hold"
      /\ q.dir = pc[t].dir /\ q.name = pc[t].name /\ q.from = pc[t].from /\ q.node = pc[t].node
  BY <1>1 DEF MadeDone, Go, Places
<1> HIDE DEF q
<1> QED
  BY <1>2 DEF Fading, Fades, Changing

\* The steps that fade without entering anything in the name cache, or invalidate the attributes.
Quietly(t) ==
  \/ LookupFails(t) \/ NotFound(t) \/ Locked(t) \/ Return(t) \/ Walked(t) \/ Release(t)
  \/ SourceFound(t) \/ coda_create(t) \/ coda_mkdir(t) \/ coda_link(t) \/ coda_remove(t)
  \/ coda_rmdir(t) \/ coda_rename(t) \/ VenusRefuses(t) \/ Interrupted(t) \/ Refused(t)
  \/ LinkDone(t) \/ RemoveDone(t)

LEMMA QuietlyFading ==
  ASSUME Inv, NEW t \in Threads, Quietly(t)
  PROVE  Fading(t) /\ cache' \subseteq cache /\ UNCHANGED <<tree, known, fresh>>
<1>1. CASE coda_remove(t) \/ coda_rmdir(t) \/ coda_rename(t)
  BY <1>1, RemovesFading DEF coda_remove, coda_rmdir, coda_rename
<1>2. CASE LookupFails(t) \/ NotFound(t) \/ Locked(t) \/ Return(t) \/ Walked(t) \/ Release(t)
           \/ SourceFound(t)
  <2>1. Fading(t)
    BY <1>2, LookupFailsFading, NotFoundFading, LockedFading, WalksFading, SourceFoundFading
  <2>2. UNCHANGED <<cache, tree, known, fresh>>
    BY <1>2 DEF LookupFails, NotFound, Locked, Return, Walked, Release, SourceFound
  <2> QED
    BY <2>1, <2>2
<1>3. CASE coda_create(t) \/ coda_mkdir(t) \/ coda_link(t)
  BY <1>3, AsksFading DEF coda_create, coda_mkdir, coda_link
<1>4. CASE VenusRefuses(t) \/ Interrupted(t) \/ Refused(t) \/ LinkDone(t) \/ RemoveDone(t)
  <2>1. Fading(t)
    BY <1>4, EndsFading, InterruptedFading
  <2>2. UNCHANGED <<cache, tree, known, fresh>>
    BY <1>4 DEF VenusRefuses, Interrupted, Refused, LinkDone, RemoveDone
  <2> QED
    BY <2>1, <2>2
<1> QED
  BY <1>1, <1>2, <1>3, <1>4 DEF Quietly

-----------------------------------------------------------------------------
(* Who is above whom.                                                      *)

LEMMA OrderLess ==
  ASSUME OrderOK, \A x, y \in Dirs : Above(x, y)' => Above(x, y)
  PROVE  OrderOK'
<1>1. ASSUME NEW X \in (SUBSET Dirs) \ {{}} PROVE \E x \in X : \A y \in X : ~Above(x, y)'
  <2>1. \E x \in X : \A y \in X : ~Above(x, y)
    BY DEF OrderOK
  <2> QED
    BY <2>1
<1> QED
  BY <1>1 DEF OrderOK

\* A directory with nothing under it is under another.
LEMMA OrderMore ==
  ASSUME OrderOK, NEW g, \A x, y \in Dirs : Above(x, y)' => Above(x, y) \/ y = g,
         \A y \in Dirs : ~Above(g, y)'
  PROVE  OrderOK'
<1>1. ASSUME NEW X \in (SUBSET Dirs) \ {{}} PROVE \E x \in X : \A y \in X : ~Above(x, y)'
  <2>1. CASE g \in X
    BY <2>1
  <2>2. CASE g \notin X
    <3>1. \E x \in X : \A y \in X : ~Above(x, y)
      BY DEF OrderOK
    <3> QED
      BY <2>2, <3>1
  <2> QED
    BY <2>1, <2>2
<1> QED
  BY <1>1 DEF OrderOK

\* What a thread at p says.
SaysAt(p, x, y) == Says(p.dir, p.name, p.node, x, y)

LEMMA EdgesMove ==
  ASSUME pc \in [Threads -> Places], NEW t \in Threads, NEW q, pc' = [pc EXCEPT ![t] = q],
         NEW x, NEW y, ThreadEdge(x, y)'
  PROVE  ThreadEdge(x, y) \/ SaysAt(q, x, y)
<1>1. PICK u \in Threads : Says(pc'[u].dir, pc'[u].name, pc'[u].node, x, y)
  BY DEF ThreadEdge, Says
<1>2. CASE u = t
  BY <1>1, <1>2 DEF SaysAt
<1>3. CASE u # t
  BY <1>1, <1>3 DEF ThreadEdge
<1> QED
  BY <1>2, <1>3

LEMMA ThreadOrder ==
  ASSUME OrderOK, pc \in [Threads -> Places], NEW t \in Threads, NEW q, pc' = [pc EXCEPT ![t] = q],
         UNCHANGED tree,
         \A x, y \in Dirs : SaysAt(q, x, y) => Above(x, y),
         \A e \in cache' : \/ e \in cache
                           \/ \A x, y \in Dirs : Says(e.dir, e.name, e.node, x, y) => Above(x, y)
  PROVE  OrderOK'
<1>1. ASSUME NEW x \in Dirs, NEW y \in Dirs, Above(x, y)' PROVE Above(x, y)
  <2>1. CASE TreeEdge(x, y)'
    BY <2>1 DEF TreeEdge, Above
  <2>2. CASE CacheEdge(x, y)'
    <3>1. PICK e \in cache' : Says(e.dir, e.name, e.node, x, y)
      BY <2>2 DEF CacheEdge, Says
    <3> QED
      BY <3>1 DEF CacheEdge, Above
  <2>3. CASE ThreadEdge(x, y)'
    BY <2>3, EdgesMove DEF Above
  <2> QED
    BY <1>1, <2>1, <2>2, <2>3 DEF Above
<1> QED
  BY <1>1, OrderLess

LEMMA FadesSays ==
  ASSUME NEW p, NEW q, Fades(p, q), NEW x \in Dirs, NEW y \in Dirs, SaysAt(q, x, y)
  PROVE  SaysAt(p, x, y)
BY Distinct DEF SaysAt, Says, Fades

LEMMA FadingOrder ==
  ASSUME Inv, OrderOK, NEW t \in Threads, Fading(t), UNCHANGED tree,
         \A e \in cache' : \/ e \in cache
                           \/ \A x, y \in Dirs : Says(e.dir, e.name, e.node, x, y) => Above(x, y)
  PROVE  OrderOK'
<1>1. PICK q \in Places : pc' = [pc EXCEPT ![t] = q] /\ Fades(pc[t], q)
  BY DEF Fading
<1>2. \A x, y \in Dirs : SaysAt(q, x, y) => Above(x, y)
  BY <1>1, FadesSays DEF SaysAt, Above, ThreadEdge
<1> QED
  BY <1>1, <1>2, ThreadOrder DEF Inv, ThreadsOK

LEMMA CallOrder ==
  ASSUME Inv, OrderOK, Calm, NEW t \in Threads, Start(t) \/ Second(t)
  PROVE  OrderOK'
<1>1. /\ At(t, "idle") \/ At(t, "second")
      /\ UNCHANGED <<cache, tree>>
      /\ \E op \in Operations, d \in known \cap Dirs, n \in Names \cup {CtlName, DotDot} :
           Brings(op, d, n, pc[t].from) /\ Call(t, op, d, n, pc[t].from)
  BY StartCalls
<1>2. PICK op \in Operations, d \in known \cap Dirs, n \in Names \cup {CtlName, DotDot} :
        Brings(op, d, n, pc[t].from) /\ Call(t, op, d, n, pc[t].from)
  BY <1>1
<1>3. PICK q \in Places : Moves(t, q) /\ Looked(Path(op, d, n, pc[t].from), q)
  BY <1>1, <1>2, CallLooks
<1>4. /\ q.dir = d /\ q.name = n
      /\ \/ q.node = None
         \/ n = CtlName
         \/ \E e \in Cached(d, n) : q.node = e.node
  BY <1>3 DEF Looked, Reached, Path
<1>5. ASSUME NEW x \in Dirs, NEW y \in Dirs, SaysAt(q, x, y) PROVE Above(x, y)
  <2>1. q.node # None /\ n # CtlName
    BY <1>4, <1>5, Distinct DEF SaysAt, Says
  <2>2. PICK e \in Cached(d, n) : q.node = e.node
    BY <1>4, <2>1
  <2>3. e \in cache /\ Says(e.dir, e.name, e.node, x, y)
    BY <1>4, <1>5, <2>2 DEF Cached, SaysAt
  <2> QED
    BY <2>3 DEF Above, CacheEdge
<1> QED
  BY <1>1, <1>3, <1>5, ThreadOrder DEF Moves, Inv, ThreadsOK

LEMMA SymlinkOrder == ASSUME Inv, OrderOK, NEW t \in Threads, SymlinkDone(t) PROVE OrderOK'
<1>1. PICK q \in Places :
        /\ Moves(t, q)
        /\ q.at = "lookup" => Cached(q.dir, q.name) = {} /\ q.node = None
        /\ q.at # "lookup" => \E e \in Cached(q.dir, q.name) : e.node = q.node
  BY SymlinkLooks
<1>2. ASSUME NEW x \in Dirs, NEW y \in Dirs, SaysAt(q, x, y) PROVE Above(x, y)
  <2>1. q.node # None
    BY <1>2, Distinct DEF SaysAt, Says
  <2>2. PICK e \in Cached(q.dir, q.name) : e.node = q.node
    BY <1>1, <2>1
  <2>3. e \in cache /\ Says(e.dir, e.name, e.node, x, y)
    BY <1>2, <2>2 DEF Cached, SaysAt
  <2> QED
    BY <2>3 DEF Above, CacheEdge
<1>3. UNCHANGED <<cache, tree>>
  BY DEF SymlinkDone
<1> QED
  BY <1>1, <1>2, <1>3, ThreadOrder DEF Moves, Inv, ThreadsOK

LEMMA StartLinkOrder == ASSUME Inv, OrderOK, NEW t \in Threads, StartLink(t) PROVE OrderOK'
<1>1. PICK s \in known \cap (Files \cup {Ctl}) :
       Go(t, [Idle EXCEPT !.op = "link", !.from = [Source EXCEPT !.node = s]], "second")
  BY DEF StartLink
<1> DEFINE q == [[Idle EXCEPT !.op = "link", !.from = [Source EXCEPT !.node = s]] EXCEPT !.at = "second"]
<1>2. pc' = [pc EXCEPT ![t] = q] /\ q.dir = None /\ q.node = None /\ UNCHANGED <<cache, tree>>
  BY <1>1 DEF Go, Idle, StartLink
<1> HIDE DEF q
<1>3. \A x, y \in Dirs : ~SaysAt(q, x, y)
  BY <1>2, Distinct DEF SaysAt, Says
<1> QED
  BY <1>2, <1>3, ThreadOrder DEF Inv, ThreadsOK

\* The answer to a lookup as a place.
LEMMA AnswerPlace ==
  ASSUME Inv, NEW t \in Threads, LookupAnswer(t)
  PROVE  \E q \in Places :
           /\ pc' = [pc EXCEPT ![t] = q] /\ q.at = "found" /\ q.op = pc[t].op /\ q.dir = pc[t].dir
           /\ q.name = pc[t].name /\ q.from = pc[t].from /\ q.node = Binding(q.dir, q.name)
           /\ pc[t].at = "lookup" /\ q.dir \in Dirs /\ q.name \in Names \cup {DotDot}
           /\ UNCHANGED <<cache, tree, known, fresh>>
<1> DEFINE p == pc[t]
           b == Binding(p.dir, p.name)
           q == [[p EXCEPT !.node = b] EXCEPT !.at = "found"]
<1>1. p \in Places /\ PlaceOK(p) /\ p.at = "lookup"
  BY DEF Inv, ThreadsOK, LookupAnswer, At
<1>2. p.dir \in Dirs /\ p.name \in Names \cup {DotDot}
  BY <1>1, Distinct DEF PlaceOK, NameOK, NodeOK
<1>3. b \in Nodes \cup {None}
  BY <1>2, BindingIs, Distinct DEF Inv
<1>4. pc' = [pc EXCEPT ![t] = q] /\ UNCHANGED <<cache, tree, known, fresh>>
  BY DEF LookupAnswer, Go
<1> HIDE DEF b
<1>5. /\ q \in Places /\ q.at = "found" /\ q.op = p.op /\ q.dir = p.dir /\ q.name = p.name
      /\ q.node = b /\ q.from = p.from
  BY <1>1, <1>3 DEF Places
<1> HIDE DEF q
<1> QED
  BY <1>1, <1>2, <1>4, <1>5 DEF b

LEMMA LookupAnswerOrder == ASSUME Inv, OrderOK, NEW t \in Threads, LookupAnswer(t) PROVE OrderOK'
<1>1. PICK q \in Places :
        /\ pc' = [pc EXCEPT ![t] = q] /\ q.node = Binding(q.dir, q.name)
        /\ q.dir \in Dirs /\ q.name \in Names \cup {DotDot} /\ UNCHANGED <<cache, tree>>
  BY AnswerPlace
<1>2. ASSUME NEW x \in Dirs, NEW y \in Dirs, SaysAt(q, x, y) PROVE Above(x, y)
  <2>1. TreeOK /\ q.node # None
    BY <1>2, Distinct DEF Inv, SaysAt, Says
  <2>2. CASE q.name \in Names
    <3>1. q.node = tree[q.dir][q.name] /\ x = q.dir /\ y = q.node
      BY <1>1, <1>2, <2>1, <2>2, BindingIs, Distinct DEF SaysAt, Says
    <3> QED
      BY <2>2, <3>1 DEF Above, TreeEdge
  <2>3. CASE q.name = DotDot
    <3>1. x = q.node /\ y = q.dir
      BY <1>2, <2>3, Distinct DEF SaysAt, Says
    <3>2. \E m \in Names : tree[q.node][m] = q.dir
      BY <1>1, <2>1, <2>3, BindingIs
    <3> QED
      BY <3>1, <3>2 DEF Above, TreeEdge
  <2> QED
    BY <1>1, <2>2, <2>3
<1> QED
  BY <1>1, <1>2, ThreadOrder DEF Inv, ThreadsOK

LEMMA FoundOrder == ASSUME Inv, OrderOK, NEW t \in Threads, Found(t) PROVE OrderOK'
<1>1. /\ UNCHANGED tree
      /\ cache' \subseteq cache \cup {Entry(pc[t].dir, pc[t].name, pc[t].node)}
  BY EnteredOK DEF Found, Inv, CacheOK
<1>2. \A x, y \in Dirs : Says(pc[t].dir, pc[t].name, pc[t].node, x, y) => Above(x, y)
  BY DEF Above, ThreadEdge
<1> QED
  BY <1>1, <1>2, FoundFading, FadingOrder DEF Entry

LEMMA MadeDoneOrder == ASSUME Inv, OrderOK, NEW t \in Threads, MadeDone(t) PROVE OrderOK'
<1> DEFINE p == pc[t]
<1>1. /\ UNCHANGED tree /\ p.name \in Names /\ p.dir \in Dirs
  BY DonePlaceOK DEF MadeDone
<1>2. \A x, y \in Dirs : Says(p.dir, p.name, p.node, x, y) => Above(x, y)
  BY DEF Above, ThreadEdge
<1>3. \A x, y \in Dirs : Says(p.node, DotDot, p.dir, x, y) => Above(x, y)
  BY <1>1, <1>2, Distinct DEF Says
<1>4. \A x, y \in Dirs : ~Says(p.node, Dot, p.node, x, y)
  BY Distinct DEF Says
<1>5. \A e \in cache' : \/ e \in cache
                        \/ e = Entry(p.dir, p.name, p.node)
                        \/ e = Entry(p.node, Dot, p.node) \/ e = Entry(p.node, DotDot, p.dir)
  BY MadeEntries
<1>6. /\ \A d, n, c : Entry(d, n, c).dir = d /\ Entry(d, n, c).name = n /\ Entry(d, n, c).node = c
  BY DEF Entry
<1> HIDE DEF p
<1>7. \A e \in cache' : \/ e \in cache
                        \/ \A x, y \in Dirs : Says(e.dir, e.name, e.node, x, y) => Above(x, y)
  BY <1>2, <1>3, <1>4, <1>5, <1>6
<1> QED
  BY <1>1, <1>7, MadeDoneFading, FadingOrder

-----------------------------------------------------------------------------
(* What Venus does for a thread at p, which is at q then.                  *)

Makes(p, q, g) ==
  /\ p.op \in {"create", "mkdir", "symlink"} /\ g \in fresh /\ fresh' = fresh \ {g}
  /\ g \in (IF p.op = "mkdir" THEN Dirs ELSE Files)
  /\ tree[p.dir][p.name] = None /\ tree' = [tree EXCEPT ![p.dir][p.name] = g]
  /\ q.node = IF p.op = "symlink" THEN None ELSE g
  /\ attr' = Off({p.dir}, None, 0)
LinksTo(p, q) ==
  /\ p.op = "link" /\ p.from.node \in Files /\ UNCHANGED fresh /\ Alive(p.from.node)
  /\ tree[p.dir][p.name] = None /\ tree' = [tree EXCEPT ![p.dir][p.name] = p.from.node]
  /\ q.node = None
  /\ attr' = Off({p.dir}, p.from.node, 1)
Empties(p, q) ==
  /\ p.op \in {"remove", "rmdir"} /\ UNCHANGED fresh
  /\ (tree[p.dir][p.name] \in Dirs) = (p.op = "rmdir")
  /\ tree[p.dir][p.name] \in Dirs => \A n \in Names : tree[tree[p.dir][p.name]][n] = None
  /\ tree[p.dir][p.name] # None /\ tree' = [tree EXCEPT ![p.dir][p.name] = None]
  /\ q.node = p.node
  /\ attr' = Off({p.dir}, tree[p.dir][p.name], -1)
\* A rename within a directory.
Renames(p, q) ==
  LET moved == tree[p.dir][p.from.name]
      there == tree[p.dir][p.name]
  IN /\ p.op = "rename" /\ p.from.dir = p.dir /\ p.from.name \in Names /\ UNCHANGED fresh
     /\ moved # None /\ moved # there /\ (there # None => (there \in Dirs) = (moved \in Dirs))
     /\ there \in Dirs => \A n \in Names : tree[there][n] = None
     /\ tree' = [[tree EXCEPT ![p.dir][p.from.name] = None] EXCEPT ![p.dir][p.name] = moved]
     /\ q.node = p.node
     /\ attr' = Off({p.dir}, there, -1)

LEMMA Does ==
  ASSUME Inv, NEW t \in Threads, VenusDoes(t)
  PROVE  \E q \in Places :
           /\ Moves(t, q) /\ pc' = [pc EXCEPT ![t] = q] /\ pc[t].at = "asked" /\ q.at = "done"
           /\ q.op = pc[t].op /\ q.dir = pc[t].dir /\ q.name = pc[t].name /\ q.from = pc[t].from
           /\ q.dir \in Dirs /\ q.dir \in known /\ q.name \in Names
           /\ UNCHANGED <<cache, known>>
           /\ \/ \E g \in fresh : Makes(pc[t], q, g)
              \/ LinksTo(pc[t], q) \/ Empties(pc[t], q) \/ Renames(pc[t], q)
<1> DEFINE p == pc[t]
<1>1. /\ PlaceOK(p) /\ p \in Places /\ p.at = "asked" /\ ~IsNew(p) /\ SeenBy(p)
      /\ p.dir \in Dirs /\ p.dir \in known /\ p.name \in Names \cup {DotDot}
      /\ p.name = DotDot <=> p.op = "mkdirup"
      /\ p.op \in Asking
      /\ p.op \notin {"remove", "rmdir", "rename"} => p.node = None
  BY AskedPlace DEF VenusDoes
<1>2. At(t, "asked") /\ UNCHANGED <<lock, use, cache, known>> /\ fresh \subseteq Nodes /\ p.dir \notin fresh
  BY <1>1 DEF VenusDoes, Inv, KnownOK
<1>3. ASSUME NEW g,
             \/ g = p.node /\ p.op \in {"symlink", "link", "remove", "rmdir", "rename"}
             \/ /\ p.op \in {"create", "mkdir"} /\ g \in Nodes /\ g # p.dir
                /\ p.op = "mkdir" => g \in Dirs,
             pc' = [pc EXCEPT ![t] = DonePlace(p, g)],
             p.name \in Names
      PROVE  \E q \in Places :
               /\ Moves(t, q) /\ pc' = [pc EXCEPT ![t] = q] /\ q.at = "done" /\ q = DonePlace(p, g)
               /\ q.op = p.op /\ q.dir = p.dir /\ q.name = p.name /\ q.from = p.from /\ q.node = g
  <2> HIDE DEF p
  <2>1. LET q == DonePlace(p, g)
        IN /\ Moves(t, q) /\ q.dir = p.dir /\ q.from = p.from /\ q.at = "done"
           /\ q.node = g /\ q.op = p.op /\ q.name = p.name
    BY <1>2, <1>3, DoneMoves DEF p
  <2>2. DonePlace(p, g) \in Places
    BY <2>1 DEF Moves
  <2> QED
    BY <1>3, <2>1, <2>2
<1>4. CASE Made(t)
  <2>1. ASSUME p.op \in {"create", "mkdir", "symlink", "mkdirup"},
             NEW g \in fresh \cap (IF p.op = "mkdir" THEN Dirs ELSE Files),
             Make(p, g), fresh' = fresh \ {g},
             Go(t, IF p.op = "symlink" THEN p ELSE [p EXCEPT !.node = g], "done"),
             attr' = Off({p.dir}, None, 0)
        PROVE \E q \in Places :
               /\ Moves(t, q) /\ pc' = [pc EXCEPT ![t] = q] /\ q.at = "done"
               /\ q.op = p.op /\ q.dir = p.dir /\ q.name = p.name /\ q.from = p.from
               /\ p.name \in Names /\ Makes(p, q, g)
    <3>1. /\ p.name \in Names /\ p.op # "mkdirup"
          /\ tree[p.dir][p.name] = None /\ tree' = [tree EXCEPT ![p.dir][p.name] = g]
      BY <1>1, <2>1, Distinct DEF Make
    <3> DEFINE h == IF p.op = "symlink" THEN None ELSE g
    <3>2. pc' = [pc EXCEPT ![t] = DonePlace(p, h)]
      <4>1. CASE p.op = "symlink"
        <5>1. p.node = None /\ Go(t, p, "done")
          BY <1>1, <2>1, <4>1
        <5> QED
          BY <1>1, <4>1, <5>1, SameDone
      <4>2. CASE p.op # "symlink"
        BY <2>1, <4>2 DEF Go, DonePlace
      <4> QED
        BY <4>1, <4>2
    <3>3. \/ h = p.node /\ p.op = "symlink"
          \/ /\ p.op \in {"create", "mkdir"} /\ h \in Nodes /\ h # p.dir
             /\ p.op = "mkdir" => h \in Dirs
      BY <1>1, <1>2, <2>1, <3>1
    <3> HIDE DEF p, h
    <3>4. PICK q \in Places :
               /\ Moves(t, q) /\ pc' = [pc EXCEPT ![t] = q] /\ q.at = "done"
               /\ q.op = p.op /\ q.dir = p.dir /\ q.name = p.name /\ q.from = p.from /\ q.node = h
      BY <1>3, <3>1, <3>2, <3>3
    <3>5. Makes(p, q, g)
      BY <2>1, <3>1, <3>4 DEF Makes, h
    <3> QED
      BY <3>1, <3>4, <3>5
  <2>2. ASSUME p.op = "link", Make(p, p.from.node), Go(t, p, "done"), Alive(p.from.node),
             attr' = Off({p.dir}, p.from.node, 1), UNCHANGED fresh
        PROVE \E q \in Places :
               /\ Moves(t, q) /\ pc' = [pc EXCEPT ![t] = q] /\ q.at = "done"
               /\ q.op = p.op /\ q.dir = p.dir /\ q.name = p.name /\ q.from = p.from
               /\ p.name \in Names /\ LinksTo(p, q)
    <3>1. /\ p.name \in Names /\ p.node = None /\ p.from.node \in Files
          /\ tree[p.dir][p.name] = None /\ tree' = [tree EXCEPT ![p.dir][p.name] = p.from.node]
      BY <1>1, <2>2 DEF Make, PlaceOK, FromOK
    <3>2. pc' = [pc EXCEPT ![t] = DonePlace(p, p.node)]
      BY <1>1, <2>2, SameDone
    <3> HIDE DEF p
    <3>4. PICK q \in Places :
               /\ Moves(t, q) /\ pc' = [pc EXCEPT ![t] = q] /\ q.at = "done"
               /\ q.op = p.op /\ q.dir = p.dir /\ q.name = p.name /\ q.from = p.from /\ q.node = p.node
      BY <1>3, <2>2, <3>1, <3>2
    <3>5. LinksTo(p, q)
      BY <2>2, <3>1, <3>4 DEF LinksTo
    <3> QED
      BY <3>1, <3>4, <3>5
  <2> QED
    BY <1>1, <1>2, <1>4, <2>1, <2>2 DEF Made
<1>5. CASE Emptied(t)
  <2>1. /\ p.op \in {"remove", "rmdir"} /\ Go(t, p, "done") /\ p.name \in Names
    BY <1>1, <1>5 DEF Emptied
  <2>2. pc' = [pc EXCEPT ![t] = DonePlace(p, p.node)]
    BY <1>1, <2>1, SameDone
  <2>3. PICK q \in Places :
             /\ Moves(t, q) /\ pc' = [pc EXCEPT ![t] = q] /\ q.at = "done"
             /\ q.op = p.op /\ q.dir = p.dir /\ q.name = p.name /\ q.from = p.from /\ q.node = p.node
    BY <1>3, <2>1, <2>2
  <2>4. Empties(p, q)
    BY <1>5, <2>3 DEF Empties, Emptied
  <2> QED
    BY <1>1, <1>2, <2>1, <2>3, <2>4
<1>6. CASE Moved(t)
  <2>1. /\ p.op = "rename" /\ Go(t, p, "done") /\ p.name \in Names
        /\ p.from.dir = p.dir /\ p.from.name \in Names
    BY <1>1, <1>6 DEF Moved, PlaceOK, FromOK
  <2>2. pc' = [pc EXCEPT ![t] = DonePlace(p, p.node)]
    BY <1>1, <2>1, SameDone
  <2>3. PICK q \in Places :
             /\ Moves(t, q) /\ pc' = [pc EXCEPT ![t] = q] /\ q.at = "done"
             /\ q.op = p.op /\ q.dir = p.dir /\ q.name = p.name /\ q.from = p.from /\ q.node = p.node
    BY <1>3, <2>1, <2>2
  <2>4. {p.dir, p.dir} = {p.dir}
    OBVIOUS
  <2>5. Renames(p, q)
    BY <1>6, <2>1, <2>3, <2>4 DEF Renames, Moved
  <2> QED
    BY <1>1, <1>2, <2>1, <2>3, <2>5
<1> QED
  BY <1>4, <1>5, <1>6 DEF VenusDoes

LEMMA VenusDoesOrder == ASSUME Inv, OrderOK, NEW t \in Threads, VenusDoes(t) PROVE OrderOK'
<1> DEFINE p == pc[t]
<1>1. PICK q \in Places :
         /\ pc' = [pc EXCEPT ![t] = q] /\ q.dir = p.dir /\ q.name = p.name
         /\ q.dir \in Dirs /\ q.dir \in known /\ q.name \in Names /\ UNCHANGED <<cache, known>>
         /\ \/ \E g \in fresh : Makes(p, q, g)
            \/ LinksTo(p, q) \/ Empties(p, q) \/ Renames(p, q)
  BY Does
<1>2. /\ tree \in [Dirs -> [Names -> Dirs \cup Files \cup {None}]] /\ pc \in [Threads -> Places]
      /\ \A x \in Dirs, n \in Names : tree[x][n] # None => x \notin fresh
  BY DEF Inv, TreeOK, ThreadsOK
<1>3. \A x, y : CacheEdge(x, y)' <=> CacheEdge(x, y)
  BY <1>1 DEF CacheEdge, Says
<1>4. ASSUME NEW x \in Dirs, NEW y \in Dirs, ThreadEdge(x, y)' PROVE ThreadEdge(x, y) \/ (x = p.dir /\ y = q.node)
  <2>1. ThreadEdge(x, y) \/ SaysAt(q, x, y)
    BY <1>1, <1>2, <1>4, EdgesMove
  <2> QED
    BY <1>1, <2>1, Distinct DEF SaysAt, Says
<1>5. ASSUME NEW g \in fresh, Makes(p, q, g) PROVE OrderOK'
  <2>1. /\ tree' = [tree EXCEPT ![p.dir][p.name] = g] /\ q.node \in {None, g}
        /\ g \in Dirs \cup Files
    BY <1>5 DEF Makes
  <2>2. \A x, y \in Dirs : TreeEdge(x, y)' => TreeEdge(x, y) \/ (x = p.dir /\ y = g)
    BY <1>1, <1>2, <2>1 DEF TreeEdge
  <2>3. \A x, y \in Dirs : Above(x, y)' => Above(x, y) \/ y = g
    BY <1>3, <1>4, <2>1, <2>2, Distinct DEF Above
  <2>4. CASE g \in Files
    <3>1. \A y \in Dirs : y # g
      BY <2>4, Distinct
    <3> QED
      BY <2>3, <3>1, OrderLess
  <2>5. CASE g \in Dirs
    <3>1. g \notin known /\ g # None /\ g # p.dir
      BY <1>1, Distinct DEF Inv, KnownOK
    <3>2. \A y \in Dirs : ~TreeEdge(g, y)
      <4>1. g \in fresh /\ None \notin Dirs
        BY <1>5, Distinct DEF Makes
      <4>2. \A n \in Names : tree[g][n] = None
        BY <1>2, <2>5, <4>1
      <4> QED
        BY <4>1, <4>2 DEF TreeEdge
    <3>3. \A y \in Dirs : ~CacheEdge(g, y)
      BY <3>1 DEF CacheEdge, Says, Inv, CacheOK
    <3>4. \A y \in Dirs : ~ThreadEdge(g, y)
      BY <3>1, Distinct DEF ThreadEdge, Says, Inv, SeenOK, SeenBy
    <3>5. \A y \in Dirs : ~Above(g, y)'
      BY <1>3, <1>4, <2>2, <2>5, <3>1, <3>2, <3>3, <3>4 DEF Above
    <3> QED
      BY <2>3, <3>5, OrderMore
  <2> QED
    BY <2>1, <2>4, <2>5
<1>6. ASSUME \A x, y \in Dirs : TreeEdge(x, y)' => TreeEdge(x, y), q.node \in {p.node, None} PROVE OrderOK'
  <2>1. \A x, y \in Dirs : ThreadEdge(x, y)' => ThreadEdge(x, y)
    <3>1. \A x, y \in Dirs : x = p.dir /\ y = q.node => SaysAt(p, x, y)
      BY <1>1, <1>6, Distinct DEF SaysAt, Says
    <3> QED
      BY <1>4, <3>1 DEF ThreadEdge, SaysAt
  <2>2. \A x, y \in Dirs : Above(x, y)' => Above(x, y)
    BY <1>3, <1>6, <2>1 DEF Above
  <2> QED
    BY <2>2, OrderLess
<1>7. CASE LinksTo(p, q)
  <2>1. \A x, y \in Dirs : TreeEdge(x, y)' => TreeEdge(x, y)
    BY <1>1, <1>2, <1>7, Distinct DEF TreeEdge, LinksTo
  <2> QED
    BY <1>6, <1>7, <2>1 DEF LinksTo
<1>8. CASE Empties(p, q)
  <2>1. \A x, y \in Dirs : TreeEdge(x, y)' => TreeEdge(x, y)
    BY <1>1, <1>2, <1>8, Distinct DEF TreeEdge, Empties
  <2> QED
    BY <1>6, <1>8, <2>1 DEF Empties
<1>9. CASE Renames(p, q)
  <2>1. /\ p.from.name \in Names
        /\ tree' = [[tree EXCEPT ![p.dir][p.from.name] = None] EXCEPT ![p.dir][p.name] = tree[p.dir][p.from.name]]
    BY <1>9 DEF Renames
  <2>2. ASSUME NEW x \in Dirs, NEW y \in Dirs, NEW n \in Names, tree'[x][n] = y
        PROVE  TreeEdge(x, y)
    <3>1. y # None
      BY Distinct
    <3>2. tree[x][n] = y \/ (x = p.dir /\ tree[x][p.from.name] = y)
      BY <1>1, <1>2, <2>1, <2>2, <3>1
    <3> QED
      BY <2>1, <3>2 DEF TreeEdge
  <2>3. \A x, y \in Dirs : TreeEdge(x, y)' => TreeEdge(x, y)
    BY <2>2 DEF TreeEdge
  <2> QED
    BY <1>6, <1>9, <2>3 DEF Renames
<1> QED
  BY <1>1, <1>5, <1>7, <1>8, <1>9

LEMMA StillOrder ==
  ASSUME OrderOK, UNCHANGED pc, cache' \subseteq cache,
         \A x, y \in Dirs : TreeEdge(x, y)' => TreeEdge(x, y)
  PROVE  OrderOK'
<1>1. \A x, y \in Dirs : Above(x, y)' => Above(x, y)
  BY DEF Above, CacheEdge, ThreadEdge, Says
<1> QED
  BY <1>1, OrderLess

LEMMA ElsewhereOrder == ASSUME Inv, OrderOK, NEW d \in Dirs, NEW n \in Names, Elsewhere(d, n) PROVE OrderOK'
<1>1. PICK g \in (fresh \cap Files) \cup {None} : tree' = [tree EXCEPT ![d][n] = g]
  BY DEF Elsewhere
<1>2. cache' \subseteq cache /\ UNCHANGED pc
  BY DEF Elsewhere
<1>3. \A x, y \in Dirs : TreeEdge(x, y)' => TreeEdge(x, y)
  BY <1>1, Distinct DEF TreeEdge, Inv, TreeOK
<1> QED
  BY <1>2, <1>3, StillOrder

LEMMA OrderNext == ASSUME Inv, OrderOK, Calm, [Next]_vars PROVE OrderOK'
<1>1. ASSUME NEW t \in Threads, Quietly(t) PROVE OrderOK'
  BY <1>1, QuietlyFading, FadingOrder
<1>2. CASE UNCHANGED vars
  BY <1>2, StillOrder DEF vars, TreeEdge
<1>3. CASE \E n \in Nodes : coda_getattr(n)
  BY <1>3, StillOrder DEF coda_getattr, TreeEdge
<1>4. CASE Purge
  BY <1>4, StillOrder DEF Purge, TreeEdge
<1> QED
  BY <1>1, <1>2, <1>3, <1>4, CallOrder, SymlinkOrder, StartLinkOrder, LookupAnswerOrder,
     FoundOrder, MadeDoneOrder, VenusDoesOrder, ElsewhereOrder DEF Next, Quietly

LEMMA OrderInit == Init => OrderOK
<1> SUFFICES ASSUME Init PROVE OrderOK
  OBVIOUS
<1>1. tree = Tree /\ cache = {} /\ pc = [t \in Threads |-> Idle]
  BY DEF Init
<1>2. \A x, y \in Dirs : ~CacheEdge(x, y) /\ ~ThreadEdge(x, y)
  BY <1>1, IdlePlace, Distinct DEF CacheEdge, ThreadEdge, Says
<1>3. ASSUME NEW X \in (SUBSET Dirs) \ {{}} PROVE \E x \in X : \A y \in X : ~Above(x, y)
  <2>1. PICK x \in X : \A n \in Names : Tree[x][n] \notin X
    BY NamesAssumption DEF IsTree
  <2>2. \A y \in X : ~TreeEdge(x, y)
    BY <1>1, <2>1 DEF TreeEdge
  <2> QED
    BY <1>2, <2>2 DEF Above
<1> QED
  BY <1>3 DEF OrderOK

\* What a thread that is asleep for a lock holds and wants: a directory, and what is in it.
LEMMA WantsBelow ==
  ASSUME Inv, NEW u \in Threads, NEW w \in Wants(u), NEW n \in Nodes, lock[n] = u
  PROVE  /\ n \in Dirs
         /\ w \in Dirs => Above(n, w)
<1> DEFINE p == pc[u]
<1>1. p \in Places /\ PlaceOK(p) /\ n \in Held(p)
  BY DEF Inv, ThreadsOK, LockOK
<1>2. CASE p.at = "child"
  <2>1. /\ n = p.dir /\ p.name # DotDot /\ p.dir \in Dirs /\ p.name \in Names \cup {CtlName}
        /\ p.name = CtlName => p.node = Ctl
        /\ w = p.node
    BY <1>1, <1>2, Distinct DEF Held, Wants, At, PlaceOK, NameOK
  <2>2. ASSUME w \in Dirs PROVE Above(n, w)
    <3>1. Says(p.dir, p.name, p.node, n, w)
      BY <2>1, <2>2, Distinct DEF Says
    <3> QED
      BY <3>1 DEF Above, ThreadEdge
  <2> QED
    BY <2>1, <2>2
<1>3. CASE p.at = "relock"
  <2>1. /\ n = p.node /\ p.name = DotDot /\ p.dir \in Dirs /\ w = p.dir /\ p.node # None
    BY <1>1, <1>3, Distinct DEF Held, Wants, At, PlaceOK, OpOK, NameOK
  <2>2. p.node \in Dirs
    BY <1>1, <2>1 DEF PlaceOK, NodeOK
  <2>3. Says(p.dir, p.name, p.node, n, w)
    BY <2>1 DEF Says
  <2> QED
    BY <2>1, <2>2, <2>3 DEF Above, ThreadEdge
<1> QED
  BY <1>2, <1>3 DEF Wants, At

LEMMA OrderNoCycle == Inv /\ OrderOK => NoWaitCycle
<1> SUFFICES ASSUME Inv, OrderOK, NEW S \in (SUBSET Threads) \ {{}},
                    \A t \in S : \E n \in Wants(t) : lock[n] \in S
             PROVE  FALSE
  BY DEF NoWaitCycle
<1> DEFINE X == {n \in Dirs : \E t \in S : n \in Wants(t) /\ lock[n] \in S}
<1>1. ASSUME NEW t \in S, NEW n \in Wants(t), lock[n] \in S PROVE n \in X
  <2>1. n \in Nodes
    <3>1. PlaceOK(pc[t])
      BY DEF Inv, ThreadsOK
    <3> QED
      BY <1>1, <3>1, Distinct DEF Wants, At, PlaceOK, NodeOK, NameOK
  <2>2. PICK w \in Wants(lock[n]) : TRUE
    BY <1>1
  <2>3. n \in Dirs
    BY <1>1, <2>1, <2>2, WantsBelow
  <2> QED
    BY <1>1, <2>3
<1>2. X \in (SUBSET Dirs) \ {{}}
  <2>1. PICK t \in S : TRUE
    OBVIOUS
  <2>2. PICK n \in Wants(t) : lock[n] \in S
    BY <2>1
  <2> HIDE DEF X
  <2>3. n \in X
    BY <1>1, <2>2
  <2> QED
    BY <2>3 DEF X
<1>3. PICK x \in X : \A y \in X : ~Above(x, y)
  BY <1>2 DEF OrderOK
<1>4. lock[x] \in S /\ x \in Nodes
  BY <1>3, Distinct
<1>5. PICK w \in Wants(lock[x]) : lock[w] \in S
  BY <1>4
<1>6. w \in X
  BY <1>1, <1>4, <1>5
<1>7. Above(x, w)
  BY <1>4, <1>5, <1>6, WantsBelow
<1> QED
  BY <1>3, <1>6, <1>7

\* No threads wait for the locks of vnodes in a circle, however many there are: a directory
\* is locked before what is in it, and ".." lets go of its directory first.
THEOREM NamesNoWaitCycle == Calm => (Spec => []NoWaitCycle)
<1> SUFFICES ASSUME Calm PROVE Spec => []NoWaitCycle
  OBVIOUS
<1>1. Init => Inv /\ OrderOK
  BY InvInit, OrderInit
<1>2. Inv /\ OrderOK /\ [Next]_vars => (Inv /\ OrderOK)'
  BY InvNext, OrderNext
<1> QED
  BY <1>1, <1>2, OrderNoCycle, PTL DEF Spec

-----------------------------------------------------------------------------
(* The name cache and Venus.                                               *)

\* A thread that is about to change a name has its directory locked.
LEMMA ChangingHolds ==
  ASSUME Inv, NEW u \in Threads, Changing(pc[u]),
         pc[u].name \in Names \/ (pc[u].op = "rename" /\ pc[u].at \in {"asked", "done"})
  PROVE  pc[u].dir \in Dirs /\ lock[pc[u].dir] = u
<1> DEFINE p == pc[u]
<1>1. p \in Places /\ PlaceOK(p)
  BY DEF Inv, ThreadsOK
<1>2. p.at \in {"lookup", "found", "has", "asked", "done"} /\ p.dir \in Dirs
  BY <1>1 DEF Changing, PlaceOK, NameOK
<1>3. p.name # DotDot
  BY <1>1, <1>2, Distinct DEF PlaceOK, NameOK
<1>4. p.at = "has" => Holds(p)
  <2>1. p.at = "has" => p.node = None
    BY <1>3 DEF Changing
  <2>2. p.at = "has" => p.op \notin {"walk", "up", "from"}
    BY <1>1, <2>1, Distinct DEF PlaceOK, NodeOK
  <2>3. p.op \in Operations \cup {"none"} /\ (p.at = "has" => p.op # "none")
    BY <1>1, PlaceFields DEF PlaceOK, OpOK
  <2> QED
    BY <2>2, <2>3 DEF Holds, Wanting, Operations
<1>5. p.dir \in Held(p)
  BY <1>2, <1>3, <1>4, Distinct DEF Held
<1> QED
  BY <1>2, <1>5, Distinct DEF Inv, LockOK

\* What the other threads are about to change stays out of a name cache that has more
\* entries of directories t has locked.
LEMMA OthersMissing ==
  ASSUME Inv, MissingOK, NEW t, NEW C,
         \A e \in C : e \in cache \/ e.name \notin Names \/ lock[e.dir] = t,
         NEW u \in Threads \ {t}, Changing(pc[u])
  PROVE  Missing(C, pc[u])
<1> DEFINE p == pc[u]
<1>1. PlaceOK(p) /\ Missing(cache, p)
  BY DEF Inv, ThreadsOK, MissingOK
<1>2. ASSUME p.name \in Names PROVE Lacks(C, p.dir, p.name)
  BY <1>1, <1>2, ChangingHolds DEF Lacks, Missing
<1>3. ASSUME p.op = "rename", p.at \in {"asked", "done"} PROVE Lacks(C, p.from.dir, p.from.name)
  <2>1. p.from.dir = p.dir /\ p.from.name \in Names
    BY <1>1, <1>3 DEF PlaceOK, FromOK
  <2>2. Lacks(cache, p.from.dir, p.from.name) /\ lock[p.dir] = u
    BY <1>1, <1>3, ChangingHolds DEF Missing
  <2> QED
    BY <2>1, <2>2 DEF Lacks
<1> QED
  BY <1>2, <1>3 DEF Missing

\* A thread goes to q, and what is new in the name cache agrees with Venus.
LEMMA NamesOnward ==
  ASSUME Inv, NamesInv, NEW t \in Threads, NEW q, pc' = [pc EXCEPT ![t] = q], UNCHANGED tree,
         (q.at = "found" /\ q.node # None) \/ IsNew(q) => Agrees(q.dir, q.name, q.node),
         Changing(q) => Missing(cache', q),
         \A e \in cache' : \/ e \in cache
                           \/ /\ Agrees(e.dir, e.name, e.node)
                              /\ e.name \notin Names \/ lock[e.dir] = t
  PROVE  NamesInv'
<1>1. pc'[t] = q /\ \A u \in Threads \ {t} : pc'[u] = pc[u]
  BY DEF Inv, ThreadsOK
<1>2. \A d, n, c : Agrees(d, n, c)' <=> Agrees(d, n, c)
  BY DEF Agrees, Alive, TreeEdge
<1>3. DirsOK'
  BY DEF NamesInv, DirsOK
<1>4. EntriesOK'
  BY <1>2 DEF NamesInv, EntriesOK
<1>5. AnswersOK'
  BY <1>1, <1>2 DEF NamesInv, AnswersOK, IsNew
<1>6. ASSUME NEW u \in Threads, Changing(pc'[u]) PROVE Missing(cache', pc'[u])
  <2>1. CASE u = t
    BY <1>1, <1>6, <2>1
  <2>2. CASE u # t
    BY <1>1, <1>6, <2>2, OthersMissing DEF NamesInv
  <2> QED
    BY <2>1, <2>2
<1>7. MissingOK'
  BY <1>6 DEF MissingOK, Changing, Missing, Lacks
<1> QED
  BY <1>3, <1>4, <1>5, <1>7 DEF NamesInv

LEMMA QuietlyNames == ASSUME Inv, NamesInv, NEW t \in Threads, Quietly(t) PROVE NamesInv'
<1>1. Fading(t) /\ cache' \subseteq cache /\ UNCHANGED tree
  BY QuietlyFading
<1>2. PICK q \in Places : /\ pc' = [pc EXCEPT ![t] = q] /\ q.at \notin {"lookup", "found", "done"}
                          /\ MissingOK /\ Changing(q) => Missing(cache', q)
  BY <1>1 DEF Fading
<1>3. Changing(q) => Missing(cache', q)
  BY <1>2 DEF NamesInv
<1> QED
  BY <1>1, <1>2, <1>3, NamesOnward DEF IsNew

LEMMA CallNames ==
  ASSUME Inv, NamesInv, Calm, NEW t \in Threads, Start(t) \/ Second(t)
  PROVE  NamesInv'
<1>1. /\ At(t, "idle") \/ At(t, "second")
      /\ UNCHANGED <<cache, tree>>
      /\ \E op \in Operations, d \in known \cap Dirs, n \in Names \cup {CtlName, DotDot} :
           Brings(op, d, n, pc[t].from) /\ Call(t, op, d, n, pc[t].from)
  BY StartCalls
<1>2. PICK op \in Operations, d \in known \cap Dirs, n \in Names \cup {CtlName, DotDot} :
        Brings(op, d, n, pc[t].from) /\ Call(t, op, d, n, pc[t].from)
  BY <1>1
<1>3. PICK q \in Places : Moves(t, q) /\ Looked(Path(op, d, n, pc[t].from), q)
  BY <1>1, <1>2, CallLooks
<1>4. /\ q.dir = d /\ q.name = n /\ q.at \in {"lookup", "child", "has", "relock"}
      /\ q.at = "lookup" => Cached(d, n) = {}
      /\ q.at # "lookup" => q.node = Ctl \/ \E e \in Cached(d, n) : q.node = e.node
  BY <1>3 DEF Looked, Reached, Path
<1>5. q.at # "lookup" => q.node # None
  BY <1>4, Distinct DEF Cached, Inv, CacheOK, KnownOK
<1>6. Changing(q) => Missing(cache', q)
  <2>1. Changing(q) => q.at = "lookup"
    BY <1>4, <1>5 DEF Changing
  <2>2. q.at = "lookup" => Lacks(cache, d, n)
    BY <1>4 DEF Lacks, Cached
  <2> QED
    BY <1>1, <1>4, <2>1, <2>2 DEF Missing
<1>7. pc' = [pc EXCEPT ![t] = q]
  BY <1>3 DEF Moves
<1> QED
  BY <1>1, <1>4, <1>6, <1>7, NamesOnward DEF IsNew

LEMMA SymlinkNames == ASSUME Inv, NamesInv, NEW t \in Threads, SymlinkDone(t) PROVE NamesInv'
<1>1. PICK q \in Places :
        /\ Moves(t, q) /\ q.op = "symlinked" /\ q.at \in {"lookup", "child", "has"}
        /\ q.at = "lookup" => Cached(q.dir, q.name) = {} /\ q.node = None
        /\ q.at # "lookup" => \E e \in Cached(q.dir, q.name) : e.node = q.node
  BY SymlinkLooks
<1>2. pc' = [pc EXCEPT ![t] = q] /\ UNCHANGED <<cache, tree>>
  BY <1>1 DEF Moves, SymlinkDone
<1>3. Changing(q) => Missing(cache', q)
  <2>1. q.at # "lookup" => q.node # None
    BY <1>1, Distinct DEF Cached, Inv, CacheOK, KnownOK
  <2>2. Changing(q) => q.at = "lookup"
    BY <1>1, <2>1 DEF Changing
  <2>3. q.at = "lookup" => Lacks(cache, q.dir, q.name)
    BY <1>1 DEF Lacks, Cached
  <2> QED
    BY <1>1, <1>2, <2>2, <2>3 DEF Missing
<1> QED
  BY <1>1, <1>2, <1>3, NamesOnward DEF IsNew

LEMMA StartLinkNames == ASSUME Inv, NamesInv, NEW t \in Threads, StartLink(t) PROVE NamesInv'
<1>1. PICK s \in known \cap (Files \cup {Ctl}) :
       Go(t, [Idle EXCEPT !.op = "link", !.from = [Source EXCEPT !.node = s]], "second")
  BY DEF StartLink
<1> DEFINE q == [[Idle EXCEPT !.op = "link", !.from = [Source EXCEPT !.node = s]] EXCEPT !.at = "second"]
<1>2. pc' = [pc EXCEPT ![t] = q] /\ q.at = "second" /\ UNCHANGED <<cache, tree>>
  BY <1>1 DEF Go, Idle, StartLink
<1> HIDE DEF q
<1> QED
  BY <1>2, NamesOnward DEF Changing, IsNew

LEMMA LookupAnswerNames == ASSUME Inv, NamesInv, NEW t \in Threads, LookupAnswer(t) PROVE NamesInv'
<1>1. PICK q \in Places :
        /\ pc' = [pc EXCEPT ![t] = q] /\ q.at = "found" /\ q.op = pc[t].op /\ q.dir = pc[t].dir
        /\ q.name = pc[t].name /\ q.from = pc[t].from /\ q.node = Binding(q.dir, q.name)
        /\ pc[t].at = "lookup" /\ q.dir \in Dirs /\ q.name \in Names \cup {DotDot}
        /\ UNCHANGED <<cache, tree, known, fresh>>
  BY AnswerPlace
<1>2. q.node # None => Agrees(q.dir, q.name, q.node)
  BY <1>1, BindingIs, Distinct DEF Inv, Agrees, TreeEdge
<1>3. Changing(q) => Missing(cache', q)
  BY <1>1 DEF Changing, Missing, NamesInv, MissingOK
<1> QED
  BY <1>1, <1>2, <1>3, NamesOnward DEF IsNew

LEMMA FoundNames == ASSUME Inv, NamesInv, NEW t \in Threads, Found(t) PROVE NamesInv'
<1> DEFINE p == pc[t]
<1>1. PICK q \in Places : Moves(t, q) /\ Reached(p, q, p.node) /\ ~IsNew(q)
  BY FoundReaches
<1>2. p.at = "found" /\ p.node # None /\ UNCHANGED tree
  BY DEF Found, At
<1>3. pc' = [pc EXCEPT ![t] = q] /\ ~Changing(q) /\ q.at # "found"
  BY <1>1, <1>2 DEF Moves, Reached, Changing
<1>4. cache' \subseteq cache \cup {Entry(p.dir, p.name, p.node)}
  BY EnteredOK DEF Found, Inv, CacheOK
<1>5. Agrees(p.dir, p.name, p.node)
  BY <1>2 DEF NamesInv, AnswersOK
<1>6. p.name \in Names => lock[p.dir] = t
  <2>1. p.name \in Names => Changing(p)
    BY <1>2, Distinct DEF Changing
  <2> QED
    BY <2>1, ChangingHolds
<1> HIDE DEF p
<1>7. \A e \in cache' : \/ e \in cache
                        \/ /\ Agrees(e.dir, e.name, e.node)
                           /\ e.name \notin Names \/ lock[e.dir] = t
  BY <1>4, <1>5, <1>6 DEF Entry
<1> QED
  BY <1>1, <1>2, <1>3, <1>7, NamesOnward

LEMMA MadeDoneNames == ASSUME Inv, NamesInv, NEW t \in Threads, MadeDone(t) PROVE NamesInv'
<1> DEFINE p == pc[t]
           q == [p EXCEPT !.at = "hold"]
<1>1. IsNew(p) /\ p.name \in Names /\ p.dir \in Dirs /\ p \in Places /\ UNCHANGED tree
  BY DonePlaceOK DEF MadeDone, At, IsNew
<1>2. pc' = [pc EXCEPT ![t] = q] /\ q.at = "hold"
  BY <1>1 DEF MadeDone, Go, Places
<1>3. Agrees(p.dir, p.name, p.node)
  BY <1>1 DEF NamesInv, AnswersOK
<1>4. Agrees(p.node, Dot, p.node) /\ Agrees(p.node, DotDot, p.dir)
  BY <1>1, <1>3, Distinct DEF Agrees, TreeEdge
<1>5. lock[p.dir] = t
  BY <1>1, ChangingHolds DEF Changing, IsNew
<1>6. \A e \in cache' : \/ e \in cache
                        \/ e = Entry(p.dir, p.name, p.node)
                        \/ e = Entry(p.node, Dot, p.node) \/ e = Entry(p.node, DotDot, p.dir)
  BY MadeEntries
<1>7. \A d, n, c : Entry(d, n, c).dir = d /\ Entry(d, n, c).name = n /\ Entry(d, n, c).node = c
  BY DEF Entry
<1> HIDE DEF p, q
<1>8. \A e \in cache' : \/ e \in cache
                        \/ /\ Agrees(e.dir, e.name, e.node)
                           /\ e.name \notin Names \/ lock[e.dir] = t
  BY <1>3, <1>4, <1>5, <1>6, <1>7, Distinct
<1> QED
  BY <1>1, <1>2, <1>8, NamesOnward DEF Changing, IsNew

\* Directories that were known stay where they are or go nowhere: what agreed on a ".." does.
LEMMA StaysBelow ==
  ASSUME DirsOK, NEW x \in Dirs, NEW c, Agrees(x, DotDot, c),
         tree \in [Dirs -> [Names -> Dirs \cup Files \cup {None}]],
         tree' \in [Dirs -> [Names -> Dirs \cup Files \cup {None}]],
         \A y \in Dirs : TreeEdge(y, x)' => TreeEdge(y, x),
         c \in Dirs
  PROVE  Agrees(x, DotDot, c)'
<1>1. ASSUME Alive(x)' PROVE TreeEdge(c, x)'
  <2>1. \A y \in Dirs : TreeEdge(y, x) => Alive(x) /\ x # Root /\ x # None
    BY Distinct DEF TreeEdge, Alive, Linked, DirsOK
  <2>2. x # Root
    <3>1. x = Root => Alive(x) /\ ~TreeEdge(c, x)
      BY <2>1 DEF Alive
    <3> QED
      BY <3>1 DEF Agrees
  <2>3. PICK y \in Dirs : TreeEdge(y, x)'
    BY <1>1, <2>2 DEF Alive, Linked, TreeEdge
  <2>4. TreeEdge(y, x) /\ Alive(x)
    BY <2>1, <2>3
  <2>5. TreeEdge(c, x)
    BY <2>4 DEF Agrees
  <2>6. y = c
    BY <2>4, <2>5 DEF TreeEdge, DirsOK
  <2> QED
    BY <2>3, <2>6
<1> QED
  BY <1>1, Distinct DEF Agrees

\* Venus changes some names of directory d, not those of S.
LEMMA AgreesAfter ==
  ASSUME Inv, NamesInv, tree' \in [Dirs -> [Names -> Dirs \cup Files \cup {None}]],
         \A x \in known \cap Dirs, y \in Dirs : TreeEdge(y, x)' => TreeEdge(y, x),
         NEW x \in known \cap Dirs, NEW n \in Names \cup {Dot, DotDot}, NEW c, Agrees(x, n, c),
         n \in Names => tree'[x][n] = tree[x][n],
         n = DotDot => c \in Dirs
  PROVE  Agrees(x, n, c)'
<1>1. CASE n \in Names
  BY <1>1, Distinct DEF Agrees
<1>2. CASE n = Dot
  BY <1>2, Distinct DEF Agrees
<1>3. CASE n = DotDot
  <2>1. tree \in [Dirs -> [Names -> Dirs \cup Files \cup {None}]] /\ DirsOK
    BY DEF Inv, TreeOK, NamesInv
  <2> QED
    BY <1>3, <2>1, StaysBelow
<1> QED
  BY <1>1, <1>2, <1>3

\* The directories after a step of Venus for a thread.
LEMMA DoesDirs ==
  ASSUME Inv, DirsOK, NEW p, p.dir \in Dirs, p.name \in Names, NEW q,
         \/ \E g \in fresh : Makes(p, q, g)
         \/ LinksTo(p, q) \/ Empties(p, q) \/ Renames(p, q)
  PROVE  /\ DirsOK' /\ tree' \in [Dirs -> [Names -> Dirs \cup Files \cup {None}]]
         /\ \A x \in known \cap Dirs, y \in Dirs : TreeEdge(y, x)' => TreeEdge(y, x)
         /\ \A x \in Dirs, n \in Names :
              x # p.dir \/ (n # p.name /\ ~(p.op = "rename" /\ n = p.from.name)) => tree'[x][n] = tree[x][n]
<1>1. /\ tree \in [Dirs -> [Names -> Dirs \cup Files \cup {None}]]
      /\ \A d \in Dirs, n \in Names : tree[d][n] # None =>
           d \notin fresh /\ tree[d][n] \notin fresh /\ tree[d][n] # d
      /\ Root \in known /\ known \cap fresh = {}
      /\ None \notin Dirs /\ Root \in Dirs /\ Dirs \cap Files = {}
  BY Distinct DEF Inv, TreeOK, KnownOK
<1>2. \A d, e \in Dirs, n, m \in Names :
        /\ tree[d][n] # Root
        /\ tree[d][n] \in Dirs /\ tree[d][n] = tree[e][m] => d = e /\ n = m
  BY DEF DirsOK
<1>3. ASSUME NEW g, g \in Files \/ (g \in fresh /\ g \in Dirs), tree[p.dir][p.name] = None,
             tree' = [tree EXCEPT ![p.dir][p.name] = g]
      PROVE  /\ DirsOK' /\ tree' \in [Dirs -> [Names -> Dirs \cup Files \cup {None}]]
             /\ \A x \in known \cap Dirs, y \in Dirs : TreeEdge(y, x)' => TreeEdge(y, x)
             /\ \A x \in Dirs, n \in Names : x # p.dir \/ n # p.name => tree'[x][n] = tree[x][n]
  <2>1. /\ tree' \in [Dirs -> [Names -> Dirs \cup Files \cup {None}]]
        /\ \A x \in Dirs, n \in Names :
             tree'[x][n] = IF x = p.dir /\ n = p.name THEN g ELSE tree[x][n]
    BY <1>1, <1>3
  <2>2. \A x \in Dirs, n \in Names : tree[x][n] \in Dirs => tree[x][n] # g
    BY <1>1, <1>3
  <2>3. g # Root
    BY <1>1, <1>3
  <2>4. DirsOK'
    <3>1. ASSUME NEW d \in Dirs, NEW e \in Dirs, NEW n \in Names, NEW m \in Names
          PROVE  /\ tree'[d][n] # Root
                 /\ tree'[d][n] \in Dirs /\ tree'[d][n] = tree'[e][m] => d = e /\ n = m
      BY <1>2, <2>1, <2>2, <2>3
    <3> QED
      BY <3>1 DEF DirsOK
  <2>5. \A x \in known \cap Dirs, y \in Dirs : TreeEdge(y, x)' => TreeEdge(y, x)
    BY <1>1, <1>3, <2>1 DEF TreeEdge
  <2> QED
    BY <2>1, <2>4, <2>5
<1>4. CASE \E g \in fresh : Makes(p, q, g)
  <2>1. PICK g \in fresh : Makes(p, q, g)
    BY <1>4
  <2>2. /\ g \in Files \/ (g \in fresh /\ g \in Dirs)
        /\ tree[p.dir][p.name] = None /\ tree' = [tree EXCEPT ![p.dir][p.name] = g]
    BY <2>1 DEF Makes
  <2> QED
    BY <1>3, <2>2
<1>5. CASE LinksTo(p, q)
  <2>1. /\ p.from.node \in Files
        /\ tree[p.dir][p.name] = None /\ tree' = [tree EXCEPT ![p.dir][p.name] = p.from.node]
    BY <1>5 DEF LinksTo
  <2> QED
    BY <1>3, <2>1
<1>6. CASE Empties(p, q)
  <2>1. tree' = [tree EXCEPT ![p.dir][p.name] = None]
    BY <1>6 DEF Empties
  <2>2. /\ tree' \in [Dirs -> [Names -> Dirs \cup Files \cup {None}]]
        /\ \A x \in Dirs, n \in Names :
             tree'[x][n] = IF x = p.dir /\ n = p.name THEN None ELSE tree[x][n]
    BY <1>1, <2>1
  <2>3. DirsOK'
    <3>1. ASSUME NEW d \in Dirs, NEW e \in Dirs, NEW n \in Names, NEW m \in Names
          PROVE  /\ tree'[d][n] # Root
                 /\ tree'[d][n] \in Dirs /\ tree'[d][n] = tree'[e][m] => d = e /\ n = m
      BY <1>1, <1>2, <2>2
    <3> QED
      BY <3>1 DEF DirsOK
  <2>4. \A x \in known \cap Dirs, y \in Dirs : TreeEdge(y, x)' => TreeEdge(y, x)
    BY <1>1, <2>2 DEF TreeEdge
  <2> QED
    BY <2>2, <2>3, <2>4
<1>7. CASE Renames(p, q)
  <2> DEFINE moved == tree[p.dir][p.from.name]
  <2>1. /\ p.op = "rename" /\ p.from.name \in Names /\ moved # None /\ moved # tree[p.dir][p.name]
        /\ tree' = [[tree EXCEPT ![p.dir][p.from.name] = None] EXCEPT ![p.dir][p.name] = moved]
    BY <1>7 DEF Renames
  <2>2. /\ moved \in Dirs \cup Files /\ p.from.name # p.name
        /\ moved \in Dirs => \A e \in Dirs, m \in Names : tree[e][m] = moved => e = p.dir /\ m = p.from.name
        /\ moved # Root
    BY <1>1, <1>2, <2>1
  <2> HIDE DEF moved
  <2>3. /\ tree' \in [Dirs -> [Names -> Dirs \cup Files \cup {None}]]
        /\ \A x \in Dirs, n \in Names :
             tree'[x][n] = IF x = p.dir /\ n = p.name THEN moved
                           ELSE IF x = p.dir /\ n = p.from.name THEN None ELSE tree[x][n]
    BY <1>1, <2>1, <2>2
  <2>4. DirsOK'
    <3>1. ASSUME NEW d \in Dirs, NEW e \in Dirs, NEW n \in Names, NEW m \in Names
          PROVE  /\ tree'[d][n] # Root
                 /\ tree'[d][n] \in Dirs /\ tree'[d][n] = tree'[e][m] => d = e /\ n = m
      BY <1>1, <1>2, <2>2, <2>3
    <3> QED
      BY <3>1 DEF DirsOK
  <2>5. \A x \in known \cap Dirs, y \in Dirs : TreeEdge(y, x)' => TreeEdge(y, x)
    BY <1>1, <2>1, <2>3 DEF TreeEdge, moved
  <2> QED
    BY <2>1, <2>3, <2>4, <2>5
<1> QED
  BY <1>4, <1>5, <1>6, <1>7

LEMMA VenusDoesNames == ASSUME Inv, NamesInv, NEW t \in Threads, VenusDoes(t) PROVE NamesInv'
<1> DEFINE p == pc[t]
<1>1. PICK q \in Places :
         /\ pc' = [pc EXCEPT ![t] = q] /\ p.at = "asked" /\ q.at = "done"
         /\ q.op = p.op /\ q.dir = p.dir /\ q.name = p.name /\ q.from = p.from
         /\ q.dir \in Dirs /\ q.dir \in known /\ q.name \in Names /\ UNCHANGED <<cache, known>>
         /\ \/ \E g \in fresh : Makes(p, q, g)
            \/ LinksTo(p, q) \/ Empties(p, q) \/ Renames(p, q)
  BY Does
<1>2. /\ PlaceOK(p) /\ Changing(p) /\ Missing(cache, p) /\ lock[p.dir] = t
      /\ p.op = "rename" => p.from.dir = p.dir
  <2>1. PlaceOK(p) /\ Changing(p) /\ Missing(cache, p)
    BY <1>1 DEF Changing, Inv, ThreadsOK, NamesInv, MissingOK
  <2>2. lock[p.dir] = t
    BY <1>1, <2>1, ChangingHolds
  <2> QED
    BY <1>1, <2>1, <2>2 DEF PlaceOK, FromOK
<1>3. DirsOK
  BY DEF NamesInv
<1>4. /\ DirsOK' /\ tree' \in [Dirs -> [Names -> Dirs \cup Files \cup {None}]]
      /\ \A x \in known \cap Dirs, y \in Dirs : TreeEdge(y, x)' => TreeEdge(y, x)
      /\ \A x \in Dirs, n \in Names :
           x # p.dir \/ (n # p.name /\ ~(p.op = "rename" /\ n = p.from.name)) => tree'[x][n] = tree[x][n]
  <2> HIDE DEF p
  <2> QED
    BY <1>1, <1>3, DoesDirs
<1>5. EntriesOK'
  <2>1. ASSUME NEW e \in cache PROVE Agrees(e.dir, e.name, e.node)'
    <3>1. /\ e.dir \in known \cap Dirs /\ e.name \in Names \cup {Dot, DotDot}
          /\ e.name = DotDot => e.node \in Dirs
          /\ Agrees(e.dir, e.name, e.node)
      BY DEF Inv, CacheOK, NamesInv, EntriesOK
    <3>2. ~(e.dir = p.dir /\ e.name = p.name)
      BY <1>1, <1>2 DEF Missing, Lacks
    <3>3. p.op = "rename" => ~(e.dir = p.dir /\ e.name = p.from.name)
      BY <1>1, <1>2 DEF Missing, Lacks
    <3>4. e.name \in Names => tree'[e.dir][e.name] = tree[e.dir][e.name]
      BY <1>4, <3>1, <3>2, <3>3
    <3> HIDE DEF p
    <3> QED
      BY <1>4, <3>1, <3>4, AgreesAfter
  <2>2. \A e \in cache : Agrees(e.dir, e.name, e.node)'
    BY <2>1
  <2> QED
    BY <1>1, <2>2 DEF EntriesOK, Agrees, TreeEdge, Alive
<1>6. ASSUME NEW u \in Threads \ {t}, (pc[u].at = "found" /\ pc[u].node # None) \/ IsNew(pc[u]),
             NEW x, NEW m, NEW c, x = pc[u].dir, m = pc[u].name, c = pc[u].node
      PROVE  Agrees(x, m, c)'
  <2>1. PlaceOK(pc[u]) /\ SeenBy(pc[u]) /\ Agrees(x, m, c)
    BY <1>6 DEF Inv, ThreadsOK, SeenOK, NamesInv, AnswersOK
  <2>2. /\ pc[u].at \in {"found", "done"} /\ c # None
        /\ x \in Dirs /\ m \in Names \cup {DotDot}
        /\ m = DotDot => c \in Dirs
    BY <1>6, <2>1, Distinct DEF IsNew, PlaceOK, NameOK, NodeOK
  <2>3. x \in known
    BY <1>6, <2>1, <2>2, Distinct DEF SeenBy
  <2>4. m \in Names => lock[x] = u
    <3>1. m \in Names => Changing(pc[u])
      BY <1>6, <2>2, Distinct DEF Changing
    <3> QED
      BY <1>6, <3>1, ChangingHolds
  <2>5. m \in Names => tree'[x][m] = tree[x][m]
    BY <1>2, <1>4, <2>2, <2>4
  <2> HIDE DEF p
  <2> QED
    BY <1>4, <2>1, <2>2, <2>3, <2>5, AgreesAfter
<1>7. ASSUME IsNew(q) PROVE Agrees(q.dir, q.name, q.node)'
  <2>1. PICK g \in fresh : Makes(p, q, g)
    BY <1>1, <1>7 DEF IsNew, LinksTo, Empties, Renames
  <2>2. q.node = g /\ tree' = [tree EXCEPT ![p.dir][p.name] = g]
    BY <1>1, <1>7, <2>1 DEF Makes, IsNew
  <2>3. tree \in [Dirs -> [Names -> Dirs \cup Files \cup {None}]]
    BY DEF Inv, TreeOK
  <2>4. tree'[q.dir][q.name] = q.node
    BY <1>1, <2>2, <2>3
  <2> QED
    BY <1>1, <2>4, Distinct DEF Agrees
<1>8. pc'[t] = q /\ \A u \in Threads \ {t} : pc'[u] = pc[u]
  BY <1>1 DEF Inv, ThreadsOK
<1>9. AnswersOK'
  <2>1. ASSUME NEW u \in Threads, (pc'[u].at = "found" /\ pc'[u].node # None) \/ IsNew(pc'[u]),
               NEW x, NEW m, NEW c, x = pc'[u].dir, m = pc'[u].name, c = pc'[u].node
        PROVE  Agrees(x, m, c)'
    <3>1. CASE u = t
      BY <1>1, <1>7, <1>8, <2>1, <3>1 DEF Agrees, TreeEdge, Alive
    <3>2. CASE u # t
      BY <1>6, <1>8, <2>1, <3>2
    <3> QED
      BY <3>1, <3>2
  <2> QED
    BY <2>1 DEF AnswersOK, IsNew, Agrees, TreeEdge, Alive
<1>10. MissingOK'
  <2>1. Missing(cache, q)
    BY <1>1, <1>2 DEF Missing
  <2>2. \A u \in Threads : Changing(pc'[u]) => Missing(cache', pc'[u])
    BY <1>1, <1>8, <2>1 DEF NamesInv, MissingOK
  <2> QED
    BY <2>2 DEF MissingOK, Changing, Missing, Lacks
<1> QED
  BY <1>4, <1>5, <1>9, <1>10 DEF NamesInv

\* What another client does is followed by its downcall before an answer comes.
LEMMA ElsewhereNames ==
  ASSUME Inv, NamesInv, Punctual, NEW d \in Dirs, NEW n \in Names, Elsewhere(d, n)
  PROVE  NamesInv'
<1>1. PICK g \in (fresh \cap Files) \cup {None} : tree' = [tree EXCEPT ![d][n] = g]
  BY DEF Elsewhere
<1>2. /\ tree[d][n] \in Files /\ cache' = cache \ Zapped(d) /\ UNCHANGED <<pc, known>>
      /\ \A t \in Threads : pc[t].at \notin {"found", "done"}
  BY DEF Elsewhere, Prompt, Punctual
<1>3. /\ tree \in [Dirs -> [Names -> Dirs \cup Files \cup {None}]]
      /\ None \notin Dirs /\ Root \in Dirs /\ Dirs \cap Files = {}
      /\ g \notin Dirs
  BY Distinct DEF Inv, TreeOK
<1>4. /\ tree' \in [Dirs -> [Names -> Dirs \cup Files \cup {None}]]
      /\ \A x \in Dirs, m \in Names : tree'[x][m] = IF x = d /\ m = n THEN g ELSE tree[x][m]
  BY <1>1, <1>3
<1>5. DirsOK'
  <2>1. \A x, e \in Dirs, k, m \in Names :
          /\ tree[x][k] # Root
          /\ tree[x][k] \in Dirs /\ tree[x][k] = tree[e][m] => x = e /\ k = m
    BY DEF NamesInv, DirsOK
  <2>2. \A x, e \in Dirs, k, m \in Names :
          /\ tree'[x][k] # Root
          /\ tree'[x][k] \in Dirs /\ tree'[x][k] = tree'[e][m] => x = e /\ k = m
    BY <1>3, <1>4, <2>1
  <2> QED
    BY <2>2 DEF DirsOK
<1>6. \A x \in known \cap Dirs, y \in Dirs : TreeEdge(y, x)' => TreeEdge(y, x)
  BY <1>3, <1>4 DEF TreeEdge
<1>7. EntriesOK'
  <2>1. ASSUME NEW e \in cache' PROVE Agrees(e.dir, e.name, e.node)'
    <3>1. /\ e.dir \in known \cap Dirs /\ e.name \in Names \cup {Dot, DotDot}
          /\ e.name = DotDot => e.node \in Dirs
          /\ Agrees(e.dir, e.name, e.node)
      BY <1>2 DEF Inv, CacheOK, NamesInv, EntriesOK
    <3>2. e.dir # d
      BY <1>2, <3>1 DEF Zapped
    <3>3. e.name \in Names => tree'[e.dir][e.name] = tree[e.dir][e.name]
      BY <1>4, <3>1, <3>2
    <3> QED
      BY <1>4, <1>6, <3>1, <3>3, AgreesAfter
  <2> QED
    BY <2>1 DEF EntriesOK, Agrees, TreeEdge, Alive
<1>8. AnswersOK'
  BY <1>2 DEF AnswersOK, IsNew
<1>9. MissingOK'
  BY <1>2 DEF NamesInv, MissingOK, Changing, Missing, Lacks
<1> QED
  BY <1>5, <1>7, <1>8, <1>9 DEF NamesInv

LEMMA StillNames ==
  ASSUME NamesInv, UNCHANGED <<pc, tree>>, cache' \subseteq cache
  PROVE  NamesInv'
<1>1. DirsOK'
  BY DEF NamesInv, DirsOK
<1>2. EntriesOK' /\ AnswersOK'
  BY DEF NamesInv, EntriesOK, AnswersOK, Agrees, TreeEdge, Alive, IsNew
<1>3. MissingOK'
  BY DEF NamesInv, MissingOK, Changing, Missing, Lacks
<1> QED
  BY <1>1, <1>2, <1>3 DEF NamesInv

LEMMA NamesNext == ASSUME Inv, NamesInv, Calm, Punctual, [Next]_vars PROVE NamesInv'
<1>1. CASE UNCHANGED vars
  BY <1>1, StillNames DEF vars
<1>2. CASE \E n \in Nodes : coda_getattr(n)
  BY <1>2, StillNames DEF coda_getattr
<1>3. CASE Purge
  BY <1>3, StillNames DEF Purge
<1> QED
  BY <1>1, <1>2, <1>3, QuietlyNames, CallNames, SymlinkNames, StartLinkNames, LookupAnswerNames,
     FoundNames, MadeDoneNames, VenusDoesNames, ElsewhereNames DEF Next, Quietly

LEMMA NamesInit == Init => NamesInv
<1> SUFFICES ASSUME Init PROVE NamesInv
  OBVIOUS
<1>1. tree = Tree /\ cache = {} /\ pc = [t \in Threads |-> Idle]
  BY DEF Init
<1>2. DirsOK
  <2>1. ASSUME NEW d \in Dirs, NEW n \in Names PROVE Tree[d][n] # Root
    BY NamesAssumption DEF IsTree
  <2> QED
    BY <1>1, <2>1, NamesAssumption DEF DirsOK, IsTree
<1>3. EntriesOK /\ AnswersOK /\ MissingOK
  BY <1>1, IdlePlace DEF EntriesOK, AnswersOK, MissingOK, IsNew, Changing
<1> QED
  BY <1>2, <1>3 DEF NamesInv

LEMMA NamesCoherence == Inv /\ NamesInv => Coherent
<1> SUFFICES ASSUME Inv, NamesInv, NEW e \in cache, Alive(e.dir)
             PROVE  e.node = Binding(e.dir, e.name)
  BY DEF Coherent
<1>1. /\ e.dir \in Dirs /\ e.name \in Names \cup {Dot, DotDot} /\ e.node \in Nodes
      /\ e.name = DotDot => e.node \in Dirs
      /\ Agrees(e.dir, e.name, e.node)
  BY DEF Inv, CacheOK, NamesInv, EntriesOK
<1>2. CASE e.name \in Names
  <2>1. tree[e.dir][e.name] = e.node
    BY <1>1, <1>2 DEF Agrees
  <2>2. Binding(e.dir, e.name) = tree[e.dir][e.name]
    BY <1>1, <1>2, BindingIs DEF Inv
  <2> QED
    BY <2>1, <2>2
<1>3. CASE e.name = Dot
  BY <1>1, <1>3, Distinct DEF Agrees, Binding
<1>4. CASE e.name = DotDot
  <2>1. TreeEdge(e.node, e.dir) /\ e.node \in Dirs
    BY <1>1, <1>4 DEF Agrees
  <2>2. Parents(e.dir) = {e.node}
    BY <1>1, <2>1 DEF Parents, TreeEdge, NamesInv, DirsOK
  <2>3. Binding(e.dir, e.name) = CHOOSE x \in {e.node} : TRUE
    BY <1>4, <2>2, Distinct DEF Binding
  <2> QED
    BY <2>3
<1> QED
  BY <1>1, <1>2, <1>3, <1>4

\* As long as the downcall for what another client has done comes before the answers Venus
\* gives after it, every name in the name cache stands for what Venus says it does: the lock
\* of the directory is held from the upcall to the change of the name cache, or from the
\* change to the upcall.
THEOREM NamesCoherent == Calm /\ Punctual => (Spec => []Coherent)
<1> SUFFICES ASSUME Calm, Punctual PROVE Spec => []Coherent
  OBVIOUS
<1>1. Init => Inv /\ NamesInv
  BY InvInit, NamesInit
<1>2. Inv /\ NamesInv /\ [Next]_vars => (Inv /\ NamesInv)'
  BY InvNext, NamesNext
<1> QED
  BY <1>1, <1>2, NamesCoherence, PTL DEF Spec


-----------------------------------------------------------------------------
(* Cached attributes.                                                      *)

Owed(T, p, f) == IF Owes(T, p, f) THEN 1 ELSE 0

LEMMA OwersFinite == ASSUME NEW f PROVE IsFiniteSet(Owers(f)) /\ Cardinality(Owers(f)) \in Nat
<1>1. Owers(f) \subseteq Threads
  BY DEF Owers
<1> QED
  BY <1>1, FS_Subset, FS_CardinalityType, NamesAssumption

\* A thread goes to q and the directories change, but for what the others owe.
LEMMA OwersMove ==
  ASSUME ThreadsOK, NEW t \in Threads, NEW q, pc' = [pc EXCEPT ![t] = q], NEW f,
         \A u \in Threads \ {t} : Owes(tree', pc[u], f) <=> Owes(tree, pc[u], f)
  PROVE  /\ Cardinality(Owers(f)) \in Nat /\ Cardinality(Owers(f)') \in Nat
         /\ Cardinality(Owers(f)') = Cardinality(Owers(f)) - Owed(tree, pc[t], f) + Owed(tree', q, f)
<1>1. pc'[t] = q /\ \A u \in Threads \ {t} : pc'[u] = pc[u]
  BY DEF ThreadsOK
<1>2. Owers(f)' = {u \in Threads : Owes(tree', pc'[u], f)}
  BY DEF Owers, Owes
<1>3. IsFiniteSet(Owers(f)) /\ Cardinality(Owers(f)) \in Nat
  BY OwersFinite
<1>4. CASE Owes(tree, pc[t], f) <=> Owes(tree', q, f)
  <2>1. Owers(f)' = Owers(f)
    BY <1>1, <1>2, <1>4 DEF Owers
  <2>2. Owed(tree, pc[t], f) = Owed(tree', q, f) /\ Owed(tree', q, f) \in Nat
    BY <1>4 DEF Owed
  <2> QED
    BY <1>3, <2>1, <2>2
<1>5. CASE ~Owes(tree, pc[t], f) /\ Owes(tree', q, f)
  <2>1. Owers(f)' = Owers(f) \cup {t} /\ t \notin Owers(f)
    BY <1>1, <1>2, <1>5 DEF Owers
  <2>2. Cardinality(Owers(f)') = Cardinality(Owers(f)) + 1
    BY <1>3, <2>1, FS_AddElement
  <2>3. Owed(tree, pc[t], f) = 0 /\ Owed(tree', q, f) = 1
    BY <1>5 DEF Owed
  <2> QED
    BY <1>3, <2>2, <2>3
<1>6. CASE Owes(tree, pc[t], f) /\ ~Owes(tree', q, f)
  <2>1. Owers(f)' = Owers(f) \ {t} /\ t \in Owers(f)
    BY <1>1, <1>2, <1>6 DEF Owers
  <2>2. Cardinality(Owers(f)') = Cardinality(Owers(f)) - 1 /\ Cardinality(Owers(f)') \in Nat
    BY <1>3, <2>1, FS_RemoveElement, FS_CardinalityType
  <2>3. Owed(tree, pc[t], f) = 1 /\ Owed(tree', q, f) = 0
    BY <1>6 DEF Owed
  <2> QED
    BY <1>3, <2>2, <2>3
<1> QED
  BY <1>4, <1>5, <1>6

\* The cached link count of a file after a step of thread t to q.
LEMMA FileStep ==
  ASSUME Inv, FileAttrOK, NEW t \in Threads, NEW q, pc' = [pc EXCEPT ![t] = q],
         \A f \in Files, u \in Threads \ {t} : Owes(tree', pc[u], f) <=> Owes(tree, pc[u], f),
         \A f \in Files :
           \/ attr'[f] = None
           \/ attr'[f] \in Nat
           \/ /\ attr[f] # None /\ attr'[f] \in Int
              /\ attr'[f] - Owed(tree, pc[t], f) + Owed(tree', q, f) >= attr[f]
  PROVE  FileAttrOK'
<1>1. ASSUME NEW f \in Files, attr'[f] # None PROVE attr'[f] + Cardinality(Owers(f)') >= 0
  <2>1. /\ Cardinality(Owers(f)) \in Nat /\ Cardinality(Owers(f)') \in Nat
        /\ Cardinality(Owers(f)') = Cardinality(Owers(f)) - Owed(tree, pc[t], f) + Owed(tree', q, f)
    BY OwersMove DEF Inv
  <2>2. Owed(tree, pc[t], f) \in Nat /\ Owed(tree', q, f) \in Nat
    BY DEF Owed
  <2>3. CASE attr'[f] \in Nat
    BY <2>1, <2>3
  <2>4. CASE /\ attr[f] # None /\ attr'[f] \in Int
             /\ attr'[f] - Owed(tree, pc[t], f) + Owed(tree', q, f) >= attr[f]
    <3>1. attr[f] \in Int /\ attr[f] + Cardinality(Owers(f)) >= 0
      BY <2>4, Distinct DEF Inv, AttrOK, FileAttrOK
    <3> QED
      BY <2>1, <2>2, <2>4, <3>1
  <2> QED
    BY <1>1, <2>3, <2>4
<1> QED
  BY <1>1 DEF FileAttrOK

\* The cached attributes of directories after a step of thread t to q, which Venus did not do.
LEMMA DirStep ==
  ASSUME Inv, DirAttrOK, NEW t \in Threads, NEW q, pc' = [pc EXCEPT ![t] = q], q.at # "done",
         \A d \in Dirs : attr'[d] # None => attr'[d] <= 1 /\ (attr'[d] = 1 => attr[d] = 1),
         \A d \in known \cap Dirs : attr[d] = None => attr'[d] = None,
         q.at = "asked" /\ q.op \in Removing => attr'[q.dir] = None,
         pc[t].at = "done" => attr'[pc[t].dir] # 1
  PROVE  DirAttrOK'
<1>1. pc'[t] = q /\ \A u \in Threads \ {t} : pc'[u] = pc[u]
  BY DEF Inv, ThreadsOK
<1>2. \A u \in Threads : pc[u].at \in {"asked", "done"} =>
        /\ pc[u].dir \in known \cap Dirs /\ pc[u].from.dir \in {None, pc[u].dir}
  <2>1. ASSUME NEW u \in Threads, pc[u].at \in {"asked", "done"}
        PROVE  pc[u].dir \in known \cap Dirs /\ pc[u].from.dir \in {None, pc[u].dir}
    <3>1. PlaceOK(pc[u]) /\ SeenBy(pc[u]) /\ pc[u].dir \in Dirs
      BY <2>1 DEF Inv, ThreadsOK, SeenOK, PlaceOK, NameOK
    <3>2. pc[u].from.dir \in {None, pc[u].dir}
      BY <2>1, <3>1, IdlePlace DEF PlaceOK, FromOK
    <3> QED
      BY <3>1, <3>2, Distinct DEF SeenBy
  <2> QED
    BY <2>1
<1>3. ASSUME NEW d \in Dirs, attr'[d] = 1
      PROVE  \E u \in Threads : pc'[u].at = "done" /\ d \in {pc'[u].dir, pc'[u].from.dir}
  <2>1. attr[d] = 1
    BY <1>3, Distinct
  <2>2. PICK u \in Threads : pc[u].at = "done" /\ d \in {pc[u].dir, pc[u].from.dir}
    BY <2>1 DEF DirAttrOK
  <2>3. d = pc[u].dir
    BY <1>2, <2>2, Distinct
  <2>4. u # t
    BY <1>3, <2>2, <2>3
  <2> QED
    BY <1>1, <2>2, <2>4
<1>4. ASSUME NEW u \in Threads, pc'[u].at = "asked", pc'[u].op \in Removing
      PROVE  attr'[pc'[u].dir] = None
  BY <1>1, <1>2, <1>4 DEF DirAttrOK
<1>5. ASSUME NEW u \in Threads, pc'[u].at = "done", pc'[u].op \in Removing
      PROVE  attr'[pc'[u].dir] # 1
  <2>1. u # t /\ pc'[u] = pc[u] /\ attr[pc[u].dir] # 1 /\ pc[u].dir \in Dirs
    BY <1>1, <1>2, <1>5 DEF DirAttrOK
  <2> QED
    BY <2>1, Distinct
<1> QED
  BY <1>3, <1>4, <1>5 DEF DirAttrOK

\* A step of a thread that neither removes a name nor gets an answer leaves the
\* attributes alone or invalidates some.
LEMMA AttrOnward ==
  ASSUME Inv, AttrInv, NEW t \in Threads, NEW q, pc' = [pc EXCEPT ![t] = q], UNCHANGED tree,
         q.at # "done", q.at = "asked" => q.op \notin Removing,
         \A n \in Nodes : attr'[n] \in {attr[n], None},
         pc[t].at = "done" => attr'[pc[t].dir] # 1,
         pc[t].at = "done" /\ pc[t].op = "link" => attr'[pc[t].from.node] = None,
         pc[t].at = "asked" /\ pc[t].op = "remove" => tree[pc[t].dir][pc[t].name] \notin Files
  PROVE  AttrInv'
<1>1. DirAttrOK'
  <2>1. \A d \in Dirs : attr'[d] # None => attr'[d] <= 1 /\ (attr'[d] = 1 => attr[d] = 1)
    BY Distinct DEF AttrInv, DirAttrOK
  <2>2. \A d \in known \cap Dirs : attr[d] = None => attr'[d] = None
    BY Distinct
  <2> QED
    BY <2>1, <2>2, DirStep DEF AttrInv
<1>2. FileAttrOK'
  <2>1. ASSUME NEW f \in Files
        PROVE  \/ attr'[f] = None
               \/ /\ attr[f] # None /\ attr'[f] \in Int
                  /\ attr'[f] - Owed(tree, pc[t], f) + Owed(tree', q, f) >= attr[f]
    <3>1. attr'[f] # None => Owed(tree, pc[t], f) = 0
      BY <2>1 DEF Owed, Owes
    <3>2. Owed(tree', q, f) \in Nat
      BY DEF Owed
    <3>3. attr'[f] # None => attr'[f] = attr[f] /\ attr[f] \in Int
      BY Distinct DEF Inv, AttrOK
    <3> QED
      BY <3>1, <3>2, <3>3
  <2> QED
    BY <2>1, FileStep DEF AttrInv
<1> QED
  BY <1>1, <1>2 DEF AttrInv

\* The steps that only coda_remove, coda_rmdir and coda_rename are not among.
Modestly(t) ==
  \/ LookupFails(t) \/ NotFound(t) \/ Locked(t) \/ Return(t) \/ Walked(t) \/ Release(t)
  \/ SourceFound(t) \/ coda_create(t) \/ coda_mkdir(t) \/ coda_link(t) \/ VenusRefuses(t)
  \/ Refused(t) \/ LinkDone(t) \/ RemoveDone(t)

LEMMA NoRemoval ==
  ASSUME Inv, NEW t \in Threads, Modestly(t)
  PROVE  pc'[t].at = "asked" => pc'[t].op \notin Removing
<1>1. pc \in [Threads -> Places] /\ pc[t] \in Places
  BY DEF Inv, ThreadsOK
<1>2. ASSUME pc' = [pc EXCEPT ![t] = Idle] PROVE pc'[t].at # "asked"
  BY <1>1, <1>2, IdlePlace
<1>3. ASSUME NEW puts, NEW rels, GiveBack(t, puts, rels) PROVE pc'[t].at # "asked"
  BY <1>2, <1>3 DEF GiveBack
<1>4. ASSUME NEW s, Go(t, pc[t], s) PROVE pc'[t].at = s /\ pc'[t].op = pc[t].op
  BY <1>1, <1>4 DEF Go, Places
<1>5. CASE Refused(t) \/ LinkDone(t) \/ RemoveDone(t) \/ Return(t) \/ Release(t)
  BY <1>3, <1>5 DEF Refused, LinkDone, RemoveDone, Ended, Return, Release
<1>6. CASE LookupFails(t)
  <2>1. CASE Go(t, [pc[t] EXCEPT !.op = "up"], "relock")
    BY <1>1, <2>1 DEF Go, Places
  <2> QED
    BY <1>3, <1>6, <2>1 DEF LookupFails
<1>7. CASE NotFound(t)
  BY <1>3, <1>4, <1>7 DEF NotFound
<1>8. CASE Locked(t)
  BY <1>3, <1>4, <1>8 DEF Locked, GotChild
<1>9. CASE Walked(t) \/ VenusRefuses(t)
  BY <1>4, <1>9 DEF Walked, VenusRefuses
<1>10. CASE SourceFound(t)
  <2> DEFINE q == [Idle EXCEPT !.op = "rename",
                       !.from = [dir |-> pc[t].dir, name |-> pc[t].name, node |-> pc[t].node]]
  <2>1. Go(t, q, "second")
    BY <1>10 DEF SourceFound
  <2>2. [q EXCEPT !.at = "second"].at = "second"
    BY DEF Idle
  <2> HIDE DEF q
  <2> QED
    BY <1>1, <2>1, <2>2 DEF Go
<1>11. CASE coda_create(t) \/ coda_mkdir(t)
  <2>1. pc[t].op \notin Removing
    BY <1>11 DEF coda_create, coda_mkdir, Removing
  <2> QED
    BY <1>3, <1>4, <1>11, <2>1 DEF coda_create, coda_mkdir, Ask
<1>12. CASE coda_link(t)
  <2>1. pc[t].op \notin Removing
    BY <1>12 DEF coda_link, Removing
  <2> QED
    BY <1>2, <1>4, <1>12, <2>1 DEF coda_link, Ask
<1> QED
  BY <1>5, <1>6, <1>7, <1>8, <1>9, <1>10, <1>11, <1>12 DEF Modestly

\* No misfortune at all.
Prudent == Env = {}

LEMMA ModestlyAttr ==
  ASSUME Inv, AttrInv, Prudent, NEW t \in Threads, Modestly(t)
  PROVE  AttrInv'
<1> DEFINE p == pc[t]
<1>1. Fading(t) /\ UNCHANGED tree
  BY QuietlyFading DEF Modestly, Quietly
<1>2. PICK q \in Places : pc' = [pc EXCEPT ![t] = q] /\ q.at \notin {"lookup", "found", "done"}
  BY <1>1 DEF Fading
<1>3. q.at = "asked" => q.op \notin Removing
  <2>1. pc'[t] = q
    BY <1>2 DEF Inv, ThreadsOK
  <2> QED
    BY <2>1, NoRemoval
<1>4. attr \in [Nodes -> Int \cup {None}]
  BY DEF Inv, AttrOK
<1>5. CASE UNCHANGED attr /\ p.at # "done" /\ ~(p.at = "asked" /\ p.op = "remove")
  BY <1>1, <1>2, <1>3, <1>5, AttrOnward
<1>6. CASE VenusRefuses(t)
  <2>1. /\ UNCHANGED attr /\ p.at = "asked"
        /\ p.op = "remove" => tree[p.dir][p.name] \notin Files
    BY <1>6 DEF VenusRefuses, At, Prudent
  <2> QED
    BY <1>1, <1>2, <1>3, <2>1, AttrOnward
<1>7. CASE RemoveDone(t)
  <2>1. UNCHANGED attr /\ p.at = "done" /\ p.op \in Removing
    BY <1>7 DEF RemoveDone, At, Removing
  <2>2. attr[p.dir] # 1 /\ p.op # "link"
    BY <2>1 DEF AttrInv, DirAttrOK, Removing
  <2> QED
    BY <1>1, <1>2, <1>3, <2>1, <2>2, AttrOnward
<1>8. CASE LinkDone(t)
  <2>1. /\ attr' = Invalid({p.dir, p.from.node}) /\ p.at = "done" /\ p.op = "link"
        /\ PlaceOK(p) /\ p.dir \in Dirs
    BY <1>8, DonePlaceOK DEF LinkDone, At, Touched
  <2>2. p.from.node \in Files
    BY <2>1 DEF PlaceOK, FromOK
  <2>3. /\ \A n \in Nodes : attr'[n] \in {attr[n], None}
        /\ attr'[p.dir] = None /\ attr'[p.from.node] = None
    BY <1>4, <2>1, <2>2, Distinct DEF Invalid
  <2>4. attr'[p.dir] # 1
    BY <2>3, Distinct
  <2> QED
    BY <1>1, <1>2, <1>3, <2>1, <2>3, <2>4, AttrOnward
<1>9. CASE Refused(t)
  <2>1. p.at = "refused" /\ \A n \in Nodes : attr'[n] \in {attr[n], None}
    BY <1>4, <1>9 DEF Refused, At, Invalid
  <2> QED
    BY <1>1, <1>2, <1>3, <2>1, AttrOnward
<1>10. CASE \/ LookupFails(t) \/ NotFound(t) \/ Locked(t) \/ Return(t) \/ Walked(t) \/ Release(t)
            \/ SourceFound(t) \/ coda_create(t) \/ coda_mkdir(t) \/ coda_link(t)
  <2>1. UNCHANGED attr
    BY <1>10 DEF LookupFails, NotFound, Locked, Return, Walked, Release, SourceFound,
       coda_create, coda_mkdir, coda_link
  <2>2. p.at \in {"lookup", "found", "child", "relock", "has", "hold"}
    BY <1>10 DEF LookupFails, NotFound, Locked, Return, Walked, Release, SourceFound,
       coda_create, coda_mkdir, coda_link, At
  <2> QED
    BY <1>5, <2>1, <2>2
<1> QED
  BY <1>6, <1>7, <1>8, <1>9, <1>10 DEF Modestly

\* A lookup begins or is answered.
LEMMA LooksAttr ==
  ASSUME Inv, AttrInv, Calm, NEW t \in Threads,
         Start(t) \/ Second(t) \/ StartLink(t) \/ LookupAnswer(t) \/ Found(t)
  PROVE  AttrInv'
<1>1. pc[t].at \in {"idle", "second", "lookup", "found"} /\ UNCHANGED <<attr, tree>>
  BY DEF Start, Second, StartLink, LookupAnswer, Found, At
<1>2. \E q : pc' = [pc EXCEPT ![t] = q] /\ q.at \notin {"asked", "done"}
  <2>1. CASE Start(t) \/ Second(t)
    <3>1. PICK op \in Operations, d \in known \cap Dirs, n \in Names \cup {CtlName, DotDot} :
            /\ Brings(op, d, n, pc[t].from) /\ Call(t, op, d, n, pc[t].from)
            /\ At(t, "idle") \/ At(t, "second")
      BY <2>1, StartCalls
    <3>2. PICK q \in Places : Moves(t, q) /\ Looked(Path(op, d, n, pc[t].from), q)
      BY <3>1, CallLooks
    <3> QED
      BY <3>2 DEF Moves, Looked, Reached
  <2>2. CASE StartLink(t)
    <3>1. PICK s \in known \cap (Files \cup {Ctl}) :
           Go(t, [Idle EXCEPT !.op = "link", !.from = [Source EXCEPT !.node = s]], "second")
      BY <2>2 DEF StartLink
    <3> DEFINE q == [[Idle EXCEPT !.op = "link", !.from = [Source EXCEPT !.node = s]] EXCEPT !.at = "second"]
    <3>2. pc' = [pc EXCEPT ![t] = q] /\ q.at = "second"
      BY <3>1 DEF Go, Idle
    <3> HIDE DEF q
    <3> QED
      BY <3>2
  <2>3. CASE LookupAnswer(t)
    <3>1. PICK q \in Places : pc' = [pc EXCEPT ![t] = q] /\ q.at = "found"
      BY <2>3, AnswerPlace
    <3> QED
      BY <3>1
  <2>4. CASE Found(t)
    <3>1. PICK q \in Places : Moves(t, q) /\ Reached(pc[t], q, pc[t].node)
      BY <2>4, FoundReaches
    <3> QED
      BY <3>1 DEF Moves, Reached
  <2> QED
    BY <2>1, <2>2, <2>3, <2>4
<1>3. PICK q : pc' = [pc EXCEPT ![t] = q] /\ q.at \notin {"asked", "done"}
  BY <1>2
<1> QED
  BY <1>1, <1>3, AttrOnward

LEMMA SymlinkAttr == ASSUME Inv, AttrInv, NEW t \in Threads, SymlinkDone(t) PROVE AttrInv'
<1> DEFINE p == pc[t]
<1>1. PICK q \in Places : Moves(t, q) /\ q.at \in {"lookup", "child", "has"}
  BY SymlinkLooks
<1>2. /\ pc' = [pc EXCEPT ![t] = q] /\ UNCHANGED tree
      /\ p.at = "done" /\ p.op = "symlink" /\ p.dir \in Dirs
      /\ attr' = Invalid({p.dir, p.from.node}) /\ attr \in [Nodes -> Int \cup {None}]
  BY <1>1, DonePlaceOK DEF Moves, SymlinkDone, At, Touched, Inv, AttrOK
<1>3. attr'[p.dir] = None /\ \A n \in Nodes : attr'[n] \in {attr[n], None}
  BY <1>2, Distinct DEF Invalid
<1>4. attr'[p.dir] # 1
  BY <1>3, Distinct
<1> QED
  BY <1>1, <1>2, <1>3, <1>4, AttrOnward

\* The new node comes with its attributes, and nobody has had any business with it.
LEMMA MadeDoneAttr == ASSUME Inv, AttrInv, NEW t \in Threads, MadeDone(t) PROVE AttrInv'
<1> DEFINE p == pc[t]
           q == [p EXCEPT !.at = "hold"]
<1>1. /\ p \in Places /\ p.dir \in Dirs /\ p.at = "done" /\ p.op \in {"create", "mkdir"}
      /\ UNCHANGED tree /\ IsNew(p) /\ PlaceOK(p)
      /\ attr' = [Touched(p) EXCEPT ![p.node] = 0] /\ attr \in [Nodes -> Int \cup {None}]
  BY DonePlaceOK DEF MadeDone, At, IsNew, Inv, AttrOK
<1>2. pc' = [pc EXCEPT ![t] = q] /\ q.at = "hold"
  BY <1>1 DEF MadeDone, Go, Places
<1>3. p.node \in Nodes /\ p.node \notin known /\ p.node # p.dir
  BY <1>1, Distinct DEF Inv, NewOK, PlaceOK, NodeOK
<1>4. /\ \A n \in Nodes : n # p.node => attr'[n] \in {attr[n], None}
      /\ attr'[p.node] = 0 /\ attr'[p.dir] = None
  BY <1>1, <1>3, Distinct DEF Touched, Invalid
<1> HIDE DEF q
<1>5. DirAttrOK'
  <2>1. \A d \in Dirs : attr'[d] # None => attr'[d] <= 1 /\ (attr'[d] = 1 => attr[d] = 1)
    BY <1>4, Distinct DEF AttrInv, DirAttrOK
  <2>2. \A d \in known \cap Dirs : attr[d] = None => attr'[d] = None
    BY <1>3, <1>4, Distinct
  <2>3. attr'[p.dir] # 1
    BY <1>4, Distinct
  <2> QED
    BY <1>2, <2>1, <2>2, <2>3, DirStep DEF AttrInv
<1>6. FileAttrOK'
  <2>1. ASSUME NEW f \in Files
        PROVE  \/ attr'[f] = None
               \/ attr'[f] \in Nat
               \/ /\ attr[f] # None /\ attr'[f] \in Int
                  /\ attr'[f] - Owed(tree, p, f) + Owed(tree', q, f) >= attr[f]
    <3>1. Owed(tree, p, f) = 0 /\ Owed(tree', q, f) = 0
      BY <1>1, <1>2 DEF Owed, Owes
    <3>2. f # p.node /\ attr'[f] # None => attr'[f] = attr[f] /\ attr[f] \in Int
      BY <1>1, <1>4, Distinct
    <3> QED
      BY <1>4, <3>1, <3>2
  <2> QED
    BY <1>1, <1>2, <2>1, FileStep DEF AttrInv
<1> QED
  BY <1>5, <1>6 DEF AttrInv

LEMMA AskPlace ==
  ASSUME Inv, NEW t \in Threads, At(t, "has"), Ask(t, pc[t])
  PROVE  \E q \in Places :
           /\ pc' = [pc EXCEPT ![t] = q] /\ q.at = "asked" /\ q.op = pc[t].op
           /\ q.dir = pc[t].dir /\ q.name = pc[t].name /\ pc[t].dir \in Dirs
<1>1. pc[t] \in Places /\ PlaceOK(pc[t]) /\ pc[t].at = "has"
  BY DEF Inv, ThreadsOK, At
<1> DEFINE q == [pc[t] EXCEPT !.at = "asked"]
<1>2. /\ q \in Places /\ pc' = [pc EXCEPT ![t] = q] /\ q.at = "asked" /\ q.op = pc[t].op
      /\ q.dir = pc[t].dir /\ q.name = pc[t].name
  BY <1>1 DEF Ask, Go, Places
<1>3. pc[t].dir \in Dirs
  BY <1>1 DEF PlaceOK, NameOK
<1> HIDE DEF q
<1> QED
  BY <1>2, <1>3

\* The attributes of the directory are invalidated before Venus is asked.
LEMMA InvalidatesFirst ==
  ASSUME Inv, AttrInv, NEW t \in Threads, At(t, "has"), Ask(t, pc[t]), UNCHANGED tree,
         attr'[pc[t].dir] = None, \A n \in Nodes : attr'[n] \in {attr[n], None}
  PROVE  AttrInv'
<1> DEFINE p == pc[t]
<1>1. PICK q \in Places :
        /\ pc' = [pc EXCEPT ![t] = q] /\ q.at = "asked" /\ q.op = p.op /\ q.dir = p.dir
        /\ q.name = p.name /\ p.dir \in Dirs
  BY AskPlace
<1>2. p.at = "has"
  BY DEF At
<1>3. DirAttrOK'
  <2>1. \A d \in Dirs : attr'[d] # None => attr'[d] <= 1 /\ (attr'[d] = 1 => attr[d] = 1)
    BY Distinct DEF AttrInv, DirAttrOK
  <2>2. \A d \in known \cap Dirs : attr[d] = None => attr'[d] = None
    BY Distinct
  <2> QED
    BY <1>1, <1>2, <2>1, <2>2, DirStep DEF AttrInv
<1>4. FileAttrOK'
  <2>1. ASSUME NEW f \in Files
        PROVE  \/ attr'[f] = None
               \/ /\ attr[f] # None /\ attr'[f] \in Int
                  /\ attr'[f] - Owed(tree, p, f) + Owed(tree', q, f) >= attr[f]
    <3>1. Owed(tree, p, f) = 0 /\ Owed(tree', q, f) \in Nat
      BY <1>2 DEF Owed, Owes
    <3>2. attr'[f] # None => attr'[f] = attr[f] /\ attr[f] \in Int
      BY Distinct DEF Inv, AttrOK
    <3> QED
      BY <3>1, <3>2
  <2> QED
    BY <1>1, <2>1, FileStep DEF AttrInv
<1> QED
  BY <1>3, <1>4 DEF AttrInv

\* What coda_remove takes a link off is what Venus is asked to remove.
LEMMA RemoveAttr == ASSUME Inv, NamesInv, AttrInv, NEW t \in Threads, coda_remove(t) PROVE AttrInv'
<1> DEFINE p == pc[t]
           hit == {e.node : e \in Cached(p.dir, p.name)}
<1>1. /\ p.at = "has" /\ p.op = "remove" /\ UNCHANGED tree /\ p.dir \in Dirs
      /\ attr \in [Nodes -> Int \cup {None}]
  BY DEF coda_remove, At, Inv, AttrOK, ThreadsOK, PlaceOK, NameOK
<1>2. ASSUME pc' = [pc EXCEPT ![t] = Idle], \A n \in Nodes : attr'[n] \in {attr[n], None}
      PROVE  AttrInv'
  BY <1>1, <1>2, IdlePlace, AttrOnward
<1>3. CASE UNCHANGED attr /\ GiveBack(t, <<p.node, p.dir>>, <<>>)
  BY <1>2, <1>3 DEF GiveBack
<1>4. CASE attr' = [OneLinkLess(hit) EXCEPT ![p.dir] = None]
  <2>1. /\ attr'[p.dir] = None
        /\ \A n \in Nodes : n # p.dir =>
             attr'[n] = IF n \in hit /\ attr[n] # None /\ Links(n) + attr[n] > 1
                        THEN attr[n] - 1 ELSE attr[n]
    BY <1>1, <1>4, Distinct DEF OneLinkLess
  <2>2. CASE p.name = CtlName /\ GiveBack(t, <<p.node, p.dir>>, <<>>)
    <3>1. hit = {}
      BY <2>2, Distinct DEF Cached, Inv, CacheOK
    <3> HIDE DEF hit
    <3>2. \A n \in Nodes : attr'[n] \in {attr[n], None}
      BY <2>1, <3>1
    <3> QED
      BY <1>2, <2>2, <3>2 DEF GiveBack
  <2>3. CASE p.name # CtlName /\ Ask(t, p)
    <3>1. PICK q \in Places :
            /\ pc' = [pc EXCEPT ![t] = q] /\ q.at = "asked" /\ q.op = p.op /\ q.dir = p.dir
            /\ q.name = p.name
      BY <1>1, <2>3, AskPlace DEF At
    <3>2. p.name \in Names
      BY <1>1, <2>3 DEF Inv, ThreadsOK, PlaceOK, NameOK
    <3>3. ASSUME NEW n \in hit PROVE tree[p.dir][p.name] = n
      BY <3>2, <3>3 DEF Cached, NamesInv, EntriesOK, Agrees
    <3> HIDE DEF hit
    <3>4. \A d \in Dirs : attr'[d] # None => attr'[d] <= 1 /\ (attr'[d] = 1 => attr[d] = 1)
      <4>1. ASSUME NEW d \in Dirs, attr'[d] # None PROVE attr'[d] <= 1 /\ (attr'[d] = 1 => attr[d] = 1)
        <5>1. d # p.dir /\ d \in Nodes
          BY <2>1, <4>1, Distinct
        <5>2. attr[d] # None
          BY <2>1, <4>1, <5>1
        <5>3. attr[d] \in Int /\ attr[d] <= 1
          BY <1>1, <5>1, <5>2 DEF AttrInv, DirAttrOK
        <5>4. attr'[d] = attr[d] \/ attr'[d] = attr[d] - 1
          BY <2>1, <5>1
        <5> QED
          BY <5>3, <5>4
      <4> QED
        BY <4>1
    <3>5. \A d \in known \cap Dirs : attr[d] = None => attr'[d] = None
      BY <2>1, Distinct
    <3>6. DirAttrOK'
      BY <1>1, <2>1, <3>1, <3>4, <3>5, DirStep DEF AttrInv
    <3>7. ASSUME NEW f \in Files
          PROVE  \/ attr'[f] = None
                 \/ /\ attr[f] # None /\ attr'[f] \in Int
                    /\ attr'[f] - Owed(tree, p, f) + Owed(tree', q, f) >= attr[f]
      <4>1. f \in Nodes /\ f # p.dir /\ attr[f] \in Int \cup {None}
        BY <1>1, Distinct
      <4>2. Owed(tree, p, f) = 0 /\ Owed(tree', q, f) \in Nat
        BY <1>1 DEF Owed, Owes
      <4>3. CASE f \in hit
        <5>1. Owed(tree', q, f) = 1
          BY <1>1, <3>1, <3>3, <4>3 DEF Owed, Owes
        <5> QED
          BY <2>1, <4>1, <4>2, <5>1
      <4>4. CASE f \notin hit
        BY <2>1, <4>1, <4>2, <4>4
      <4> QED
        BY <4>3, <4>4
    <3>8. FileAttrOK'
      BY <1>1, <3>1, <3>7, FileStep DEF AttrInv
    <3> QED
      BY <3>6, <3>8 DEF AttrInv
  <2> QED
    BY <1>3, <1>4, <2>2, <2>3 DEF coda_remove
<1> QED
  BY <1>3, <1>4 DEF coda_remove

LEMMA RmdirRenameAttr ==
  ASSUME Inv, AttrInv, NEW t \in Threads, coda_rmdir(t) \/ coda_rename(t)
  PROVE  AttrInv'
<1> DEFINE p == pc[t]
<1>1. /\ At(t, "has") /\ UNCHANGED tree /\ p.dir \in Dirs /\ attr \in [Nodes -> Int \cup {None}]
  BY DEF coda_rmdir, coda_rename, At, Inv, AttrOK, ThreadsOK, PlaceOK, NameOK
<1>2. Ask(t, p) /\ \E D : p.dir \in D /\ attr' = Invalid(D)
  <2>1. CASE coda_rmdir(t)
    BY <2>1 DEF coda_rmdir
  <2>2. CASE coda_rename(t)
    BY <2>2, RenameAsks
  <2> QED
    BY <2>1, <2>2
<1>3. attr'[p.dir] = None /\ \A n \in Nodes : attr'[n] \in {attr[n], None}
  BY <1>1, <1>2, Distinct DEF Invalid
<1> QED
  BY <1>1, <1>2, <1>3, InvalidatesFirst

\* Attributes that are off after Venus has changed directory d and the links of x.
LEMMA OffAttr ==
  ASSUME attr \in [Nodes -> Int \cup {None}], NEW d, NEW x, NEW k \in Int, attr' = Off({d}, x, k)
  PROVE  /\ \A n \in Dirs : attr'[n] = IF attr[n] = None THEN None ELSE IF n = d THEN 1 ELSE attr[n]
         /\ \A n \in Files : n # d =>
              attr'[n] = IF attr[n] = None THEN None ELSE IF n = x THEN attr[n] - k ELSE attr[n]
<1>1. ASSUME NEW n \in Nodes
      PROVE  attr'[n] = IF attr[n] = None THEN None
                        ELSE IF n \in {d} THEN 1
                        ELSE IF n = x /\ x \in Files THEN attr[n] - k ELSE attr[n]
  BY DEF Off
<1> QED
  BY <1>1, Distinct

LEMMA VenusDoesAttr == ASSUME Inv, NamesInv, AttrInv, NEW t \in Threads, VenusDoes(t) PROVE AttrInv'
<1> DEFINE p == pc[t]
<1>1. PICK q \in Places :
         /\ pc' = [pc EXCEPT ![t] = q] /\ p.at = "asked" /\ q.at = "done"
         /\ q.op = p.op /\ q.dir = p.dir /\ q.name = p.name /\ q.from = p.from
         /\ q.dir \in Dirs /\ q.dir \in known /\ q.name \in Names /\ UNCHANGED <<cache, known>>
         /\ \/ \E g \in fresh : Makes(p, q, g)
            \/ LinksTo(p, q) \/ Empties(p, q) \/ Renames(p, q)
  BY Does
<1>2. /\ lock[p.dir] = t /\ DirsOK /\ attr \in [Nodes -> Int \cup {None}]
      /\ Changing(p)
  <2>1. Changing(p)
    BY <1>1 DEF Changing
  <2> QED
    BY <1>1, <2>1, ChangingHolds DEF NamesInv, Inv, AttrOK
<1>3. \A x \in Dirs, n \in Names : x # p.dir => tree'[x][n] = tree[x][n]
  <2> HIDE DEF p
  <2> QED
    BY <1>1, <1>2, DoesDirs
<1>4. pc'[t] = q /\ \A u \in Threads \ {t} : pc'[u] = pc[u]
  BY <1>1 DEF Inv, ThreadsOK
<1>5. ASSUME NEW u \in Threads \ {t}, pc[u].at \in {"asked", "done"}
      PROVE  pc[u].dir \in Dirs /\ pc[u].dir # p.dir
  <2>1. PlaceOK(pc[u]) /\ pc[u].dir \in Dirs
    BY <1>5 DEF Inv, ThreadsOK, PlaceOK, NameOK
  <2>2. lock[pc[u].dir] = u
    <3>1. pc[u].dir \in Held(pc[u])
      BY <1>5, <2>1, Distinct DEF Held
    <3> QED
      BY <2>1, <3>1, Distinct DEF Inv, LockOK
  <2> QED
    BY <1>2, <2>1, <2>2
<1>6. ASSUME NEW f \in Files, NEW u \in Threads \ {t}
      PROVE  Owes(tree', pc[u], f) <=> Owes(tree, pc[u], f)
  <2>1. CASE pc[u].at = "asked" /\ pc[u].op = "remove"
    <3>1. pc[u].name \in Names /\ pc[u].dir \in Dirs /\ pc[u].dir # p.dir
      BY <1>5, <2>1, AskedPlace DEF At
    <3> QED
      BY <1>3, <2>1, <3>1 DEF Owes
  <2>2. CASE ~(pc[u].at = "asked" /\ pc[u].op = "remove")
    BY <2>2 DEF Owes
  <2> QED
    BY <2>1, <2>2
<1>7. ASSUME NEW x, NEW k \in Int, attr' = Off({p.dir}, x, k) PROVE DirAttrOK'
  <2>1. \A n \in Dirs : attr'[n] = IF attr[n] = None THEN None ELSE IF n = p.dir THEN 1 ELSE attr[n]
    BY <1>2, <1>7, OffAttr
  <2>2. \A d \in Dirs : attr'[d] # None => attr'[d] <= 1
    BY <2>1 DEF AttrInv, DirAttrOK
  <2>3. ASSUME NEW d \in Dirs, attr'[d] = 1
        PROVE  \E u \in Threads : pc'[u].at = "done" /\ d \in {pc'[u].dir, pc'[u].from.dir}
    <3>1. CASE d = p.dir
      BY <1>1, <1>4, <3>1
    <3>2. CASE d # p.dir
      <4>1. attr[d] = 1
        BY <2>1, <2>3, <3>2, Distinct
      <4>2. PICK u \in Threads : pc[u].at = "done" /\ d \in {pc[u].dir, pc[u].from.dir}
        BY <4>1 DEF AttrInv, DirAttrOK
      <4> QED
        BY <1>1, <1>4, <4>2
    <3> QED
      BY <3>1, <3>2
  <2>4. ASSUME NEW u \in Threads, pc'[u].at = "asked", pc'[u].op \in Removing
        PROVE  attr'[pc'[u].dir] = None
    <3>1. u # t /\ pc'[u] = pc[u]
      BY <1>1, <1>4, <2>4
    <3>2. attr[pc[u].dir] = None /\ pc[u].dir \in Dirs
      BY <1>5, <2>4, <3>1 DEF AttrInv, DirAttrOK
    <3> QED
      BY <2>1, <3>1, <3>2
  <2>5. ASSUME NEW u \in Threads, pc'[u].at = "done", pc'[u].op \in Removing
        PROVE  attr'[pc'[u].dir] # 1
    <3>1. CASE u = t
      <4>1. attr[p.dir] = None
        BY <1>1, <1>4, <2>5, <3>1 DEF AttrInv, DirAttrOK
      <4>2. attr'[p.dir] = None
        BY <1>1, <2>1, <4>1
      <4> QED
        BY <1>1, <1>4, <3>1, <4>2, Distinct
    <3>2. CASE u # t
      <4>1. attr[pc[u].dir] # 1 /\ pc[u].dir \in Dirs /\ pc[u].dir # p.dir /\ pc'[u] = pc[u]
        BY <1>4, <1>5, <2>5, <3>2 DEF AttrInv, DirAttrOK
      <4> QED
        BY <2>1, <4>1, Distinct
    <3> QED
      BY <3>1, <3>2
  <2> QED
    BY <2>2, <2>3, <2>4, <2>5 DEF DirAttrOK
<1>8. ASSUME NEW x, NEW k \in Int, attr' = Off({p.dir}, x, k),
             \A f \in Files : f # x => Owed(tree, p, f) <= Owed(tree', q, f),
             x \in Files => k <= Owed(tree', q, x) - Owed(tree, p, x)
      PROVE  AttrInv'
  <2>1. \A f \in Files : f # p.dir =>
          attr'[f] = IF attr[f] = None THEN None ELSE IF f = x THEN attr[f] - k ELSE attr[f]
    <3> DEFINE d == p.dir
    <3>1. attr' = Off({d}, x, k) /\ attr \in [Nodes -> Int \cup {None}] /\ k \in Int
      BY <1>2, <1>8
    <3> HIDE DEF d
    <3>2. ASSUME NEW f \in Files, f # d
          PROVE  attr'[f] = IF attr[f] = None THEN None ELSE IF f = x THEN attr[f] - k ELSE attr[f]
      <4>1. f \in Nodes /\ f \notin {d}
        BY <3>2, Distinct
      <4> QED
        BY <3>1, <3>2, <4>1 DEF Off
    <3> QED
      BY <3>2 DEF d
  <2>2. \A f \in Files : f \in Nodes /\ f # p.dir
    BY <1>1, Distinct
  <2>3. ASSUME NEW f \in Files, attr'[f] # None
        PROVE  /\ attr[f] # None /\ attr'[f] \in Int
               /\ attr'[f] - Owed(tree, p, f) + Owed(tree', q, f) >= attr[f]
    <3>1. attr[f] # None /\ attr[f] \in Int
      BY <1>2, <2>1, <2>2, <2>3
    <3>2. Owed(tree, p, f) \in Nat /\ Owed(tree', q, f) \in Nat
      BY DEF Owed
    <3>3. CASE f = x
      BY <1>8, <2>1, <2>2, <3>1, <3>2, <3>3
    <3>4. CASE f # x
      BY <1>8, <2>1, <2>2, <3>1, <3>2, <3>4
    <3> QED
      BY <3>3, <3>4
  <2>4. FileAttrOK'
    BY <1>1, <1>6, <2>3, FileStep DEF AttrInv
  <2> QED
    BY <1>7, <1>8, <2>4 DEF AttrInv
<1>9. CASE \E g \in fresh : Makes(p, q, g)
  <2>1. p.op \in {"create", "mkdir", "symlink"} /\ attr' = Off({p.dir}, None, 0)
    BY <1>9 DEF Makes
  <2>2. \A f \in Files : Owed(tree, p, f) = 0 /\ Owed(tree', q, f) = 0
    BY <1>1, <2>1 DEF Owed, Owes
  <2>3. None \notin Files
    BY Distinct
  <2> HIDE DEF p
  <2> QED
    BY <1>8, <2>1, <2>2, <2>3
<1>10. CASE LinksTo(p, q)
  <2>1. p.op = "link" /\ p.from.node \in Files /\ attr' = Off({p.dir}, p.from.node, 1)
    BY <1>10 DEF LinksTo
  <2>2. \A f \in Files : Owed(tree, p, f) = 0 /\ Owed(tree', q, f) = (IF f = p.from.node THEN 1 ELSE 0)
    BY <1>1, <2>1 DEF Owed, Owes
  <2> HIDE DEF p
  <2> QED
    BY <1>8, <2>1, <2>2
<1>11. CASE Empties(p, q)
  <2> DEFINE there == tree[p.dir][p.name]
  <2>1. p.op \in {"remove", "rmdir"} /\ attr' = Off({p.dir}, there, -1) /\ -1 \in Int
    BY <1>11 DEF Empties
  <2>2. \A f \in Files : Owed(tree', q, f) = 0 /\ Owed(tree, p, f) \in {0, 1}
                         /\ (f # there => Owed(tree, p, f) = 0)
    BY <1>1, <2>1 DEF Owed, Owes
  <2> HIDE DEF p, there
  <2>3. \A f \in Files : f # there => Owed(tree, p, f) <= Owed(tree', q, f)
    BY <2>2
  <2>4. there \in Files => -1 <= Owed(tree', q, there) - Owed(tree, p, there)
    BY <2>2
  <2> QED
    BY <1>8, <2>1, <2>3, <2>4
<1>12. CASE Renames(p, q)
  <2> DEFINE there == tree[p.dir][p.name]
  <2>1. p.op = "rename" /\ attr' = Off({p.dir}, there, -1) /\ -1 \in Int
    BY <1>12 DEF Renames
  <2>2. \A f \in Files : Owed(tree, p, f) = 0 /\ Owed(tree', q, f) = 0
    BY <1>1, <2>1 DEF Owed, Owes
  <2> HIDE DEF p, there
  <2> QED
    BY <1>8, <2>1, <2>2
<1> QED
  BY <1>1, <1>9, <1>10, <1>11, <1>12

\* Another client replaces or removes a file: who was about to remove it owes nothing any more.
LEMMA ElsewhereAttr ==
  ASSUME Inv, AttrInv, NEW d \in Dirs, NEW n \in Names, Elsewhere(d, n)
  PROVE  AttrInv'
<1> DEFINE there == tree[d][n]
<1>1. PICK g \in (fresh \cap Files) \cup {None} : tree' = [tree EXCEPT ![d][n] = g]
  BY DEF Elsewhere
<1>2. /\ there \in Files /\ UNCHANGED pc
      /\ attr' = [Off({d}, there, -1) EXCEPT ![d] = IF d \in known THEN None ELSE @]
      /\ attr \in [Nodes -> Int \cup {None}]
      /\ tree \in [Dirs -> [Names -> Dirs \cup Files \cup {None}]]
      /\ \A x \in Nodes : attr[x] # None => x \in known
  BY DEF Elsewhere, Inv, AttrOK, TreeOK
<1> HIDE DEF there
<1>3. /\ attr'[d] = None
      /\ \A x \in Dirs : x # d => attr'[x] = attr[x]
      /\ \A f \in Files : attr'[f] = IF attr[f] = None THEN None
                                     ELSE IF f = there THEN attr[f] + 1 ELSE attr[f]
  <2> DEFINE O == Off({d}, there, -1)
  <2>1. \A x \in Nodes : O[x] = IF attr[x] = None THEN None
                                ELSE IF x \in {d} THEN 1
                                ELSE IF x = there /\ there \in Files THEN attr[x] - (-1) ELSE attr[x]
    BY DEF Off
  <2>2. DOMAIN O = Nodes /\ attr' = [O EXCEPT ![d] = IF d \in known THEN None ELSE @]
    BY <1>2 DEF Off
  <2>3. d \in Nodes /\ Dirs \subseteq Nodes /\ Files \subseteq Nodes /\ Dirs \cap Files = {}
    BY Distinct
  <2> HIDE DEF O
  <2>4. \A x \in Nodes : attr'[x] = IF x = d THEN (IF d \in known THEN None ELSE O[d]) ELSE O[x]
    BY <2>2, <2>3
  <2>5. attr'[d] = None
    BY <1>2, <2>1, <2>3, <2>4
  <2>6. \A x \in Dirs : x # d => attr'[x] = attr[x]
    BY <1>2, <2>1, <2>3, <2>4
  <2>7. ASSUME NEW f \in Files
        PROVE  attr'[f] = IF attr[f] = None THEN None
                          ELSE IF f = there THEN attr[f] + 1 ELSE attr[f]
    <3>1. f \in Nodes /\ f # d
      BY <2>3
    <3>2. attr'[f] = O[f]
      BY <2>4, <3>1
    <3>3. attr[f] # None => attr[f] \in Int
      BY <1>2, <3>1
    <3> QED
      BY <1>2, <2>1, <3>1, <3>2, <3>3
  <2> QED
    BY <2>5, <2>6, <2>7
<1>4. DirAttrOK'
  <2>1. \A u \in Threads : pc[u].at \in {"asked", "done"} => pc[u].dir \in Dirs
    BY DEF Inv, ThreadsOK, PlaceOK, NameOK
  <2>2. \A x \in Dirs : attr'[x] \in {attr[x], None}
    BY <1>3
  <2>3. \A x \in Dirs : attr'[x] # None => attr'[x] = attr[x] /\ attr'[x] <= 1
    BY <2>2 DEF AttrInv, DirAttrOK
  <2>4. \A x \in Dirs : attr'[x] = 1 =>
          \E t \in Threads : pc'[t].at = "done" /\ x \in {pc'[t].dir, pc'[t].from.dir}
    BY <1>2, <2>3, Distinct DEF AttrInv, DirAttrOK
  <2>5. \A t \in Threads : pc'[t].at = "asked" /\ pc'[t].op \in Removing => attr'[pc'[t].dir] = None
    BY <1>2, <2>1, <2>2 DEF AttrInv, DirAttrOK
  <2>6. \A t \in Threads : pc'[t].at = "done" /\ pc'[t].op \in Removing => attr'[pc'[t].dir] # 1
    <3>1. None # 1
      BY Distinct
    <3> QED
      BY <1>2, <2>1, <2>2, <3>1 DEF AttrInv, DirAttrOK
  <2> QED
    BY <2>3, <2>4, <2>5, <2>6 DEF DirAttrOK
<1>5. ASSUME NEW f \in Files, attr'[f] # None PROVE attr'[f] + Cardinality(Owers(f)') >= 0
  <2>1. f \in Nodes /\ attr[f] # None /\ attr[f] \in Int
    BY <1>2, <1>3, <1>5, Distinct
  <2>2. attr[f] + Cardinality(Owers(f)) >= 0
    BY <2>1 DEF AttrInv, FileAttrOK
  <2>3. IsFiniteSet(Owers(f)) /\ Cardinality(Owers(f)) \in Nat
    BY OwersFinite
  <2>4. Owers(f)' = {u \in Threads : Owes(tree', pc[u], f)}
    BY <1>2 DEF Owers, Owes
  <2>5. IsFiniteSet(Owers(f)') /\ Cardinality(Owers(f)') \in Nat
    <3>1. Owers(f)' \subseteq Threads
      BY <2>4
    <3> QED
      BY <3>1, FS_Subset, FS_CardinalityType, NamesAssumption
  <2>6. ASSUME NEW u \in Threads, Owes(tree, pc[u], f), ~Owes(tree', pc[u], f)
        PROVE  f = there /\ lock[d] = u
    <3>1. pc[u].op = "remove" /\ pc[u].at = "asked" /\ tree[pc[u].dir][pc[u].name] = f
      BY <2>6 DEF Owes
    <3>2. pc[u].dir \in Dirs /\ pc[u].name \in Names
      BY <3>1, AskedPlace DEF At
    <3>3. pc[u].dir = d /\ pc[u].name = n
      BY <1>1, <1>2, <2>6, <3>1, <3>2 DEF Owes
    <3>4. lock[pc[u].dir] = u
      BY <3>1, <3>2, ChangingHolds DEF Changing
    <3> QED
      BY <3>1, <3>3, <3>4 DEF there
  <2>7. CASE f # there
    <3>1. Owers(f) \subseteq Owers(f)'
      BY <2>4, <2>6, <2>7 DEF Owers
    <3>2. Cardinality(Owers(f)) <= Cardinality(Owers(f)')
      BY <2>5, <3>1, FS_Subset
    <3>3. attr'[f] = attr[f]
      BY <1>3, <2>1, <2>7
    <3> QED
      BY <2>1, <2>2, <2>3, <2>5, <3>2, <3>3
  <2>8. CASE f = there
    <3>1. Owers(f) \subseteq Owers(f)' \cup {lock[d]}
      BY <2>4, <2>6 DEF Owers
    <3>2. /\ IsFiniteSet(Owers(f)' \cup {lock[d]})
          /\ Cardinality(Owers(f)' \cup {lock[d]}) =
               IF lock[d] \in Owers(f)' THEN Cardinality(Owers(f)') ELSE Cardinality(Owers(f)') + 1
      BY <2>5, FS_AddElement
    <3>3. Cardinality(Owers(f)) <= Cardinality(Owers(f)' \cup {lock[d]})
      BY <3>1, <3>2, FS_Subset
    <3>4. attr'[f] = attr[f] + 1
      BY <1>3, <2>1, <2>8
    <3> QED
      BY <2>1, <2>2, <2>3, <2>5, <3>2, <3>3, <3>4
  <2> QED
    BY <2>7, <2>8
<1>6. FileAttrOK'
  BY <1>5 DEF FileAttrOK
<1> QED
  BY <1>4, <1>6 DEF AttrInv

LEMMA getattrAttr == ASSUME Inv, AttrInv, Prudent, NEW n \in Nodes, coda_getattr(n) PROVE AttrInv'
<1>1. /\ attr[n] = None /\ attr' = [attr EXCEPT ![n] = 0] /\ UNCHANGED <<pc, tree>>
      /\ \A t \in Threads : pc[t].op \in Removing /\ pc[t].at = "asked" => n # pc[t].dir
      /\ attr \in [Nodes -> Int \cup {None}]
  BY DEF coda_getattr, Settled, Prudent, Inv, AttrOK, Removing
<1>2. attr'[n] = 0 /\ \A x \in Nodes : x # n => attr'[x] = attr[x]
  BY <1>1
<1>3. \A u \in Threads : pc[u].at \in {"asked", "done"} => pc[u].dir \in Dirs /\ pc[u].dir \in Nodes
  BY Distinct DEF Inv, ThreadsOK, PlaceOK, NameOK
<1>4. DirAttrOK'
  <2>1. \A d \in Dirs : attr'[d] # None => attr'[d] <= 1 /\ (attr'[d] = 1 => attr[d] = 1)
    BY <1>2, Distinct DEF AttrInv, DirAttrOK
  <2>2. \A d \in Dirs : attr'[d] = 1 =>
          \E t \in Threads : pc'[t].at = "done" /\ d \in {pc'[t].dir, pc'[t].from.dir}
    BY <1>1, <2>1, Distinct DEF AttrInv, DirAttrOK
  <2>3. \A t \in Threads : pc'[t].at = "asked" /\ pc'[t].op \in Removing => attr'[pc'[t].dir] = None
    BY <1>1, <1>2, <1>3 DEF AttrInv, DirAttrOK
  <2>4. \A t \in Threads : pc'[t].at = "done" /\ pc'[t].op \in Removing => attr'[pc'[t].dir] # 1
    BY <1>1, <1>2, <1>3 DEF AttrInv, DirAttrOK
  <2> QED
    BY <2>1, <2>2, <2>3, <2>4 DEF DirAttrOK
<1>5. FileAttrOK'
  <2>1. ASSUME NEW f \in Files, attr'[f] # None PROVE attr'[f] + Cardinality(Owers(f)') >= 0
    <3>1. Owers(f)' = Owers(f) /\ Cardinality(Owers(f)) \in Nat
      BY <1>1, OwersFinite DEF Owers, Owes
    <3>2. attr[f] # None => attr[f] + Cardinality(Owers(f)) >= 0
      BY DEF AttrInv, FileAttrOK
    <3>3. f \in Nodes
      BY Distinct
    <3> QED
      BY <1>2, <2>1, <3>1, <3>2, <3>3
  <2> QED
    BY <2>1 DEF FileAttrOK
<1> QED
  BY <1>4, <1>5 DEF AttrInv

LEMMA StillAttr == ASSUME AttrInv, UNCHANGED <<attr, pc, tree>> PROVE AttrInv'
<1>1. DirAttrOK'
  BY DEF AttrInv, DirAttrOK
<1>2. FileAttrOK'
  <2>1. \A f : Owers(f)' = Owers(f)
    BY DEF Owers, Owes
  <2> QED
    BY <2>1 DEF AttrInv, FileAttrOK
<1> QED
  BY <1>1, <1>2 DEF AttrInv

LEMMA AttrNext ==
  ASSUME Inv, NamesInv, AttrInv, Prudent, [Next]_vars
  PROVE  AttrInv'
<1>1. Calm /\ \A t \in Threads : ~Interrupted(t)
  BY DEF Prudent, Calm, Interrupted
<1>2. CASE UNCHANGED vars
  BY <1>2, StillAttr DEF vars
<1>3. CASE Purge
  BY <1>3, StillAttr DEF Purge
<1> QED
  BY <1>1, <1>2, <1>3, ModestlyAttr, LooksAttr, SymlinkAttr, MadeDoneAttr, RemoveAttr,
     RmdirRenameAttr, VenusDoesAttr, ElsewhereAttr, getattrAttr DEF Next, Modestly

LEMMA AttrInit == Init => AttrInv
BY IdlePlace, Distinct DEF Init, AttrInv, DirAttrOK, FileAttrOK

LEMMA AttrsRight == Inv /\ AttrInv => AttrRight
<1> SUFFICES ASSUME Inv, AttrInv PROVE AttrRight
  OBVIOUS
<1>1. ASSUME \A t \in Threads : At(t, "idle"), NEW f \in Files, attr[f] # None PROVE attr[f] >= 0
  <2>1. Owers(f) = {}
    BY <1>1 DEF Owers, Owes, At
  <2>2. Cardinality(Owers(f)) = 0
    BY <2>1, FS_EmptySet
  <2>3. attr[f] \in Int /\ attr[f] + Cardinality(Owers(f)) >= 0
    BY <1>1, Distinct DEF Inv, AttrOK, AttrInv, FileAttrOK
  <2> QED
    BY <2>2, <2>3
<1> QED
  BY <1>1, InvType DEF AttrRight, AttrInv, DirAttrOK

\* Without misfortunes the cached attributes of a directory that has changed are invalidated
\* by the one who has changed it, and no cached link count is too small between operations:
\* what coda_remove takes off in advance, Venus has taken off when it answers.
THEOREM NamesAttrRight == Prudent => (Spec => []AttrRight)
<1> SUFFICES ASSUME Prudent PROVE Spec => []AttrRight
  OBVIOUS
<1>1. Calm /\ Punctual
  BY DEF Prudent, Calm, Punctual
<1>2. Init => Inv /\ NamesInv /\ AttrInv
  BY InvInit, NamesInit, AttrInit
<1>3. Inv /\ NamesInv /\ AttrInv /\ [Next]_vars => (Inv /\ NamesInv /\ AttrInv)'
  BY <1>1, InvNext, NamesNext, AttrNext
<1> QED
  BY <1>2, <1>3, AttrsRight, PTL DEF Spec
=============================================================================
