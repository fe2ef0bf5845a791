--------------------------- MODULE CodaTigerProofs ---------------------------
(***************************************************************************)
(* Proofs about CodaTiger: for any number of threads, nodes, users and     *)
(* operations, and however operations overlap, the variables keep their    *)
(* types, references and counts of opens agree (OpensRight), and what the  *)
(* port has cached is right: names, attributes and rights are what Venus   *)
(* has, or an operation that will mend them is between its answer and its  *)
(* clean-up; a created node is one nobody had seen (RightInv).             *)
(***************************************************************************)
EXTENDS CodaTiger, FiniteSetTheorems, TLAPS

-----------------------------------------------------------------------------
(* The inductive invariant.                                                *)

InDirs == {"lookup", "access", "create", "mkdir", "symlink", "link", "remove",
           "rmdir", "rename"}
OnNodes == {"getattr", "setattr", "readlink", "open", "close", "rdwr",
            "rdwrclose", "readdir"}
Closes == {"close", "rdwrclose"}

Places ==
  [at : {"idle", "asked", "done", "refused"}, op : {"none"} \cup InDirs \cup OnNodes,
   cred : Creds \cup {None}, dir : Dirs \cup {None},
   name : Names \cup {Dot, DotDot, None}, node : Nodes \cup {None},
   to : Dirs \cup {None}, toname : Names \cup {None}, write : BOOLEAN]

\* What an operation is about.
PlaceOK(p) ==
  /\ p.at = "idle" <=> p.op = "none"
  /\ p.op # "none" => p.cred \in Creds
  /\ p.op \in InDirs => p.dir \in Dirs
  /\ p.op \in InDirs \ {"access"} => p.name \in Names \cup {DotDot}
  /\ p.op \in InDirs \ {"lookup", "access"} => p.name \in Names
  /\ p.op = "rename" => p.to \in Dirs /\ p.toname \in Names
  /\ p.op \in OnNodes \cup {"link"} => p.node \in Nodes
  /\ p.op = "readlink" => p.node \in Files
  /\ p.op \in {"lookup", "access", "create", "mkdir"} /\ p.at = "done" => p.node \in Nodes
  /\ p.op = "mkdir" /\ p.at = "done" => p.node \in Dirs

ThreadsOK == pc \in [Threads -> Places] /\ \A t \in Threads : PlaceOK(pc[t])

CacheOK ==
  /\ cache \subseteq [dir : Dirs, name : Names \cup {Dot, DotDot}, cred : Creds, node : Nodes]
  /\ IsFiniteSet(cache) /\ Cardinality(cache) <= CacheSize

AttrOK == attr \in [Nodes -> {None, "new", "old"}]

PathsOK ==
  /\ symlink \in [Files -> BOOLEAN] /\ paths \in [Files -> Nat]
  /\ \A f \in Files : symlink[f] => paths[f] > 0

\* The kernel closes no more than it has opened.
CountsOK ==
  /\ ocount \in [Nodes -> Nat] /\ owrite \in [Nodes -> Nat]
  /\ opens \in [Nodes -> [BOOLEAN -> Nat]]
  /\ \A f \in Files : opens[f][TRUE] + opens[f][FALSE] <= ocount[f] /\ opens[f][TRUE] <= owrite[f]
  /\ \A n \in Nodes : owrite[n] + opens[n][FALSE] <= ocount[n]

\* Who closes has a reference that coda_open took, until Venus knows.
IsCloser(p, n) == p.op \in Closes /\ p.node = n
Closers(n) == {t \in Threads : IsCloser(pc[t], n)}

RefsOK ==
  /\ refs \in [Nodes -> Nat]
  /\ \A n \in Nodes : refs[n] = ocount[n] + Cardinality(Closers(n))

RestOK ==
  /\ known \subseteq Nodes /\ tree \in [Dirs -> [Names -> Nodes \cup {None}]]
  /\ fresh \subseteq Nodes /\ rights \subseteq Users \X Dirs /\ owner \in [Creds -> Users]
  /\ panicked \subseteq Nodes /\ reused \subseteq Creds /\ ops \in 0..MaxOps

RacedOK == raced \subseteq Nodes

Inv ==
  /\ ThreadsOK /\ CacheOK /\ AttrOK /\ PathsOK /\ CountsOK /\ RefsOK /\ RestOK /\ RacedOK

LEMMA InvType == Inv => TypeOK
<1> SUFFICES ASSUME Inv PROVE TypeOK
  OBVIOUS
<1>1. DOMAIN pc = Threads /\ \A t \in Threads : pc[t].at \in {"idle", "asked", "done", "refused"}
  BY DEF Inv, ThreadsOK, Places
<1> QED
  BY <1>1 DEF Inv, CacheOK, AttrOK, PathsOK, CountsOK, RefsOK, RestOK, RacedOK, TypeOK

LEMMA InvOpens == Inv => OpensRight
<1> SUFFICES ASSUME Inv PROVE OpensRight
  OBVIOUS
<1>1. \A n \in Nodes : Closers(n) = {t \in Threads : pc[t].op \in {"close", "rdwrclose"}
                                                      /\ pc[t].node = n}
  BY DEF Closers, IsCloser, Closes
<1> QED
  BY <1>1, InvType DEF Inv, RefsOK, CountsOK, OpensRight

LEMMA IdlePlace ==
  /\ Idle \in Places /\ PlaceOK(Idle)
  /\ Idle.op = "none" /\ \A n : ~IsCloser(Idle, n)
  /\ Touches(Idle) = {}
BY DEF Idle, Places, PlaceOK, IsCloser, Closes, InDirs, OnNodes, Touches

LEMMA InvInit == Init => Inv
<1> SUFFICES ASSUME Init PROVE Inv
  OBVIOUS
<1>1. ThreadsOK
  BY IdlePlace DEF Init, ThreadsOK
<1>2. CacheOK
  BY FS_EmptySet, TigerAssumption DEF Init, CacheOK
<1>3. AttrOK /\ PathsOK
  BY DEF Init, AttrOK, PathsOK
<1>4. CountsOK
  <2>1. \A f \in Files : f \in Nodes
    BY DEF Nodes
  <2>2. \A n \in Nodes : ocount[n] = 0 /\ owrite[n] = 0 /\ opens[n] = [w \in BOOLEAN |-> 0]
    BY DEF Init
  <2>3. \A n \in Nodes : opens[n][TRUE] = 0 /\ opens[n][FALSE] = 0
    BY <2>2
  <2>4. /\ ocount \in [Nodes -> Nat] /\ owrite \in [Nodes -> Nat]
        /\ opens \in [Nodes -> [BOOLEAN -> Nat]]
    BY DEF Init
  <2>5. \A f \in Files : opens[f][TRUE] + opens[f][FALSE] <= ocount[f] /\ opens[f][TRUE] <= owrite[f]
    <3> TAKE f \in Files
    <3>1. ocount[f] = 0 /\ owrite[f] = 0 /\ opens[f][TRUE] = 0 /\ opens[f][FALSE] = 0
      BY <2>1, <2>2, <2>3
    <3> QED
      BY <3>1
  <2>6. \A n \in Nodes : owrite[n] + opens[n][FALSE] <= ocount[n]
    <3> TAKE n \in Nodes
    <3>1. ocount[n] = 0 /\ owrite[n] = 0 /\ opens[n][FALSE] = 0
      BY <2>2, <2>3
    <3> QED
      BY <3>1
  <2> QED
    BY <2>4, <2>5, <2>6 DEF CountsOK
<1>5. RefsOK
  <2>1. \A n \in Nodes : Closers(n) = {}
    <3> TAKE n \in Nodes
    <3>1. \A t \in Threads : pc[t] = Idle
      BY DEF Init
    <3> QED
      BY <3>1, IdlePlace DEF Closers
  <2>2. Cardinality({}) = 0
    BY FS_EmptySet
  <2>3. \A n \in Nodes : refs[n] = 0 /\ ocount[n] = 0
    BY DEF Init
  <2>4. refs \in [Nodes -> Nat]
    BY DEF Init
  <2> QED
    BY <2>1, <2>2, <2>3, <2>4 DEF RefsOK
<1>6. RestOK /\ RacedOK
  <2>1. Tree \in [Dirs -> [Names -> Nodes \cup {None}]] /\ Root \in Nodes /\ MaxOps \in Nat
    BY TigerAssumption DEF Nodes
  <2>2. Linked(Tree) \subseteq Nodes
    BY <2>1 DEF Linked
  <2> QED
    BY <2>1, <2>2 DEF Init, RestOK, RacedOK
<1> QED
  BY <1>1, <1>2, <1>3, <1>4, <1>5, <1>6 DEF Inv

-----------------------------------------------------------------------------
(* What steps have in common.                                              *)

LEMMA CloserFinite == \A n : IsFiniteSet(Closers(n)) /\ Cardinality(Closers(n)) \in Nat
<1> TAKE n
<1>1. Closers(n) \subseteq Threads
  BY DEF Closers
<1>2. IsFiniteSet(Closers(n))
  BY <1>1, FS_Subset, TigerAssumption
<1> QED
  BY <1>2, FS_CardinalityType

\* One thread moves: those that close a node are one more, one less or the same.
LEMMA CloserMoves ==
  ASSUME ThreadsOK, NEW t \in Threads, NEW q, pc' = [pc EXCEPT ![t] = q], NEW n
  PROVE  /\ (IsCloser(q, n) <=> IsCloser(pc[t], n))
              => Cardinality(Closers(n)') = Cardinality(Closers(n))
         /\ IsCloser(q, n) /\ ~IsCloser(pc[t], n)
              => Cardinality(Closers(n)') = Cardinality(Closers(n)) + 1
         /\ ~IsCloser(q, n) /\ IsCloser(pc[t], n)
              => /\ Cardinality(Closers(n)') = Cardinality(Closers(n)) - 1
                 /\ Cardinality(Closers(n)) > 0
<1>1. /\ pc'[t] = q /\ \A u \in Threads : u # t => pc'[u] = pc[u]
  BY DEF ThreadsOK
<1>2. Closers(n)' = {u \in Threads : IsCloser(pc'[u], n)}
  BY DEF Closers, IsCloser
<1>3. IsFiniteSet(Closers(n)) /\ Cardinality(Closers(n)) \in Nat
  BY CloserFinite
<1>4. CASE IsCloser(q, n) <=> IsCloser(pc[t], n)
  <2>1. Closers(n)' = Closers(n)
    BY <1>1, <1>2, <1>4 DEF Closers
  <2> QED
    BY <1>4, <2>1
<1>5. CASE IsCloser(q, n) /\ ~IsCloser(pc[t], n)
  <2>1. Closers(n)' = Closers(n) \cup {t} /\ t \notin Closers(n)
    BY <1>1, <1>2, <1>5 DEF Closers
  <2>2. Cardinality(Closers(n)') = Cardinality(Closers(n)) + 1
    BY <1>3, <2>1, FS_AddElement
  <2> QED
    BY <1>5, <2>2
<1>6. CASE ~IsCloser(q, n) /\ IsCloser(pc[t], n)
  <2>1. Closers(n)' = Closers(n) \ {t} /\ t \in Closers(n)
    BY <1>1, <1>2, <1>6 DEF Closers
  <2>2. Cardinality(Closers(n)') = Cardinality(Closers(n)) - 1
    BY <1>3, <2>1, FS_RemoveElement
  <2>3. IsFiniteSet(Closers(n)')
    BY <1>3, <2>1, FS_RemoveElement
  <2>4. Cardinality(Closers(n)') \in Nat
    BY <2>3, FS_CardinalityType
  <2> QED
    BY <1>3, <1>6, <2>2, <2>4
<1> QED
  BY <1>4, <1>5, <1>6

\* A thread goes from place to place and neither begins nor ends a close.
LEMMA Quiet ==
  ASSUME Inv, NEW t \in Threads, NEW q \in Places, PlaceOK(q),
         pc' = [pc EXCEPT ![t] = q],
         \A n \in Nodes : IsCloser(q, n) <=> IsCloser(pc[t], n)
  PROVE  /\ ThreadsOK'
         /\ UNCHANGED <<refs, ocount>> => RefsOK'
<1>1. ThreadsOK'
  BY DEF Inv, ThreadsOK
<1>2. \A n \in Nodes : Cardinality(Closers(n)') = Cardinality(Closers(n))
  BY CloserMoves DEF Inv
<1> QED
  BY <1>1, <1>2 DEF Inv, RefsOK

LEMMA CacheLess == ASSUME CacheOK, cache' \subseteq cache PROVE CacheOK'
<1>1. IsFiniteSet(cache') /\ Cardinality(cache') <= Cardinality(cache)
  BY FS_Subset DEF CacheOK
<1>2. Cardinality(cache') \in Nat /\ Cardinality(cache) \in Nat
  BY <1>1, FS_CardinalityType DEF CacheOK
<1> QED
  BY <1>1, <1>2, TigerAssumption DEF CacheOK

LEMMA AttrValues ==
  ASSUME AttrOK, NEW D
  PROVE  /\ Invalid(D) \in [Nodes -> {None, "new", "old"}]
         /\ Outdated(D) \in [Nodes -> {None, "new", "old"}]
BY DEF AttrOK, Invalid, Outdated

LEMMA TouchesNodes == ASSUME NEW p \in Places PROVE Touches(p) \subseteq Nodes
BY DEF Places, Touches, Nodes

\* The references of nodes stay while nobody moves.
LEMMA StayRefs ==
  ASSUME Inv, UNCHANGED <<pc, refs, ocount>>
  PROVE  ThreadsOK' /\ RefsOK'
<1>1. ThreadsOK'
  BY DEF Inv, ThreadsOK
<1>2. \A n \in Nodes : Closers(n)' = Closers(n)
  BY DEF Closers, IsCloser
<1> QED
  BY <1>1, <1>2 DEF Inv, RefsOK

-----------------------------------------------------------------------------
(* The operations up to their upcall.                                      *)

\* What a thread that moves may disturb.
MovesOK == ThreadsOK /\ CacheOK /\ AttrOK /\ PathsOK /\ CountsOK /\ RefsOK /\ RacedOK

\* Whoever begins to read a symlink has found no path; and operations that overlap
\* are recorded.
Reads ==
  \A u \in Threads : pc'[u].op = "readlink" =>
    (pc[u].op = "readlink" /\ pc'[u].node = pc[u].node) \/ ~symlink[pc'[u].node]
Overlaps == raced \subseteq raced' /\ (UNCHANGED pc \/ Shared(pc') \subseteq raced')
Steps == Reads /\ Overlaps

LEMMA MovesInv == ASSUME MovesOK', RestOK' PROVE Inv'
BY DEF MovesOK, Inv

LEMMA GoesRaced ==
  ASSUME Inv, NEW t, NEW q, Goes(t, q)
  PROVE  RacedOK' /\ Overlaps /\ pc' = [pc EXCEPT ![t] = q]
<1>1. pc' = [pc EXCEPT ![t] = q] /\ raced' = raced \cup Shared(pc')
  BY DEF Goes
<1>2. Shared(pc') \subseteq Nodes
  BY DEF Shared
<1> QED
  BY <1>1, <1>2 DEF Inv, RacedOK, Overlaps

LEMMA MovesReads ==
  ASSUME Inv, NEW t \in Threads, NEW q, pc' = [pc EXCEPT ![t] = q],
         q.op = "readlink" => (pc[t].op = "readlink" /\ q.node = pc[t].node) \/ ~symlink[q.node]
  PROVE  Reads
<1>1. pc'[t] = q /\ \A u \in Threads : u # t => pc'[u] = pc[u]
  BY DEF Inv, ThreadsOK
<1> QED
  BY <1>1 DEF Reads

LEMMA IdleReads == ASSUME Inv, NEW t \in Threads, Return(t) PROVE Steps
<1>1. Overlaps /\ pc' = [pc EXCEPT ![t] = Idle]
  BY GoesRaced DEF Return
<1> QED
  BY <1>1, IdlePlace, MovesReads DEF Steps

LEMMA PPlace ==
  ASSUME NEW op \in InDirs \cup OnNodes, NEW c \in Creds
  PROVE  P(op, c) \in Places /\ P(op, c).op = op /\ P(op, c).cred = c
BY IdlePlace DEF P, Places

\* An idle thread begins something other than a close, and files stay as they are.
LEMMA Begins ==
  ASSUME Inv, NEW t \in Threads, At(t, "idle"), NEW q \in Places, PlaceOK(q),
         q.op \notin Closes, pc' = [pc EXCEPT ![t] = q], UNCHANGED files
  PROVE  ThreadsOK' /\ RefsOK' /\ PathsOK' /\ CountsOK'
<1>1. pc[t].op = "none"
  BY DEF Inv, ThreadsOK, PlaceOK, At
<1>2. \A n \in Nodes : IsCloser(q, n) <=> IsCloser(pc[t], n)
  BY <1>1 DEF IsCloser, Closes
<1>3. ThreadsOK' /\ RefsOK'
  BY <1>2, Quiet DEF files
<1>4. PathsOK' /\ CountsOK'
  BY DEF files, Inv, PathsOK, CountsOK
<1> QED
  BY <1>3, <1>4

LEMMA BeginsOnly ==
  ASSUME Inv, NEW t \in Threads, At(t, "idle"), NEW q \in Places, PlaceOK(q),
         q.op \notin Closes, Goes(t, q), UNCHANGED <<cache, attr, files>>,
         q.op = "readlink" => ~symlink[q.node]
  PROVE  MovesOK' /\ Steps
<1>1. RacedOK' /\ Overlaps /\ pc' = [pc EXCEPT ![t] = q]
  BY GoesRaced
<1>2. ThreadsOK' /\ RefsOK' /\ PathsOK' /\ CountsOK'
  BY <1>1, Begins
<1>3. CacheOK' /\ AttrOK'
  BY DEF Inv, CacheOK, AttrOK
<1>4. Reads
  BY <1>1, MovesReads
<1> QED
  BY <1>1, <1>2, <1>3, <1>4 DEF MovesOK, Steps

LEMMA IdleBegins ==
  ASSUME Inv, NEW t \in Threads, At(t, "idle"), Return(t), UNCHANGED <<cache, attr, files>>
  PROVE  MovesOK' /\ Steps
<1>1. Idle.op \notin Closes
  BY IdlePlace DEF Closes
<1> QED
  BY <1>1, IdlePlace, BeginsOnly DEF Return

\* These wait for Venus first.
LEMMA AsksInDir ==
  ASSUME Inv, NEW t \in Threads, At(t, "idle"), NEW c \in Creds,
         \/ coda_lookup(t, c) \/ coda_access(t, c) \/ coda_create(t, c) \/ coda_mkdir(t, c)
         \/ coda_symlink(t, c) \/ coda_link(t, c)
  PROVE  MovesOK' /\ Steps
<1>1. UNCHANGED <<cache, attr, files>>
  BY DEF coda_lookup, coda_access, coda_create, coda_mkdir, coda_symlink, coda_link
<1>2. CASE coda_lookup(t, c)
  <2>1. PICK d \in known \cap Dirs, n \in Names \cup {DotDot} :
          Ask(t, [P("lookup", c) EXCEPT !.dir = d, !.name = n])
    BY <1>2 DEF coda_lookup
  <2> DEFINE q == [[P("lookup", c) EXCEPT !.dir = d, !.name = n] EXCEPT !.at = "asked"]
  <2>2. Goes(t, q)
    BY <2>1 DEF Ask
  <2>3. P("lookup", c) \in Places /\ P("lookup", c).op = "lookup" /\ P("lookup", c).cred = c
    BY PPlace DEF InDirs, OnNodes
  <2>4. q \in Places /\ q.at = "asked" /\ q.op = "lookup" /\ q.cred = c /\ q.dir = d /\ q.name = n
    BY <2>3 DEF Places, Nodes
  <2>5. PlaceOK(q) /\ q.op \notin Closes
    BY <2>4 DEF PlaceOK, Closes, InDirs, OnNodes, Nodes
  <2> HIDE DEF q
  <2> QED
    BY <1>1, <2>2, <2>4, <2>5, BeginsOnly
<1>3. CASE coda_access(t, c)
  <2>1. PICK d \in known \cap Dirs :
          Ask(t, [P("access", c) EXCEPT !.dir = d])
    BY <1>3 DEF coda_access
  <2> DEFINE q == [[P("access", c) EXCEPT !.dir = d] EXCEPT !.at = "asked"]
  <2>2. Goes(t, q)
    BY <2>1 DEF Ask
  <2>3. P("access", c) \in Places /\ P("access", c).op = "access" /\ P("access", c).cred = c
    BY PPlace DEF InDirs, OnNodes
  <2>4. q \in Places /\ q.at = "asked" /\ q.op = "access" /\ q.cred = c /\ q.dir = d
    BY <2>3 DEF Places, Nodes
  <2>5. PlaceOK(q) /\ q.op \notin Closes
    BY <2>4 DEF PlaceOK, Closes, InDirs, OnNodes, Nodes
  <2> HIDE DEF q
  <2> QED
    BY <1>1, <2>2, <2>4, <2>5, BeginsOnly
<1>4. CASE coda_create(t, c) \/ coda_mkdir(t, c) \/ coda_symlink(t, c)
  <2>1. PICK op \in {"create", "mkdir", "symlink"}, d \in known \cap Dirs, n \in Names :
          Ask(t, [P(op, c) EXCEPT !.dir = d, !.name = n])
    BY <1>4 DEF coda_create, coda_mkdir, coda_symlink
  <2> DEFINE q == [[P(op, c) EXCEPT !.dir = d, !.name = n] EXCEPT !.at = "asked"]
  <2>2. Goes(t, q)
    BY <2>1 DEF Ask
  <2>3. P(op, c) \in Places /\ P(op, c).op = op /\ P(op, c).cred = c
    BY PPlace DEF InDirs, OnNodes
  <2>4. q \in Places /\ q.at = "asked" /\ q.op = op /\ q.cred = c /\ q.dir = d /\ q.name = n
    BY <2>3 DEF Places, Nodes
  <2>5. PlaceOK(q) /\ q.op \notin Closes
    BY <2>4 DEF PlaceOK, Closes, InDirs, OnNodes, Nodes
  <2> HIDE DEF q
  <2> QED
    BY <1>1, <2>2, <2>4, <2>5, BeginsOnly
<1>5. CASE coda_link(t, c)
  <2>1. PICK d \in known \cap Dirs, n \in Names, f \in known \cap Files :
          Ask(t, [P("link", c) EXCEPT !.dir = d, !.name = n, !.node = f])
    BY <1>5 DEF coda_link
  <2> DEFINE q == [[P("link", c) EXCEPT !.dir = d, !.name = n, !.node = f] EXCEPT !.at = "asked"]
  <2>2. Goes(t, q)
    BY <2>1 DEF Ask
  <2>3. P("link", c) \in Places /\ P("link", c).op = "link" /\ P("link", c).cred = c
    BY PPlace DEF InDirs, OnNodes
  <2>3a. f \in Nodes
    BY DEF Nodes
  <2>4. q \in Places /\ q.at = "asked" /\ q.op = "link" /\ q.cred = c /\ q.dir = d /\ q.name = n /\ q.node = f
    BY <2>3, <2>3a DEF Places
  <2>5. PlaceOK(q) /\ q.op \notin Closes
    BY <2>4, <2>3a DEF PlaceOK, Closes, InDirs, OnNodes
  <2> HIDE DEF q
  <2> QED
    BY <1>1, <2>2, <2>4, <2>5, BeginsOnly
<1> QED
  BY <1>2, <1>3, <1>4, <1>5

LEMMA AsksOfNode ==
  ASSUME Inv, NEW t \in Threads, At(t, "idle"), NEW c \in Creds,
         \/ coda_getattr(t, c) \/ coda_setattr(t, c) \/ coda_readlink(t, c) \/ coda_readdir(t, c)
         \/ coda_open(t, c) \/ coda_pagein(t, c)
  PROVE  MovesOK' /\ Steps
<1>1. UNCHANGED <<cache, attr, files>> /\ known \subseteq Nodes
  BY DEF coda_getattr, coda_setattr, coda_readlink, coda_readdir, coda_open, coda_pagein, Inv, RestOK
<1>2. CASE coda_getattr(t, c) \/ coda_setattr(t, c)
  <2>1. PICK op \in {"getattr", "setattr"}, x \in known :
          Ask(t, [P(op, c) EXCEPT !.node = x])
    BY <1>2 DEF coda_getattr, coda_setattr
  <2> DEFINE q == [[P(op, c) EXCEPT !.node = x] EXCEPT !.at = "asked"]
  <2>2. Goes(t, q)
    BY <2>1 DEF Ask
  <2>3. P(op, c) \in Places /\ P(op, c).op = op /\ P(op, c).cred = c
    BY PPlace DEF InDirs, OnNodes
  <2>3a. x \in Nodes
    BY <1>1
  <2>4. q \in Places /\ q.at = "asked" /\ q.op = op /\ q.cred = c /\ q.node = x
    BY <2>3, <2>3a DEF Places
  <2>5. PlaceOK(q) /\ q.op \notin Closes
    BY <2>4, <2>3a DEF PlaceOK, Closes, InDirs, OnNodes
  <2> HIDE DEF q
  <2> QED
    BY <1>1, <2>2, <2>4, <2>5, BeginsOnly
<1>3. CASE coda_readlink(t, c)
  <2>1. PICK x \in known \cap Files :
          ~symlink[x] /\ Ask(t, [P("readlink", c) EXCEPT !.node = x])
    BY <1>3 DEF coda_readlink
  <2> DEFINE q == [[P("readlink", c) EXCEPT !.node = x] EXCEPT !.at = "asked"]
  <2>2. Goes(t, q)
    BY <2>1 DEF Ask
  <2>3. P("readlink", c) \in Places /\ P("readlink", c).op = "readlink" /\ P("readlink", c).cred = c
    BY PPlace DEF InDirs, OnNodes
  <2>3a. x \in Nodes
    BY <1>1
  <2>4. q \in Places /\ q.at = "asked" /\ q.op = "readlink" /\ q.cred = c /\ q.node = x
    BY <2>3, <2>3a DEF Places
  <2>5. PlaceOK(q) /\ q.op \notin Closes
    BY <2>4, <2>3a DEF PlaceOK, Closes, InDirs, OnNodes
  <2> HIDE DEF q
  <2> QED
    BY <1>1, <2>1, <2>2, <2>4, <2>5, BeginsOnly
<1>4. CASE coda_readdir(t, c)
  <2>1. PICK x \in known \cap Dirs :
          Ask(t, [P("readdir", c) EXCEPT !.node = x])
    BY <1>4 DEF coda_readdir
  <2> DEFINE q == [[P("readdir", c) EXCEPT !.node = x] EXCEPT !.at = "asked"]
  <2>2. Goes(t, q)
    BY <2>1 DEF Ask
  <2>3. P("readdir", c) \in Places /\ P("readdir", c).op = "readdir" /\ P("readdir", c).cred = c
    BY PPlace DEF InDirs, OnNodes
  <2>3a. x \in Nodes
    BY <1>1
  <2>4. q \in Places /\ q.at = "asked" /\ q.op = "readdir" /\ q.cred = c /\ q.node = x
    BY <2>3, <2>3a DEF Places
  <2>5. PlaceOK(q) /\ q.op \notin Closes
    BY <2>4, <2>3a DEF PlaceOK, Closes, InDirs, OnNodes
  <2> HIDE DEF q
  <2> QED
    BY <1>1, <2>2, <2>4, <2>5, BeginsOnly
<1>5. CASE coda_open(t, c)
  <2>1. PICK x \in known, w \in BOOLEAN :
          Ask(t, [P("open", c) EXCEPT !.node = x, !.write = w])
    BY <1>5 DEF coda_open
  <2> DEFINE q == [[P("open", c) EXCEPT !.node = x, !.write = w] EXCEPT !.at = "asked"]
  <2>2. Goes(t, q)
    BY <2>1 DEF Ask
  <2>3. P("open", c) \in Places /\ P("open", c).op = "open" /\ P("open", c).cred = c
    BY PPlace DEF InDirs, OnNodes
  <2>3a. x \in Nodes
    BY <1>1
  <2>4. q \in Places /\ q.at = "asked" /\ q.op = "open" /\ q.cred = c /\ q.node = x
    BY <2>3, <2>3a DEF Places
  <2>5. PlaceOK(q) /\ q.op \notin Closes
    BY <2>4, <2>3a DEF PlaceOK, Closes, InDirs, OnNodes
  <2> HIDE DEF q
  <2> QED
    BY <1>1, <2>2, <2>4, <2>5, BeginsOnly
<1>6. CASE coda_pagein(t, c) /\ ~Return(t)
  <2>1. PICK x \in known \cap Files :
          Ask(t, [P("rdwr", c) EXCEPT !.node = x])
    BY <1>6 DEF coda_pagein
  <2> DEFINE q == [[P("rdwr", c) EXCEPT !.node = x] EXCEPT !.at = "asked"]
  <2>2. Goes(t, q)
    BY <2>1 DEF Ask
  <2>3. P("rdwr", c) \in Places /\ P("rdwr", c).op = "rdwr" /\ P("rdwr", c).cred = c
    BY PPlace DEF InDirs, OnNodes
  <2>3a. x \in Nodes
    BY <1>1
  <2>4. q \in Places /\ q.at = "asked" /\ q.op = "rdwr" /\ q.cred = c /\ q.node = x
    BY <2>3, <2>3a DEF Places
  <2>5. PlaceOK(q) /\ q.op \notin Closes
    BY <2>4, <2>3a DEF PlaceOK, Closes, InDirs, OnNodes
  <2> HIDE DEF q
  <2> QED
    BY <1>1, <2>2, <2>4, <2>5, BeginsOnly
<1>7. CASE Return(t)
  BY <1>1, <1>7, IdleBegins
<1> QED
  BY <1>2, <1>3, <1>4, <1>5, <1>6, <1>7

\* The kernel looks the name up first.
LEMMA LookedUpGoes ==
  ASSUME Inv, NEW t \in Threads, At(t, "idle"), NEW p \in Places, p.op \notin Closes,
         p.op # "readlink",
         PlaceOK([p EXCEPT !.at = "asked"]), AskLookedUp(t, p), UNCHANGED files
  PROVE  ThreadsOK' /\ RefsOK' /\ PathsOK' /\ CountsOK' /\ RacedOK' /\ Steps
<1> DEFINE q == [p EXCEPT !.at = "asked"]
<1>1. q \in Places /\ q.op = p.op /\ q.op \notin Closes /\ PlaceOK(q)
  BY DEF Places
<1>2. pc' = [pc EXCEPT ![t] = q]
  BY DEF AskLookedUp
<1>3. ThreadsOK' /\ RefsOK' /\ PathsOK' /\ CountsOK'
  <2> HIDE DEF q
  <2> QED
    BY <1>1, <1>2, Begins
<1>4. Touches(p) \subseteq Nodes /\ Shared(pc') \subseteq Nodes
  BY TouchesNodes DEF Shared
<1>5. RacedOK' /\ Overlaps
  BY <1>4 DEF Inv, RacedOK, AskLookedUp, Overlaps
<1>6. Reads
  <2> HIDE DEF q
  <2> QED
    BY <1>1, <1>2, MovesReads
<1> QED
  BY <1>3, <1>5, <1>6 DEF Steps

LEMMA LookedUpNodes == ASSUME Inv, NEW d \in Dirs, NEW n \in Names, NEW c PROVE LookedUp(d, n, c) \subseteq Nodes
<1>1. \A e \in Cached(d, n, c) : e.node \in Nodes
  BY DEF Cached, Inv, CacheOK
<1> QED
  BY <1>1 DEF LookedUp, Inv, RestOK

LEMMA Removes ==
  ASSUME Inv, NEW t \in Threads, At(t, "idle"), NEW c \in Creds,
         \/ coda_remove(t, c) \/ coda_rmdir(t, c) \/ coda_rename(t, c)
  PROVE  MovesOK' /\ Steps
<1>1. CASE coda_remove(t, c)
  <2>1. PICK d \in known \cap Dirs, n \in Names : \E f \in LookedUp(d, n, c) \cap Files :
          /\ AskLookedUp(t, [P("remove", c) EXCEPT !.dir = d, !.name = n, !.node = f])
          /\ cache' = IF Cached(d, n, c) = {} THEN cache ELSE cache \ Zapped(d, n)
          /\ attr' = Invalid({d})
          /\ UNCHANGED files
    BY <1>1 DEF coda_remove
  <2>2. PICK f \in LookedUp(d, n, c) \cap Files :
          AskLookedUp(t, [P("remove", c) EXCEPT !.dir = d, !.name = n, !.node = f])
    BY <2>1
  <2>3. f \in Nodes
    BY <2>2 DEF Nodes
  <2> DEFINE p == [P("remove", c) EXCEPT !.dir = d, !.name = n, !.node = f]
  <2>4. P("remove", c) \in Places /\ P("remove", c).op = "remove" /\ P("remove", c).cred = c
    BY PPlace DEF InDirs
  <2>5. p \in Places /\ p.op \notin Closes /\ p.op # "readlink" /\ PlaceOK([p EXCEPT !.at = "asked"])
    BY <2>3, <2>4 DEF Places, PlaceOK, Closes, InDirs, OnNodes
  <2>6. ThreadsOK' /\ RefsOK' /\ PathsOK' /\ CountsOK' /\ RacedOK' /\ Steps
    <3> HIDE DEF p
    <3> QED
      BY <2>1, <2>2, <2>5, LookedUpGoes DEF p
  <2>7. CacheOK' /\ AttrOK'
    BY <2>1, CacheLess, AttrValues DEF Inv, AttrOK
  <2> QED
    BY <2>6, <2>7 DEF MovesOK
<1>2. CASE coda_rmdir(t, c)
  <2>1. PICK d \in known \cap Dirs, n \in Names : \E b \in LookedUp(d, n, c) \cap Dirs :
          /\ AskLookedUp(t, [P("rmdir", c) EXCEPT !.dir = d, !.name = n, !.node = b])
          /\ cache' \subseteq cache
          /\ attr' = Invalid({d})
          /\ UNCHANGED files
    BY <1>2 DEF coda_rmdir
  <2>2. PICK b \in LookedUp(d, n, c) \cap Dirs :
          AskLookedUp(t, [P("rmdir", c) EXCEPT !.dir = d, !.name = n, !.node = b])
    BY <2>1
  <2>3. b \in Nodes
    BY <2>2 DEF Nodes
  <2> DEFINE p == [P("rmdir", c) EXCEPT !.dir = d, !.name = n, !.node = b]
  <2>4. P("rmdir", c) \in Places /\ P("rmdir", c).op = "rmdir" /\ P("rmdir", c).cred = c
    BY PPlace DEF InDirs
  <2>5. p \in Places /\ p.op \notin Closes /\ p.op # "readlink" /\ PlaceOK([p EXCEPT !.at = "asked"])
    BY <2>3, <2>4 DEF Places, PlaceOK, Closes, InDirs, OnNodes
  <2>6. ThreadsOK' /\ RefsOK' /\ PathsOK' /\ CountsOK' /\ RacedOK' /\ Steps
    <3> HIDE DEF p
    <3> QED
      BY <2>1, <2>2, <2>5, LookedUpGoes DEF p
  <2>7. CacheOK' /\ AttrOK'
    BY <2>1, CacheLess, AttrValues DEF Inv, AttrOK
  <2> QED
    BY <2>6, <2>7 DEF MovesOK
<1>3. CASE coda_rename(t, c)
  <2>1. PICK d \in known \cap Dirs, to \in known \cap Dirs, n \in Names, m \in Names :
          \E x \in LookedUp(d, n, c) :
            /\ AskLookedUp(t, [P("rename", c) EXCEPT !.dir = d, !.name = n, !.to = to, !.toname = m,
                                                     !.node = x])
            /\ cache' \subseteq cache /\ attr' = Invalid({d, to}) /\ UNCHANGED files
    BY <1>3 DEF coda_rename
  <2>2. PICK x \in LookedUp(d, n, c) :
          AskLookedUp(t, [P("rename", c) EXCEPT !.dir = d, !.name = n, !.to = to, !.toname = m,
                                               !.node = x])
    BY <2>1
  <2>3. x \in Nodes
    BY <2>2, LookedUpNodes
  <2> DEFINE p == [P("rename", c) EXCEPT !.dir = d, !.name = n, !.to = to, !.toname = m, !.node = x]
  <2>4. P("rename", c) \in Places /\ P("rename", c).op = "rename" /\ P("rename", c).cred = c
    BY PPlace DEF InDirs
  <2>5. p \in Places /\ p.op \notin Closes /\ p.op # "readlink" /\ PlaceOK([p EXCEPT !.at = "asked"])
    BY <2>3, <2>4 DEF Places, PlaceOK, Closes, InDirs, OnNodes
  <2>6. ThreadsOK' /\ RefsOK' /\ PathsOK' /\ CountsOK' /\ RacedOK' /\ Steps
    <3> HIDE DEF p
    <3> QED
      BY <2>1, <2>2, <2>5, LookedUpGoes DEF p
  <2>7. CacheOK' /\ AttrOK'
    BY <2>1, CacheLess, AttrValues DEF Inv, AttrOK
  <2> QED
    BY <2>6, <2>7 DEF MovesOK
<1> QED
  BY <1>1, <1>2, <1>3

LEMMA Rdwr ==
  ASSUME Inv, NEW t \in Threads, At(t, "idle"), NEW c \in Creds, coda_rdwr(t, c)
  PROVE  MovesOK' /\ Steps
<1>1. PICK f \in known \cap Files, w \in BOOLEAN :
        \/ Return(t) /\ attr' = IF w THEN Invalid({f}) ELSE attr
        \/ UNCHANGED attr /\ Ask(t, [P("rdwr", c) EXCEPT !.node = f, !.write = w])
  BY DEF coda_rdwr
<1>2. UNCHANGED <<cache, files>>
  BY DEF coda_rdwr
<1>3. CacheOK' /\ AttrOK'
  BY <1>1, <1>2, AttrValues DEF Inv, CacheOK, AttrOK
<1>4. CASE Return(t)
  <2>1. Goes(t, Idle) /\ Idle.op \notin Closes
    BY <1>4, IdlePlace DEF Return, Closes
  <2>2. RacedOK' /\ pc' = [pc EXCEPT ![t] = Idle]
    BY <2>1, GoesRaced
  <2>3. ThreadsOK' /\ RefsOK' /\ PathsOK' /\ CountsOK'
    BY <1>2, <2>1, <2>2, IdlePlace, Begins
  <2> QED
    BY <1>3, <1>4, <2>2, <2>3, IdleReads DEF MovesOK
<1>5. CASE UNCHANGED attr /\ Ask(t, [P("rdwr", c) EXCEPT !.node = f, !.write = w])
  <2> DEFINE q == [[P("rdwr", c) EXCEPT !.node = f, !.write = w] EXCEPT !.at = "asked"]
  <2>1. Goes(t, q)
    BY <1>5 DEF Ask
  <2>2. P("rdwr", c) \in Places /\ P("rdwr", c).op = "rdwr" /\ P("rdwr", c).cred = c
    BY PPlace DEF OnNodes
  <2>3. f \in Nodes
    BY DEF Nodes
  <2>4. q \in Places /\ q.at = "asked" /\ q.op = "rdwr" /\ q.cred = c /\ q.node = f
    BY <2>2, <2>3 DEF Places
  <2>5. PlaceOK(q) /\ q.op \notin Closes
    BY <2>3, <2>4 DEF PlaceOK, Closes, InDirs, OnNodes
  <2> HIDE DEF q
  <2> QED
    BY <1>2, <1>5, <2>1, <2>4, <2>5, BeginsOnly
<1> QED
  BY <1>1, <1>4, <1>5

OpenW(n) == opens[n][TRUE]
OpenR(n) == opens[n][FALSE]

LEMMA OpenCounts ==
  CountsOK => /\ \A n \in Nodes : OpenW(n) \in Nat /\ OpenR(n) \in Nat
              /\ \A f \in Files : OpenW(f) + OpenR(f) <= ocount[f] /\ OpenW(f) <= owrite[f]
              /\ \A n \in Nodes : owrite[n] + OpenR(n) <= ocount[n]
BY DEF CountsOK, OpenW, OpenR

\* One of the numbers changes.
LEMMA OpensSet ==
  ASSUME CountsOK, NEW n \in Nodes, NEW w \in BOOLEAN, NEW v \in Nat,
         opens' = [opens EXCEPT ![n][w] = v]
  PROVE  /\ opens' \in [Nodes -> [BOOLEAN -> Nat]]
         /\ IF w THEN OpenW(n)' = v /\ OpenR(n)' = OpenR(n) ELSE OpenR(n)' = v /\ OpenW(n)' = OpenW(n)
         /\ \A f \in Nodes : f # n => OpenW(f)' = OpenW(f) /\ OpenR(f)' = OpenR(f)
<1> DEFINE g == opens[n]
           h == [g EXCEPT ![w] = v]
<1>1. opens \in [Nodes -> [BOOLEAN -> Nat]] /\ g \in [BOOLEAN -> Nat]
  BY DEF CountsOK
<1>2. opens' = [opens EXCEPT ![n] = h]
  BY <1>1
<1>3. h \in [BOOLEAN -> Nat] /\ h[w] = v /\ h[~w] = g[~w]
  <2> HIDE DEF g
  <2> QED
    BY <1>1
<1>4. /\ opens' \in [Nodes -> [BOOLEAN -> Nat]]
      /\ opens'[n] = h
      /\ \A f \in Nodes : f # n => opens'[f] = opens[f]
  <2> HIDE DEF h
  <2> QED
    BY <1>1, <1>2, <1>3
<1>5. \A f \in Nodes : f # n => OpenW(f)' = OpenW(f) /\ OpenR(f)' = OpenR(f)
  BY <1>4 DEF OpenW, OpenR
<1>6. OpenW(n)' = h[TRUE] /\ OpenR(n)' = h[FALSE] /\ OpenW(n) = g[TRUE] /\ OpenR(n) = g[FALSE]
  BY <1>4 DEF OpenW, OpenR
<1>7. IF w THEN h[TRUE] = v /\ h[FALSE] = g[FALSE] ELSE h[FALSE] = v /\ h[TRUE] = g[TRUE]
  <2> HIDE DEF g, h
  <2>1. CASE w = TRUE
    BY <1>3, <2>1
  <2>2. CASE w = FALSE
    BY <1>3, <2>2
  <2> QED
    BY <2>1, <2>2
<1> QED
  BY <1>4, <1>5, <1>6, <1>7

LEMMA OpensAt ==
  ASSUME CountsOK, NEW n \in Nodes, NEW w \in BOOLEAN
  PROVE  opens[n][w] \in Nat /\ opens[n][w] = IF w THEN OpenW(n) ELSE OpenR(n)
<1>1. opens[n][w] \in Nat
  BY DEF CountsOK
<1>2. CASE w = TRUE
  BY <1>1, <1>2 DEF OpenW
<1>3. CASE w = FALSE
  BY <1>1, <1>3 DEF OpenR
<1> QED
  BY <1>2, <1>3

\* One fewer is open for the kernel.
LEMMA OpenedLess ==
  ASSUME CountsOK, NEW n \in Nodes, NEW w \in BOOLEAN, opens[n][w] > 0,
         opens' = [opens EXCEPT ![n][w] = @ - 1]
  PROVE  /\ opens' \in [Nodes -> [BOOLEAN -> Nat]]
         /\ IF w THEN OpenW(n) > 0 /\ OpenW(n)' = OpenW(n) - 1 /\ OpenR(n)' = OpenR(n)
            ELSE OpenR(n) > 0 /\ OpenR(n)' = OpenR(n) - 1 /\ OpenW(n)' = OpenW(n)
         /\ \A f \in Nodes : f # n => OpenW(f)' = OpenW(f) /\ OpenR(f)' = OpenR(f)
<1> DEFINE v == opens[n][w] - 1
<1>1. opens[n][w] = IF w THEN OpenW(n) ELSE OpenR(n)
  BY OpensAt
<1>2. v \in Nat /\ opens' = [opens EXCEPT ![n][w] = v]
  BY OpensAt
<1>3. /\ opens' \in [Nodes -> [BOOLEAN -> Nat]]
      /\ IF w THEN OpenW(n)' = v /\ OpenR(n)' = OpenR(n) ELSE OpenR(n)' = v /\ OpenW(n)' = OpenW(n)
      /\ \A f \in Nodes : f # n => OpenW(f)' = OpenW(f) /\ OpenR(f)' = OpenR(f)
  <2> HIDE DEF v
  <2> QED
    BY <1>2, OpensSet
<1> QED
  BY <1>1, <1>3

\* One more is.
LEMMA OpenedMore ==
  ASSUME CountsOK, NEW n \in Nodes, NEW w \in BOOLEAN,
         opens' = [opens EXCEPT ![n][w] = @ + 1]
  PROVE  /\ opens' \in [Nodes -> [BOOLEAN -> Nat]]
         /\ IF w THEN OpenW(n)' = OpenW(n) + 1 /\ OpenR(n)' = OpenR(n)
            ELSE OpenR(n)' = OpenR(n) + 1 /\ OpenW(n)' = OpenW(n)
         /\ \A f \in Nodes : f # n => OpenW(f)' = OpenW(f) /\ OpenR(f)' = OpenR(f)
<1> DEFINE v == opens[n][w] + 1
<1>1. opens[n][w] = IF w THEN OpenW(n) ELSE OpenR(n)
  BY OpensAt
<1>2. v \in Nat /\ opens' = [opens EXCEPT ![n][w] = v]
  BY OpensAt
<1>3. /\ opens' \in [Nodes -> [BOOLEAN -> Nat]]
      /\ IF w THEN OpenW(n)' = v /\ OpenR(n)' = OpenR(n) ELSE OpenR(n)' = v /\ OpenW(n)' = OpenW(n)
      /\ \A f \in Nodes : f # n => OpenW(f)' = OpenW(f) /\ OpenR(f)' = OpenR(f)
  <2> HIDE DEF v
  <2> QED
    BY <1>2, OpensSet
<1> QED
  BY <1>1, <1>3

LEMMA FilesAreNodes == \A f \in Files : f \in Nodes
BY DEF Nodes

LEMMA Close ==
  ASSUME Inv, NEW t \in Threads, At(t, "idle"), NEW c \in Creds, coda_close(t, c)
  PROVE  MovesOK' /\ Steps
<1>1. PICK n \in Nodes, w \in BOOLEAN :
        /\ opens[n][w] > 0 /\ opens' = [opens EXCEPT ![n][w] = @ - 1]
        /\ IF n \in Dirs \/ ocount[n] <= 0
           THEN Return(t) /\ UNCHANGED <<ocount, owrite>>
           ELSE Closing(n, w) /\ Ask(t, [P("close", c) EXCEPT !.node = n, !.write = w])
        /\ UNCHANGED <<cache, attr, symlink, paths, refs>>
  BY DEF coda_close
<1>2. CacheOK' /\ AttrOK' /\ PathsOK'
  BY <1>1 DEF Inv, CacheOK, AttrOK, PathsOK
<1>3. /\ opens' \in [Nodes -> [BOOLEAN -> Nat]]
      /\ IF w THEN OpenW(n) > 0 /\ OpenW(n)' = OpenW(n) - 1 /\ OpenR(n)' = OpenR(n)
         ELSE OpenR(n) > 0 /\ OpenR(n)' = OpenR(n) - 1 /\ OpenW(n)' = OpenW(n)
      /\ \A f \in Nodes : f # n => OpenW(f)' = OpenW(f) /\ OpenR(f)' = OpenR(f)
  <2>1. CountsOK /\ opens[n][w] > 0 /\ opens' = [opens EXCEPT ![n][w] = @ - 1]
    BY <1>1 DEF Inv
  <2> QED
    BY <2>1, OpenedLess
<1>4. /\ ocount \in [Nodes -> Nat] /\ owrite \in [Nodes -> Nat]
      /\ \A f \in Nodes : OpenW(f) \in Nat /\ OpenR(f) \in Nat
      /\ \A f \in Files : OpenW(f) + OpenR(f) <= ocount[f] /\ OpenW(f) <= owrite[f]
      /\ \A m \in Nodes : owrite[m] + OpenR(m) <= ocount[m]
  BY OpenCounts DEF Inv, CountsOK
<1>5. pc[t].op = "none"
  BY DEF Inv, ThreadsOK, PlaceOK, At
<1>6. CASE n \in Dirs \/ ocount[n] <= 0
  <2>1. Goes(t, Idle) /\ UNCHANGED <<ocount, owrite, refs>>
    BY <1>1, <1>6 DEF Return
  <2>2. RacedOK' /\ pc' = [pc EXCEPT ![t] = Idle]
    BY <2>1, GoesRaced
  <2>3. \A m \in Nodes : IsCloser(Idle, m) <=> IsCloser(pc[t], m)
    BY <1>5, IdlePlace DEF IsCloser, Closes
  <2>4. ThreadsOK' /\ RefsOK'
    BY <2>1, <2>2, <2>3, IdlePlace, Quiet
  <2>5. \A f \in Files : OpenW(f)' + OpenR(f)' <= ocount'[f] /\ OpenW(f)' <= owrite'[f]
    <3> TAKE f \in Files
    <3>1. f \in Nodes
      BY FilesAreNodes
    <3>2. ocount'[f] = ocount[f] /\ owrite'[f] = owrite[f] /\ ocount[f] \in Nat /\ owrite[f] \in Nat
      BY <1>4, <2>1, <3>1
    <3>3. OpenW(f) \in Nat /\ OpenR(f) \in Nat
          /\ OpenW(f) + OpenR(f) <= ocount[f] /\ OpenW(f) <= owrite[f]
      BY <1>4, <3>1
    <3>4. /\ OpenW(f)' = OpenW(f) \/ OpenW(f)' = OpenW(f) - 1
          /\ OpenR(f)' = OpenR(f) \/ OpenR(f)' = OpenR(f) - 1
      BY <1>3, <3>1
    <3> QED
      BY <3>2, <3>3, <3>4
  <2>5a. \A m \in Nodes : owrite'[m] + OpenR(m)' <= ocount'[m]
    <3> TAKE m \in Nodes
    <3>1. /\ ocount'[m] = ocount[m] /\ owrite'[m] = owrite[m] /\ ocount[m] \in Nat /\ owrite[m] \in Nat
          /\ OpenR(m) \in Nat /\ owrite[m] + OpenR(m) <= ocount[m]
      BY <1>4, <2>1
    <3>2. OpenR(m)' = OpenR(m) \/ OpenR(m)' = OpenR(m) - 1
      BY <1>3
    <3> QED
      BY <3>1, <3>2
  <2>6. CountsOK'
    BY <1>3, <1>4, <2>1, <2>5, <2>5a DEF CountsOK, OpenW, OpenR
  <2> QED
    BY <1>1, <1>2, <1>6, <2>2, <2>4, <2>6, IdleReads DEF MovesOK
<1>7. CASE ~(n \in Dirs \/ ocount[n] <= 0)
  <2> DEFINE q == [[P("close", c) EXCEPT !.node = n, !.write = w] EXCEPT !.at = "asked"]
  <2>1. Closing(n, w) /\ Goes(t, q)
    BY <1>1, <1>7 DEF Ask
  <2>2. P("close", c) \in Places /\ P("close", c).op = "close" /\ P("close", c).cred = c
    BY PPlace DEF OnNodes
  <2>3. q \in Places /\ q.at = "asked" /\ q.op = "close" /\ q.cred = c /\ q.node = n
    BY <2>2 DEF Places
  <2>4. PlaceOK(q)
    BY <2>3 DEF PlaceOK, InDirs, OnNodes
  <2> HIDE DEF q
  <2>5. RacedOK' /\ Overlaps /\ pc' = [pc EXCEPT ![t] = q]
    BY <2>1, GoesRaced
  <2>6. ThreadsOK'
    BY <2>3, <2>4, <2>5 DEF Inv, ThreadsOK
  <2>7. /\ Cardinality(Closers(n)') = Cardinality(Closers(n)) + 1
        /\ \A m \in Nodes : m # n => Cardinality(Closers(m)') = Cardinality(Closers(m))
    <3>1. \A m \in Nodes : ~IsCloser(pc[t], m) /\ (IsCloser(q, m) <=> m = n)
      BY <1>5, <2>3 DEF IsCloser, Closes
    <3> QED
      BY <2>5, <3>1, CloserMoves DEF Inv
  <2>8. /\ n \in Files /\ ocount[n] \in Nat /\ ocount[n] > 0
        /\ ocount' \in [Nodes -> Nat] /\ ocount'[n] = ocount[n] - 1
        /\ \A m \in Nodes : m # n => ocount'[m] = ocount[m]
    BY <1>4, <1>7, <2>1 DEF Closing, Nodes
  <2>9. /\ owrite' \in [Nodes -> Nat]
        /\ IF w THEN owrite'[n] = owrite[n] - 1 ELSE owrite'[n] = owrite[n]
        /\ \A m \in Nodes : m # n => owrite'[m] = owrite[m]
    <3>1. CASE w
      <4>1. OpenW(n) > 0 /\ OpenW(n) \in Nat /\ OpenW(n) <= owrite[n] /\ owrite[n] \in Nat
        BY <1>3, <1>4, <2>8, <3>1
      <4>2. owrite[n] - 1 \in Nat
        BY <4>1
      <4>3. owrite' = [owrite EXCEPT ![n] = owrite[n] - 1]
        BY <2>1, <3>1 DEF Closing
      <4> QED
        BY <1>4, <3>1, <4>2, <4>3
    <3>2. CASE ~w
      <4>1. owrite' = owrite
        BY <1>4, <2>1, <3>2 DEF Closing
      <4> QED
        BY <1>4, <3>2, <4>1
    <3> QED
      BY <3>1, <3>2
  <2>10. RefsOK'
    <3>1. refs' \in [Nodes -> Nat]
      BY <1>1 DEF Inv, RefsOK
    <3>2. \A m \in Nodes : refs'[m] = ocount'[m] + Cardinality(Closers(m)')
      <4> TAKE m \in Nodes
      <4>1. refs[m] = ocount[m] + Cardinality(Closers(m)) /\ refs'[m] = refs[m]
        BY <1>1 DEF Inv, RefsOK
      <4>2. CASE m = n
        BY <2>7, <2>8, <4>1, <4>2, CloserFinite
      <4>3. CASE m # n
        BY <2>7, <2>8, <4>1, <4>3
      <4> QED
        BY <4>2, <4>3
    <3> QED
      BY <3>1, <3>2 DEF RefsOK
  <2>11. \A f \in Files : OpenW(f)' + OpenR(f)' <= ocount'[f] /\ OpenW(f)' <= owrite'[f]
    <3> TAKE f \in Files
    <3>1. f \in Nodes
      BY FilesAreNodes
    <3>2. /\ OpenW(f) \in Nat /\ OpenR(f) \in Nat /\ ocount[f] \in Nat /\ owrite[f] \in Nat
          /\ OpenW(f) + OpenR(f) <= ocount[f] /\ OpenW(f) <= owrite[f]
      BY <1>4, <3>1
    <3>3. CASE f # n
      <4>1. OpenW(f)' = OpenW(f) /\ OpenR(f)' = OpenR(f) /\ ocount'[f] = ocount[f] /\ owrite'[f] = owrite[f]
        BY <1>3, <2>8, <2>9, <3>1, <3>3
      <4> QED
        BY <3>2, <4>1
    <3>4. CASE f = n /\ w
      <4>1. /\ OpenW(f)' = OpenW(f) - 1 /\ OpenR(f)' = OpenR(f)
            /\ ocount'[f] = ocount[f] - 1 /\ owrite'[f] = owrite[f] - 1
        BY <1>3, <2>8, <2>9, <3>4
      <4> QED
        BY <3>2, <4>1
    <3>5. CASE f = n /\ ~w
      <4>1. /\ OpenW(f)' = OpenW(f) /\ OpenR(f)' = OpenR(f) - 1
            /\ ocount'[f] = ocount[f] - 1 /\ owrite'[f] = owrite[f]
        BY <1>3, <2>8, <2>9, <3>5
      <4> QED
        BY <3>2, <4>1
    <3> QED
      BY <3>3, <3>4, <3>5
  <2>11a. \A m \in Nodes : owrite'[m] + OpenR(m)' <= ocount'[m]
    <3> TAKE m \in Nodes
    <3>1. /\ OpenR(m) \in Nat /\ ocount[m] \in Nat /\ owrite[m] \in Nat
          /\ owrite[m] + OpenR(m) <= ocount[m]
      BY <1>4
    <3>2. CASE m # n
      <4>1. OpenR(m)' = OpenR(m) /\ ocount'[m] = ocount[m] /\ owrite'[m] = owrite[m]
        BY <1>3, <2>8, <2>9, <3>2
      <4> QED
        BY <3>1, <4>1
    <3>3. CASE m = n /\ w
      <4>1. OpenR(m)' = OpenR(m) /\ ocount'[m] = ocount[m] - 1 /\ owrite'[m] = owrite[m] - 1
        BY <1>3, <2>8, <2>9, <3>3
      <4> QED
        BY <3>1, <4>1
    <3>4. CASE m = n /\ ~w
      <4>1. OpenR(m)' = OpenR(m) - 1 /\ ocount'[m] = ocount[m] - 1 /\ owrite'[m] = owrite[m]
        BY <1>3, <2>8, <2>9, <3>4
      <4> QED
        BY <3>1, <4>1
    <3> QED
      BY <3>2, <3>3, <3>4
  <2>12. CountsOK'
    BY <1>3, <2>8, <2>9, <2>11, <2>11a DEF CountsOK, OpenW, OpenR
  <2> QED
    BY <1>2, <2>3, <2>5, <2>6, <2>10, <2>12, MovesReads DEF MovesOK, Steps
<1> QED
  BY <1>6, <1>7

LEMMA StartInv == ASSUME Inv, NEW t \in Threads, Start(t) PROVE Inv' /\ Steps
<1>1. At(t, "idle") /\ ops < MaxOps /\ ops' = ops + 1
      /\ UNCHANGED <<known, venus, owner, panicked, reused>>
  BY DEF Start, Counted
<1>2. PICK c \in Creds, op \in Ops : Operation(t, c, op)
  BY DEF Start
<1>3. RestOK'
  BY <1>1, TigerAssumption DEF Inv, RestOK, venus
<1>4. MovesOK' /\ Steps
  BY <1>1, <1>2, AsksInDir, AsksOfNode, Removes, Rdwr, Close DEF Operation
<1> QED
  BY <1>3, <1>4, MovesInv

-----------------------------------------------------------------------------
(* Venus answers, or refuses.                                              *)

LEMMA Answered ==
  ASSUME Inv, NEW t \in Threads, NEW q \in Places, PlaceOK(q), q.op = pc[t].op,
         q.op \in Closes \cup {"readlink"} => q.node = pc[t].node,
         pc' = [pc EXCEPT ![t] = q], RacedOK', AttrOK', Overlaps,
         UNCHANGED <<cache, known, files, owner, panicked, reused, ops>>,
         tree' \in [Dirs -> [Names -> Nodes \cup {None}]], fresh' \subseteq Nodes,
         rights' \subseteq Users \X Dirs
  PROVE  Inv' /\ Steps
<1>1. \A n \in Nodes : IsCloser(q, n) <=> IsCloser(pc[t], n)
  BY DEF IsCloser
<1>2. ThreadsOK' /\ RefsOK'
  BY <1>1, Quiet DEF files
<1>3. CacheOK' /\ PathsOK' /\ CountsOK'
  BY DEF files, Inv, CacheOK, PathsOK, CountsOK
<1>4. RestOK'
  BY DEF Inv, RestOK
<1>5. Reads
  BY MovesReads
<1> QED
  BY <1>2, <1>3, <1>4, <1>5 DEF Inv, Steps

LEMMA AskedPlace ==
  ASSUME Inv, NEW t \in Threads
  PROVE  pc[t] \in Places /\ PlaceOK(pc[t])
BY DEF Inv, ThreadsOK

LEMMA DoesStep ==
  ASSUME Inv, NEW t \in Threads, NEW p \in Places, NEW D, Does(t, p, D)
  PROVE  RacedOK' /\ AttrOK' /\ Overlaps /\ pc' = [pc EXCEPT ![t] = [p EXCEPT !.at = "done"]]
BY GoesRaced, AttrValues DEF Does, Inv, AttrOK

\* One entry of a directory changes.
LEMMA TreeEntry ==
  ASSUME NEW T \in [Dirs -> [Names -> Nodes \cup {None}]], NEW d \in Dirs, NEW n \in Names,
         NEW x \in Nodes \cup {None}
  PROVE  [T EXCEPT ![d][n] = x] \in [Dirs -> [Names -> Nodes \cup {None}]]
OBVIOUS

LEMMA BindingNode ==
  ASSUME Inv, NEW d \in Dirs, NEW n \in Names \cup {DotDot}
  PROVE  Binding(d, n) \in Nodes \cup {None}
<1>1. CASE n \in Names
  BY <1>1, TigerAssumption DEF Binding, Inv, RestOK
<1>2. CASE n \notin Names /\ Parents(d) # {}
  <2>1. (CHOOSE p \in Parents(d) : TRUE) \in Dirs
    BY <1>2 DEF Parents
  <2> QED
    BY <1>2, <2>1, TigerAssumption DEF Binding, Nodes
<1>3. CASE n \notin Names /\ Parents(d) = {}
  BY <1>3, TigerAssumption DEF Binding
<1> QED
  BY <1>1, <1>2, <1>3

LEMMA VenusDoesInv == ASSUME Inv, NEW t \in Threads, VenusDoes(t) PROVE Inv' /\ Steps
<1> DEFINE p == pc[t]
<1>1. /\ At(t, "asked") /\ UNCHANGED <<cache, known, files, owner, panicked, reused, ops>>
      /\ Looked(t, p) \/ Made(t, p) \/ AnotherName(t, p) \/ Unnamed(t, p) \/ Moved(t, p) \/ Other(t, p)
  BY DEF VenusDoes
<1>2. p \in Places /\ PlaceOK(p) /\ p.at = "asked"
  BY <1>1, AskedPlace DEF At
<1>3. /\ tree \in [Dirs -> [Names -> Nodes \cup {None}]] /\ fresh \subseteq Nodes
      /\ rights \subseteq Users \X Dirs
  BY DEF Inv, RestOK
<1> HIDE DEF p
<1> DEFINE q == [p EXCEPT !.at = "done"]
<1>4. /\ q \in Places /\ q.op = p.op /\ q.node = p.node /\ q.at = "done"
      /\ p.op \notin {"lookup", "access", "create", "mkdir"} => PlaceOK(q)
  BY <1>2 DEF Places, PlaceOK
<1>5. CASE Looked(t, p)
  <2>1. PICK n \in Nodes : Does(t, [p EXCEPT !.node = n], {})
    <3>1. p.dir \in Dirs /\ (p.op = "lookup" => p.name \in Names \cup {DotDot})
      BY <1>2, <1>5 DEF Looked, PlaceOK, InDirs
    <3>2. p.dir \in Nodes
      BY <3>1 DEF Nodes
    <3> QED
      BY <1>5, <3>1, <3>2, BindingNode DEF Looked
  <2> DEFINE r == [[p EXCEPT !.node = n] EXCEPT !.at = "done"]
  <2>2. [p EXCEPT !.node = n] \in Places
    BY <1>2 DEF Places
  <2>3. RacedOK' /\ AttrOK' /\ Overlaps /\ pc' = [pc EXCEPT ![t] = r]
    BY <2>1, <2>2, DoesStep
  <2>4. r \in Places /\ r.op = p.op /\ r.op \in {"lookup", "access"}
    BY <1>2, <1>5 DEF Places, Looked
  <2>5. PlaceOK(r)
    BY <1>2, <2>4 DEF PlaceOK, Places, InDirs, OnNodes
  <2>6. UNCHANGED venus
    BY <1>5 DEF Looked
  <2> HIDE DEF r
  <2> QED
    BY <1>1, <1>3, <2>3, <2>4, <2>5, <2>6, Answered DEF p, Closes, venus
<1>6. CASE Made(t, p)
  <2>1. PICK g \in fresh \cap (IF p.op = "mkdir" THEN Dirs ELSE Files) :
          /\ tree' = [tree EXCEPT ![p.dir][p.name] = g] /\ fresh' = fresh \ {g}
          /\ rights' = {r \in rights : r[2] # g}
                         \cup {r \in Users \X (Dirs \cap {g}) : <<r[1], p.dir>> \in rights}
          /\ Does(t, IF p.op = "symlink" THEN p ELSE [p EXCEPT !.node = g], {p.dir})
    BY <1>6 DEF Made
  <2>2. /\ p.op \in {"create", "mkdir", "symlink"} /\ g \in Nodes /\ (p.op = "mkdir" => g \in Dirs)
        /\ p.dir \in Dirs /\ p.name \in Names
    BY <1>2, <1>3, <1>6, <2>1 DEF Made, PlaceOK, InDirs
  <2>3. /\ tree' \in [Dirs -> [Names -> Nodes \cup {None}]] /\ fresh' \subseteq Nodes
        /\ rights' \subseteq Users \X Dirs
    BY <1>3, <2>1, <2>2, TreeEntry
  <2>4. CASE p.op = "symlink"
    <3>1. RacedOK' /\ AttrOK' /\ Overlaps /\ pc' = [pc EXCEPT ![t] = q]
      BY <1>2, <2>1, <2>4, DoesStep
    <3> HIDE DEF q
    <3> QED
      BY <1>1, <1>4, <2>3, <2>4, <3>1, Answered DEF p
  <2>5. CASE p.op # "symlink"
    <3> DEFINE r == [[p EXCEPT !.node = g] EXCEPT !.at = "done"]
    <3>1. [p EXCEPT !.node = g] \in Places
      BY <1>2, <2>2 DEF Places
    <3>2. RacedOK' /\ AttrOK' /\ Overlaps /\ pc' = [pc EXCEPT ![t] = r]
      BY <2>1, <2>5, <3>1, DoesStep
    <3>3. r \in Places /\ r.op = p.op
      BY <1>2, <2>2 DEF Places
    <3>4. PlaceOK(r)
      BY <1>2, <2>2, <2>5 DEF PlaceOK, Places, InDirs, OnNodes
    <3> HIDE DEF r
    <3> QED
      BY <1>1, <2>2, <2>3, <3>2, <3>3, <3>4, Answered DEF p, Closes
  <2> QED
    BY <2>4, <2>5
<1>7. CASE AnotherName(t, p)
  <2>1. /\ p.op = "link" /\ p.dir \in Dirs /\ p.name \in Names /\ p.node \in Nodes
    BY <1>2, <1>7 DEF AnotherName, PlaceOK, InDirs
  <2>2. /\ tree' = [tree EXCEPT ![p.dir][p.name] = p.node] /\ UNCHANGED <<fresh, rights>>
        /\ Does(t, p, {p.dir, p.node})
    BY <1>7 DEF AnotherName
  <2>3. tree' \in [Dirs -> [Names -> Nodes \cup {None}]]
    BY <1>3, <2>1, <2>2, TreeEntry
  <2>4. RacedOK' /\ AttrOK' /\ Overlaps /\ pc' = [pc EXCEPT ![t] = q]
    BY <1>2, <2>2, DoesStep
  <2> HIDE DEF q
  <2> QED
    BY <1>1, <1>3, <1>4, <2>1, <2>2, <2>3, <2>4, Answered DEF p
<1>8. CASE Unnamed(t, p)
  <2>1. /\ p.op \in {"remove", "rmdir"} /\ p.dir \in Dirs /\ p.name \in Names
    BY <1>2, <1>8 DEF Unnamed, PlaceOK, InDirs
  <2>2. /\ tree' = [tree EXCEPT ![p.dir][p.name] = None] /\ UNCHANGED <<fresh, rights>>
        /\ Does(t, p, {p.dir})
    BY <1>8 DEF Unnamed
  <2>3. tree' \in [Dirs -> [Names -> Nodes \cup {None}]]
    BY <1>3, <2>1, <2>2, TreeEntry
  <2>4. RacedOK' /\ AttrOK' /\ Overlaps /\ pc' = [pc EXCEPT ![t] = q]
    BY <1>2, <2>2, DoesStep
  <2> HIDE DEF q
  <2> QED
    BY <1>1, <1>3, <1>4, <2>1, <2>2, <2>3, <2>4, Answered DEF p
<1>9. CASE Moved(t, p)
  <2> DEFINE moved == tree[p.dir][p.name]
             T == [tree EXCEPT ![p.dir][p.name] = None]
  <2>1. /\ p.op = "rename" /\ p.dir \in Dirs /\ p.name \in Names /\ p.to \in Dirs /\ p.toname \in Names
    BY <1>2, <1>9 DEF Moved, PlaceOK, InDirs
  <2>2. /\ moved # None /\ tree' = [T EXCEPT ![p.to][p.toname] = moved]
        /\ pc' = [pc EXCEPT ![t].at = "done"] /\ attr' = Outdated({p.dir, p.to})
        /\ raced' = raced \cup Shared(pc') \cup ({moved} \ {p.node})
        /\ UNCHANGED <<fresh, rights>>
    BY <1>9 DEF Moved
  <2>3. moved \in Nodes
    BY <1>3, <2>1, <2>2
  <2>4. tree' \in [Dirs -> [Names -> Nodes \cup {None}]]
    <3>1. T \in [Dirs -> [Names -> Nodes \cup {None}]]
      BY <1>3, <2>1, TreeEntry
    <3> HIDE DEF T, moved
    <3> QED
      BY <2>1, <2>2, <2>3, <3>1, TreeEntry
  <2>5. pc' = [pc EXCEPT ![t] = q]
    BY <2>2 DEF p
  <2>6. RacedOK' /\ Overlaps
    <3>1. Shared(pc') \subseteq Nodes
      BY DEF Shared
    <3> QED
      BY <2>2, <2>3, <3>1 DEF Inv, RacedOK, Overlaps
  <2>7. AttrOK'
    BY <2>2, AttrValues DEF Inv, AttrOK
  <2> HIDE DEF q
  <2> QED
    BY <1>1, <1>3, <1>4, <2>1, <2>2, <2>4, <2>5, <2>6, <2>7, Answered DEF p
<1>10. CASE Other(t, p)
  <2>1. PICK D : Does(t, p, D)
    BY <1>10 DEF Other
  <2>2. p.op \notin {"lookup", "access", "create", "mkdir"} /\ UNCHANGED venus
    BY <1>10 DEF Other
  <2>3. RacedOK' /\ AttrOK' /\ Overlaps /\ pc' = [pc EXCEPT ![t] = q]
    BY <1>2, <2>1, DoesStep
  <2> HIDE DEF q
  <2> QED
    BY <1>1, <1>3, <1>4, <2>2, <2>3, Answered DEF p, venus
<1> QED
  BY <1>1, <1>5, <1>6, <1>7, <1>8, <1>9, <1>10

LEMMA VenusRefusesInv == ASSUME Inv, NEW t \in Threads, VenusRefuses(t) PROVE Inv' /\ Steps
<1> DEFINE p == pc[t]
           q == [p EXCEPT !.at = "refused"]
<1>1. /\ At(t, "asked") /\ Goes(t, q)
      /\ UNCHANGED <<cache, attr, known, files, venus, owner, panicked, reused, ops>>
  BY DEF VenusRefuses
<1>2. p \in Places /\ PlaceOK(p) /\ p.at = "asked"
  BY <1>1, AskedPlace DEF At
<1>3. q \in Places /\ q.op = p.op /\ q.node = p.node /\ PlaceOK(q)
  <2> HIDE DEF p
  <2> QED
    BY <1>2 DEF Places, PlaceOK
<1>4. RacedOK' /\ Overlaps /\ pc' = [pc EXCEPT ![t] = q]
  BY <1>1, GoesRaced
<1>5. AttrOK' /\ tree' \in [Dirs -> [Names -> Nodes \cup {None}]] /\ fresh' \subseteq Nodes
      /\ rights' \subseteq Users \X Dirs
  BY <1>1 DEF Inv, RestOK, AttrOK, venus
<1> HIDE DEF q
<1> QED
  BY <1>1, <1>3, <1>4, <1>5, Answered DEF p

-----------------------------------------------------------------------------
(* Downcalls, other clients, and credentials: no thread moves.             *)

\* No step but one of a thread disturbs the files.
LEMMA Stands ==
  ASSUME Inv, UNCHANGED <<files, pc>>, raced \subseteq raced', CacheOK', AttrOK', RestOK', RacedOK'
  PROVE  Inv' /\ Steps
<1>1. ThreadsOK' /\ RefsOK'
  BY StayRefs DEF files
<1>2. PathsOK' /\ CountsOK'
  BY DEF files, Inv, PathsOK, CountsOK
<1>3. Steps
  BY DEF Steps, Reads, Overlaps
<1> QED
  BY <1>1, <1>2, <1>3 DEF Inv

LEMMA UnderwayNodes == ASSUME Inv PROVE Underway \subseteq Nodes
<1>1. \A t \in Threads : Touches(pc[t]) \subseteq Nodes
  BY AskedPlace, TouchesNodes
<1> QED
  BY <1>1 DEF Underway

LEMMA ZapDirInv == ASSUME Inv, NEW d \in Dirs, NEW n \in Names, ZapDir(d, n) PROVE Inv' /\ Steps
<1>1. PICK g \in (fresh \cap Files) \cup {None} :
        tree' = [tree EXCEPT ![d][n] = g] /\ fresh' = fresh \ {g}
  BY DEF ZapDir
<1>2. CacheOK' /\ AttrOK'
  BY CacheLess, AttrValues DEF ZapDir, Inv, AttrOK
<1>3. RacedOK'
  BY UnderwayNodes DEF ZapDir, Inv, RacedOK
<1>4. tree' \in [Dirs -> [Names -> Nodes \cup {None}]] /\ fresh' \subseteq Nodes
  BY <1>1, TreeEntry DEF Inv, RestOK
<1>5. RestOK'
  BY <1>4, TigerAssumption DEF ZapDir, Counted, Inv, RestOK
<1> QED
  BY <1>2, <1>3, <1>5, Stands DEF ZapDir

LEMMA ZapFileInv == ASSUME Inv, NEW n \in Nodes, ZapFile(n) PROVE Inv' /\ Steps
<1>1. CacheOK' /\ AttrOK'
  BY CacheLess, AttrValues DEF ZapFile, Inv, AttrOK
<1>2. RacedOK'
  BY UnderwayNodes DEF ZapFile, Inv, RacedOK
<1>3. RestOK'
  BY DEF ZapFile, venus, Inv, RestOK
<1> QED
  BY <1>1, <1>2, <1>3, Stands DEF ZapFile

LEMMA PurgeFidInv == ASSUME Inv, NEW n \in Nodes, PurgeFid(n) PROVE Inv' /\ Steps
<1>1. CacheOK' /\ AttrOK'
  BY CacheLess, AttrValues DEF PurgeFid, Inv, AttrOK
<1>2. RacedOK' /\ RestOK'
  BY DEF PurgeFid, venus, Inv, RestOK, RacedOK
<1> QED
  BY <1>1, <1>2, Stands DEF PurgeFid

LEMMA FlushInv == ASSUME Inv, Flush PROVE Inv' /\ Steps
<1>1. CacheOK'
  BY CacheLess DEF Flush, Inv
<1>2. AttrOK' /\ RacedOK' /\ RestOK'
  BY DEF Flush, venus, Inv, RestOK, RacedOK, AttrOK
<1> QED
  BY <1>1, <1>2, Stands DEF Flush

LEMMA PurgeUserInv == ASSUME Inv, NEW u \in Users, PurgeUser(u) PROVE Inv' /\ Steps
<1>1. CacheOK'
  BY CacheLess DEF PurgeUser, Inv
<1>2. AttrOK'
  BY DEF PurgeUser, Inv, AttrOK
<1>3. RacedOK'
  BY UnderwayNodes DEF PurgeUser, Inv, RacedOK
<1>4. RestOK'
  BY TigerAssumption DEF PurgeUser, Counted, Inv, RestOK
<1> QED
  BY <1>1, <1>2, <1>3, <1>4, Stands DEF PurgeUser

LEMMA CredReusedInv == ASSUME Inv, NEW c \in Creds, NEW u \in Users, CredReused(c, u) PROVE Inv' /\ Steps
<1>1. CacheOK' /\ AttrOK' /\ RacedOK'
  BY DEF CredReused, Inv, CacheOK, AttrOK, RacedOK
<1>2. RestOK'
  BY TigerAssumption DEF CredReused, Counted, venus, Inv, RestOK
<1> QED
  BY <1>1, <1>2, Stands DEF CredReused

-----------------------------------------------------------------------------
(* The operations after their upcall.                                      *)

LEMMA Leaves ==
  ASSUME Inv, NEW t \in Threads, Return(t), pc[t].op \notin Closes
  PROVE  ThreadsOK' /\ RacedOK' /\ Steps /\ (UNCHANGED <<refs, ocount>> => RefsOK')
<1>1. RacedOK' /\ pc' = [pc EXCEPT ![t] = Idle]
  BY GoesRaced DEF Return
<1>2. \A n \in Nodes : IsCloser(Idle, n) <=> IsCloser(pc[t], n)
  BY IdlePlace DEF IsCloser, Closes
<1> QED
  BY <1>1, <1>2, IdlePlace, Quiet, IdleReads

\* Operations that leave files alone.
LEMMA LeavesFiles ==
  ASSUME Inv, NEW t \in Threads, Return(t), pc[t].op \notin Closes, UNCHANGED files,
         CacheOK', AttrOK', RestOK'
  PROVE  Inv' /\ Steps
<1>1. ThreadsOK' /\ RacedOK' /\ RefsOK' /\ Steps
  BY Leaves DEF files
<1>2. PathsOK' /\ CountsOK'
  BY DEF files, Inv, PathsOK, CountsOK
<1> QED
  BY <1>1, <1>2 DEF Inv

CacheSet(C) ==
  /\ C \subseteq [dir : Dirs, name : Names \cup {Dot, DotDot}, cred : Creds, node : Nodes]
  /\ IsFiniteSet(C) /\ Cardinality(C) <= CacheSize

\* coda_nc_enter does not overfill the name cache.
LEMMA EnteredSet ==
  ASSUME NEW C, CacheSet(C), NEW d \in Dirs, NEW n \in Names \cup {Dot, DotDot}, NEW c \in Creds,
         NEW x \in Nodes, NEW E \in Entered(C, Entry(d, n, c, x))
  PROVE  CacheSet(E)
<1> DEFINE e == Entry(d, n, c, x)
<1>1. e \in [dir : Dirs, name : Names \cup {Dot, DotDot}, cred : Creds, node : Nodes]
  BY DEF Entry
<1> HIDE DEF e
<1>2. Cardinality(C) \in Nat /\ CacheSize \in Nat /\ CacheSize > 0
  BY FS_CardinalityType, TigerAssumption DEF CacheSet
<1>3. CASE E = C
  BY <1>3
<1>4. CASE Cardinality(C) < CacheSize /\ E = C \cup {e}
  <2>1. IsFiniteSet(E) /\ (Cardinality(E) = Cardinality(C) \/ Cardinality(E) = Cardinality(C) + 1)
    BY <1>4, FS_AddElement DEF CacheSet
  <2> QED
    BY <1>1, <1>2, <1>4, <2>1 DEF CacheSet
<1>5. ASSUME NEW y \in C, E = (C \ {y}) \cup {e} PROVE CacheSet(E)
  <2>1. IsFiniteSet(C \ {y}) /\ Cardinality(C \ {y}) = Cardinality(C) - 1
    BY FS_RemoveElement DEF CacheSet
  <2>2. IsFiniteSet(E) /\ (Cardinality(E) = Cardinality(C \ {y}) \/ Cardinality(E) = Cardinality(C \ {y}) + 1)
    BY <1>5, <2>1, FS_AddElement
  <2> QED
    BY <1>1, <1>2, <1>5, <2>1, <2>2 DEF CacheSet
<1> QED
  BY <1>3, <1>4, <1>5 DEF Entered, e

LEMMA FoundInv == ASSUME Inv, NEW t \in Threads, Found(t) PROVE Inv' /\ Steps
<1> DEFINE p == pc[t]
<1>1. /\ p.at = "done" /\ p.op \in {"lookup", "access"} /\ Return(t)
      /\ IF p.op = "access" THEN UNCHANGED <<known, cache>>
         ELSE /\ known' = known \cup {p.node}
              /\ cache' \in Entered(cache, Entry(p.dir, p.name, p.cred, p.node))
      /\ UNCHANGED <<attr, files, venus, owner, panicked, reused, ops>>
  BY DEF Found, At
<1>2. p \in Places /\ PlaceOK(p)
  BY AskedPlace
<1> HIDE DEF p
<1>3. /\ p.node \in Nodes /\ p.dir \in Dirs /\ p.cred \in Creds
      /\ p.op = "lookup" => p.name \in Names \cup {DotDot}
  BY <1>1, <1>2 DEF PlaceOK, InDirs
<1>4. CacheSet(cache)
  BY DEF Inv, CacheOK, CacheSet
<1>5. CASE p.op = "access"
  <2>1. CacheOK' /\ AttrOK' /\ RestOK'
    BY <1>1, <1>5 DEF Inv, CacheOK, AttrOK, RestOK, venus
  <2> QED
    BY <1>1, <1>5, <2>1, LeavesFiles DEF p, Closes
<1>6. CASE p.op = "lookup"
  <2>1. CacheSet(cache')
    BY <1>1, <1>3, <1>4, <1>6, EnteredSet
  <2>2. CacheOK'
    BY <2>1 DEF CacheOK, CacheSet
  <2>3. AttrOK' /\ RestOK'
    BY <1>1, <1>3, <1>6 DEF Inv, AttrOK, RestOK, venus
  <2> QED
    BY <1>1, <1>6, <2>2, <2>3, LeavesFiles DEF p, Closes
<1> QED
  BY <1>1, <1>5, <1>6

LEMMA TouchedValues ==
  ASSUME AttrOK, NEW p
  PROVE  Touched(p) \in [Nodes -> {None, "new", "old"}]
BY AttrValues DEF Touched

LEMMA MadeDoneInv == ASSUME Inv, NEW t \in Threads, MadeDone(t) PROVE Inv' /\ Steps
<1> DEFINE p == pc[t]
           E1 == Entered(cache, Entry(p.dir, p.name, p.cred, p.node))
           E2 == UNION {Entered(C, Entry(p.node, Dot, p.cred, p.node)) : C \in E1}
           E3 == UNION {Entered(C, Entry(p.node, DotDot, p.cred, p.dir)) : C \in E2}
<1>1. /\ p.at = "done" /\ p.op \in {"create", "mkdir"} /\ Return(t)
      /\ panicked' = panicked \cup Panics(p) /\ known' = known \cup {p.node}
      /\ cache' \in (IF p.op = "mkdir" THEN E3 ELSE E1)
      /\ attr' = [Touched(p) EXCEPT ![p.node] = "new"]
      /\ UNCHANGED <<files, venus, owner, reused, ops>>
  BY DEF MadeDone, At
<1>2. p \in Places /\ PlaceOK(p)
  BY AskedPlace
<1> HIDE DEF p
<1>3. /\ p.node \in Nodes /\ p.dir \in Dirs /\ p.cred \in Creds /\ p.name \in Names
      /\ p.op = "mkdir" => p.node \in Dirs
  BY <1>1, <1>2 DEF PlaceOK, InDirs
<1>4. CacheSet(cache) /\ p.dir \in Nodes
  BY <1>3 DEF Inv, CacheOK, CacheSet, Nodes
<1>5. \A C \in E1 : CacheSet(C)
  BY <1>3, <1>4, EnteredSet
<1> HIDE DEF E1
<1>6. p.op = "mkdir" => \A C \in E2 : CacheSet(C)
  BY <1>3, <1>5, EnteredSet
<1> HIDE DEF E2
<1>7. p.op = "mkdir" => \A C \in E3 : CacheSet(C)
  BY <1>3, <1>4, <1>6, EnteredSet
<1> HIDE DEF E3
<1>8. CacheSet(cache')
  BY <1>1, <1>5, <1>7
<1>9. CacheOK'
  BY <1>8 DEF CacheOK, CacheSet
<1>10. AttrOK'
  BY <1>1, <1>3, TouchedValues DEF Inv, AttrOK
<1>11. RestOK'
  BY <1>1, <1>3 DEF Inv, RestOK, venus, Panics
<1> QED
  BY <1>1, <1>9, <1>10, <1>11, LeavesFiles DEF p, Closes

LEMMA SymlinkDoneInv == ASSUME Inv, NEW t \in Threads, SymlinkDone(t) PROVE Inv' /\ Steps
<1> DEFINE p == pc[t]
           q == [[p EXCEPT !.op = "lookup"] EXCEPT !.at = "asked"]
<1>1. /\ p.at = "done" /\ p.op = "symlink" /\ attr' = Touched(p)
      /\ Goes(t, q) \/ Return(t)
      /\ UNCHANGED <<cache, known, files, venus, owner, panicked, reused, ops>>
  BY DEF SymlinkDone, At, Ask
<1>2. p \in Places /\ PlaceOK(p)
  BY AskedPlace
<1>3. AttrOK'
  BY <1>1, TouchedValues DEF Inv, AttrOK
<1>4. CacheOK' /\ RestOK'
  BY <1>1 DEF Inv, CacheOK, RestOK, venus
<1>5. CASE Return(t)
  BY <1>1, <1>3, <1>4, <1>5, LeavesFiles DEF Closes
<1>6. CASE Goes(t, q)
  <2> HIDE DEF p
  <2>1. q \in Places /\ q.op = "lookup" /\ q.at = "asked" /\ q.cred = p.cred /\ q.dir = p.dir /\ q.name = p.name
    BY <1>2 DEF Places, InDirs
  <2>2. PlaceOK(q)
    BY <1>1, <1>2, <2>1 DEF PlaceOK, InDirs, OnNodes
  <2> HIDE DEF q
  <2>3. RacedOK' /\ Overlaps /\ pc' = [pc EXCEPT ![t] = q]
    BY <1>6, GoesRaced
  <2>4. \A n \in Nodes : IsCloser(q, n) <=> IsCloser(pc[t], n)
    BY <1>1, <2>1 DEF IsCloser, Closes, p
  <2>5. ThreadsOK' /\ RefsOK'
    BY <1>1, <2>1, <2>2, <2>3, <2>4, Quiet DEF files
  <2>6. PathsOK' /\ CountsOK'
    BY <1>1 DEF files, Inv, PathsOK, CountsOK
  <2> QED
    BY <1>3, <1>4, <2>1, <2>3, <2>5, <2>6, MovesReads DEF Inv, Steps
<1> QED
  BY <1>1, <1>5, <1>6

LEMMA ChangedInv == ASSUME Inv, NEW t \in Threads, Changed(t) PROVE Inv' /\ Steps
<1>1. pc[t].op \notin Closes
  BY DEF Changed, Closes
<1>2. AttrOK'
  BY TouchedValues DEF Changed, Inv, AttrOK
<1>3. CacheOK' /\ RestOK'
  BY DEF Changed, Inv, CacheOK, RestOK, venus
<1> QED
  BY <1>1, <1>2, <1>3, LeavesFiles DEF Changed

LEMMA RemoveDoneInv == ASSUME Inv, NEW t \in Threads, RemoveDone(t) PROVE Inv' /\ Steps
<1>1. pc[t].op \notin Closes
  BY DEF RemoveDone, Closes
<1>2. CacheOK' /\ RestOK' /\ AttrOK'
  BY DEF RemoveDone, Inv, CacheOK, RestOK, AttrOK, venus
<1> QED
  BY <1>1, <1>2, LeavesFiles DEF RemoveDone

LEMMA GetattrDoneInv == ASSUME Inv, NEW t \in Threads, GetattrDone(t) PROVE Inv' /\ Steps
<1>1. pc[t].op \notin Closes
  BY DEF GetattrDone, Closes
<1>2. CacheOK' /\ RestOK'
  BY DEF GetattrDone, Inv, CacheOK, RestOK, venus
<1>3. AttrOK'
  BY DEF GetattrDone, Kept, Inv, AttrOK
<1> QED
  BY <1>1, <1>2, <1>3, LeavesFiles DEF GetattrDone

LEMMA ReadlinkDoneInv == ASSUME Inv, NEW t \in Threads, ReadlinkDone(t) PROVE Inv' /\ Steps
<1> DEFINE f == pc[t].node
<1>1. /\ At(t, "done") /\ pc[t].op = "readlink" /\ Return(t)
      /\ symlink' = [symlink EXCEPT ![f] = TRUE] /\ paths' = [paths EXCEPT ![f] = @ + 1]
      /\ UNCHANGED <<cache, attr, known, ocount, owrite, refs, opens, venus, owner, panicked, reused, ops>>
  BY DEF ReadlinkDone
<1>2. f \in Files
  BY <1>1, AskedPlace DEF PlaceOK
<1>3. ThreadsOK' /\ RacedOK' /\ RefsOK' /\ Steps
  BY <1>1, Leaves DEF Closes
<1>4. CacheOK' /\ RestOK' /\ AttrOK' /\ CountsOK'
  BY <1>1 DEF Inv, CacheOK, RestOK, AttrOK, CountsOK, venus
<1> HIDE DEF f
<1>5. PathsOK'
  BY <1>1, <1>2 DEF Inv, PathsOK
<1> QED
  BY <1>3, <1>4, <1>5 DEF Inv

\* coda_open counts and takes a reference.
LEMMA OpenedFiles ==
  ASSUME Inv, NEW t \in Threads, Return(t), pc[t].op \notin Closes,
         pc[t].node \in Nodes, Opened(pc[t])
  PROVE  /\ ThreadsOK' /\ RacedOK' /\ RefsOK' /\ AttrOK'
         /\ ocount' \in [Nodes -> Nat] /\ owrite' \in [Nodes -> Nat]
         /\ ocount'[pc[t].node] = ocount[pc[t].node] + 1
         /\ IF pc[t].write THEN owrite'[pc[t].node] = owrite[pc[t].node] + 1
            ELSE owrite'[pc[t].node] = owrite[pc[t].node]
         /\ \A m \in Nodes : m # pc[t].node => ocount'[m] = ocount[m] /\ owrite'[m] = owrite[m]
<1> DEFINE p == pc[t]
           n == p.node
<1>1. /\ refs' = [refs EXCEPT ![n] = @ + 1] /\ ocount' = [ocount EXCEPT ![n] = @ + 1]
      /\ owrite' = [owrite EXCEPT ![n] = IF p.write THEN @ + 1 ELSE @]
      /\ attr' = IF p.write THEN Invalid({n}) ELSE attr
  BY DEF Opened
<1>2. ThreadsOK' /\ RacedOK' /\ pc' = [pc EXCEPT ![t] = Idle]
  BY Leaves, GoesRaced DEF Return
<1>3. \A m \in Nodes : Cardinality(Closers(m)') = Cardinality(Closers(m))
  <2>1. \A m \in Nodes : IsCloser(Idle, m) <=> IsCloser(pc[t], m)
    BY IdlePlace DEF IsCloser, Closes
  <2> QED
    BY <1>2, <2>1, CloserMoves DEF Inv
<1>4. AttrOK'
  BY <1>1, AttrValues DEF Inv, AttrOK
<1>5. /\ ocount \in [Nodes -> Nat] /\ owrite \in [Nodes -> Nat] /\ refs \in [Nodes -> Nat]
      /\ \A m \in Nodes : refs[m] = ocount[m] + Cardinality(Closers(m))
  BY DEF Inv, CountsOK, RefsOK
<1>6. n \in Nodes
  OBVIOUS
<1> HIDE DEF n
<1>7. /\ ocount' \in [Nodes -> Nat] /\ ocount'[n] = ocount[n] + 1
      /\ \A m \in Nodes : m # n => ocount'[m] = ocount[m]
  BY <1>1, <1>5, <1>6
<1>8. /\ refs' \in [Nodes -> Nat] /\ refs'[n] = refs[n] + 1
      /\ \A m \in Nodes : m # n => refs'[m] = refs[m]
  BY <1>1, <1>5, <1>6
<1>9. /\ owrite' \in [Nodes -> Nat]
      /\ IF p.write THEN owrite'[n] = owrite[n] + 1 ELSE owrite'[n] = owrite[n]
      /\ \A m \in Nodes : m # n => owrite'[m] = owrite[m]
  <2>1. CASE p.write
    <3>1. owrite' = [owrite EXCEPT ![n] = @ + 1]
      BY <1>1, <2>1
    <3> QED
      BY <1>5, <1>6, <2>1, <3>1
  <2>2. CASE ~p.write
    <3>1. owrite' = owrite
      BY <1>1, <1>5, <2>2
    <3> QED
      BY <1>5, <2>2, <3>1
  <2> QED
    BY <2>1, <2>2
<1>10. RefsOK'
  <2>1. \A m \in Nodes : refs'[m] = ocount'[m] + Cardinality(Closers(m)')
    <3> TAKE m \in Nodes
    <3>1. CASE m = n
      BY <1>3, <1>5, <1>6, <1>7, <1>8, <3>1, CloserFinite
    <3>2. CASE m # n
      BY <1>3, <1>5, <1>7, <1>8, <3>2
    <3> QED
      BY <3>1, <3>2
  <2> QED
    BY <1>8, <2>1 DEF RefsOK
<1> QED
  BY <1>2, <1>4, <1>7, <1>9, <1>10 DEF n

\* The kernel opens no more than coda_open counts.
LEMMA OpenedCounts ==
  ASSUME Inv, NEW t \in Threads, Return(t), pc[t].op \notin Closes,
         pc[t].node \in Nodes, pc[t].write \in BOOLEAN, Opened(pc[t]),
         opens' \in {opens, [opens EXCEPT ![pc[t].node][pc[t].write] = @ + 1]}
  PROVE  CountsOK'
<1>n. PICK n \in Nodes, w \in BOOLEAN : n = pc[t].node /\ w = pc[t].write
  OBVIOUS
<1>1. /\ n \in Nodes /\ w \in BOOLEAN
      /\ ocount' \in [Nodes -> Nat] /\ owrite' \in [Nodes -> Nat]
      /\ ocount'[n] = ocount[n] + 1
      /\ IF w THEN owrite'[n] = owrite[n] + 1 ELSE owrite'[n] = owrite[n]
      /\ \A m \in Nodes : m # n => ocount'[m] = ocount[m] /\ owrite'[m] = owrite[m]
  BY <1>n, OpenedFiles
<1>2. opens' = opens \/ opens' = [opens EXCEPT ![n][w] = @ + 1]
  BY <1>n
<1>3. /\ ocount \in [Nodes -> Nat] /\ owrite \in [Nodes -> Nat]
      /\ \A f \in Nodes : OpenW(f) \in Nat /\ OpenR(f) \in Nat
      /\ \A f \in Files : OpenW(f) + OpenR(f) <= ocount[f] /\ OpenW(f) <= owrite[f]
      /\ \A m \in Nodes : owrite[m] + OpenR(m) <= ocount[m]
  BY OpenCounts DEF Inv, CountsOK
<1>4. /\ opens' \in [Nodes -> [BOOLEAN -> Nat]]
      /\ \/ OpenW(n)' = OpenW(n) /\ OpenR(n)' = OpenR(n)
         \/ ~w /\ OpenR(n)' = OpenR(n) + 1 /\ OpenW(n)' = OpenW(n)
         \/ w /\ OpenW(n)' = OpenW(n) + 1 /\ OpenR(n)' = OpenR(n)
      /\ \A f \in Nodes : f # n => OpenW(f)' = OpenW(f) /\ OpenR(f)' = OpenR(f)
  <2>1. CASE opens' = opens
    BY <2>1 DEF Inv, CountsOK, OpenW, OpenR
  <2>2. CASE opens' = [opens EXCEPT ![n][w] = @ + 1]
    <3>1. CountsOK
      BY DEF Inv
    <3> QED
      BY <1>1, <2>2, <3>1, OpenedMore
  <2> QED
    BY <1>2, <2>1, <2>2
<1>5. \A f \in Files : OpenW(f)' + OpenR(f)' <= ocount'[f] /\ OpenW(f)' <= owrite'[f]
  <2> TAKE f \in Files
  <2>1. f \in Nodes
    BY FilesAreNodes
  <2>2. /\ OpenW(f) \in Nat /\ OpenR(f) \in Nat /\ ocount[f] \in Nat /\ owrite[f] \in Nat
        /\ OpenW(f) + OpenR(f) <= ocount[f] /\ OpenW(f) <= owrite[f]
    BY <1>3, <2>1
  <2>3. CASE f # n
    <3>1. OpenW(f)' = OpenW(f) /\ OpenR(f)' = OpenR(f) /\ ocount'[f] = ocount[f] /\ owrite'[f] = owrite[f]
      BY <1>1, <1>4, <2>1, <2>3
    <3> QED
      BY <2>2, <3>1
  <2>4. CASE f = n
    <3>1. /\ ocount'[f] = ocount[f] + 1
          /\ \/ OpenW(f)' = OpenW(f) /\ OpenR(f)' = OpenR(f) /\ owrite'[f] >= owrite[f]
             \/ OpenR(f)' = OpenR(f) + 1 /\ OpenW(f)' = OpenW(f) /\ owrite'[f] = owrite[f]
             \/ OpenW(f)' = OpenW(f) + 1 /\ OpenR(f)' = OpenR(f) /\ owrite'[f] = owrite[f] + 1
      <4>1. owrite'[f] >= owrite[f]
        <5>1. owrite'[f] = owrite[f] \/ owrite'[f] = owrite[f] + 1
          BY <1>1, <2>4
        <5> QED
          BY <2>2, <5>1
      <4> QED
        BY <1>1, <1>4, <2>4, <4>1
    <3>2. owrite'[f] \in Nat
      BY <1>1, <2>1
    <3> QED
      BY <2>2, <3>1, <3>2
  <2> QED
    BY <2>3, <2>4
<1>6. \A m \in Nodes : owrite'[m] + OpenR(m)' <= ocount'[m]
  <2> TAKE m \in Nodes
  <2>1. /\ OpenR(m) \in Nat /\ ocount[m] \in Nat /\ owrite[m] \in Nat
        /\ owrite[m] + OpenR(m) <= ocount[m]
    BY <1>3
  <2>2. CASE m # n
    <3>1. OpenR(m)' = OpenR(m) /\ ocount'[m] = ocount[m] /\ owrite'[m] = owrite[m]
      BY <1>1, <1>4, <2>2
    <3> QED
      BY <2>1, <3>1
  <2>3. CASE m = n
    <3>1. /\ ocount'[m] = ocount[m] + 1
          /\ \/ OpenR(m)' = OpenR(m) /\ (owrite'[m] = owrite[m] \/ owrite'[m] = owrite[m] + 1)
             \/ OpenR(m)' = OpenR(m) + 1 /\ owrite'[m] = owrite[m]
      BY <1>1, <1>4, <2>3
    <3> QED
      BY <2>1, <3>1
  <2> QED
    BY <2>2, <2>3
<1> QED
  BY <1>1, <1>4, <1>5, <1>6 DEF CountsOK, OpenW, OpenR

LEMMA OpenDoneInv == ASSUME Inv, NEW t \in Threads, OpenDone(t) PROVE Inv' /\ Steps
<1> DEFINE p == pc[t]
<1>1. /\ p.op = "open" /\ Return(t)
      /\ \/ UNCHANGED <<attr, refs, ocount, owrite, opens>>
         \/ /\ Opened(p)
            /\ opens' \in {opens, [opens EXCEPT ![p.node][p.write] = @ + 1]}
      /\ UNCHANGED <<cache, known, symlink, paths, venus, owner, panicked, reused, ops>>
  BY DEF OpenDone
<1>2. p.node \in Nodes /\ p.write \in BOOLEAN /\ p.op \notin Closes
  BY <1>1, AskedPlace DEF Places, PlaceOK, OnNodes, Closes
<1>3. CacheOK' /\ PathsOK' /\ RestOK'
  BY <1>1 DEF Inv, CacheOK, PathsOK, RestOK, venus
<1>4. CASE UNCHANGED <<attr, refs, ocount, owrite, opens>>
  <2>1. AttrOK'
    BY <1>4 DEF Inv, AttrOK
  <2> QED
    BY <1>1, <1>2, <1>3, <1>4, <2>1, LeavesFiles DEF files
<1>5. CASE Opened(p) /\ opens' \in {opens, [opens EXCEPT ![p.node][p.write] = @ + 1]}
  <2>1. ThreadsOK' /\ RacedOK' /\ RefsOK' /\ AttrOK'
    BY <1>1, <1>2, <1>5, OpenedFiles
  <2>2. CountsOK'
    BY <1>1, <1>2, <1>5, OpenedCounts
  <2> QED
    BY <1>1, <1>3, <1>5, <2>1, <2>2, IdleReads DEF Inv
<1> QED
  BY <1>1, <1>4, <1>5

LEMMA ReaddirDoneInv == ASSUME Inv, NEW t \in Threads, ReaddirDone(t) PROVE Inv' /\ Steps
<1> DEFINE p == pc[t]
<1>1. /\ p.op = "readdir" /\ Return(t)
      /\ Opened(p) \/ UNCHANGED <<attr, refs, ocount, owrite>>
      /\ UNCHANGED <<cache, known, symlink, paths, opens, venus, owner, panicked, reused, ops>>
  BY DEF ReaddirDone
<1>2. p.node \in Nodes /\ p.write \in BOOLEAN /\ p.op \notin Closes
  BY <1>1, AskedPlace DEF Places, PlaceOK, OnNodes, Closes
<1>3. CacheOK' /\ PathsOK' /\ RestOK'
  BY <1>1 DEF Inv, CacheOK, PathsOK, RestOK, venus
<1>4. CASE UNCHANGED <<attr, refs, ocount, owrite>>
  <2>1. AttrOK'
    BY <1>4 DEF Inv, AttrOK
  <2> QED
    BY <1>1, <1>2, <1>3, <1>4, <2>1, LeavesFiles DEF files
<1>5. CASE Opened(p)
  <2>1. ThreadsOK' /\ RacedOK' /\ RefsOK' /\ AttrOK'
    BY <1>1, <1>2, <1>5, OpenedFiles
  <2>2. CountsOK'
    BY <1>1, <1>2, <1>5, OpenedCounts
  <2> QED
    BY <1>1, <1>3, <1>5, <2>1, <2>2, IdleReads DEF Inv
<1> QED
  BY <1>1, <1>4, <1>5

LEMMA RdwrDoneInv == ASSUME Inv, NEW t \in Threads, RdwrDone(t) PROVE Inv' /\ Steps
<1> DEFINE p == pc[t]
           n == p.node
           q == [[p EXCEPT !.op = "rdwrclose"] EXCEPT !.at = "asked"]
<1>1. /\ p.op = "rdwr" /\ p.at = "done"
      /\ UNCHANGED <<cache, known, symlink, paths, opens, venus, owner, panicked, reused, ops>>
      /\ \/ Return(t) /\ (Opened(p) \/ UNCHANGED <<attr, refs, ocount, owrite>>)
         \/ /\ Goes(t, q)
            /\ refs' = [refs EXCEPT ![n] = @ + 1]
            /\ attr' = IF p.write THEN Invalid({n}) ELSE attr
            /\ UNCHANGED <<ocount, owrite>>
  BY DEF RdwrDone, Ask, At
<1>2. p.node \in Nodes /\ p.write \in BOOLEAN /\ p.op \notin Closes
  BY <1>1, AskedPlace DEF Places, PlaceOK, OnNodes, Closes
<1>3. CacheOK' /\ PathsOK' /\ RestOK'
  BY <1>1 DEF Inv, CacheOK, PathsOK, RestOK, venus
<1>4. CASE Return(t) /\ UNCHANGED <<attr, refs, ocount, owrite>>
  <2>1. AttrOK'
    BY <1>4 DEF Inv, AttrOK
  <2> QED
    BY <1>1, <1>2, <1>3, <1>4, <2>1, LeavesFiles DEF files
<1>5. CASE Return(t) /\ Opened(p)
  <2>1. ThreadsOK' /\ RacedOK' /\ RefsOK' /\ AttrOK'
    BY <1>1, <1>2, <1>5, OpenedFiles
  <2>2. CountsOK'
    BY <1>1, <1>2, <1>5, OpenedCounts
  <2> QED
    BY <1>1, <1>3, <1>5, <2>1, <2>2, IdleReads DEF Inv
<1>6. CASE /\ Goes(t, q)
           /\ refs' = [refs EXCEPT ![n] = @ + 1]
           /\ attr' = IF p.write THEN Invalid({n}) ELSE attr
           /\ UNCHANGED <<ocount, owrite>>
  <2>1. p \in Places /\ PlaceOK(p)
    BY AskedPlace
  <2>2. q \in Places /\ q.op = "rdwrclose" /\ q.node = n /\ q.at = "asked" /\ q.cred = p.cred
    <3> HIDE DEF p
    <3> QED
      BY <2>1 DEF Places, OnNodes
  <2>3. PlaceOK(q)
    <3> HIDE DEF p, q
    <3> QED
      BY <1>1, <1>2, <2>1, <2>2 DEF PlaceOK, InDirs, OnNodes, n
  <2> HIDE DEF q
  <2>n. PICK m \in Nodes : m = n
    BY <1>2
  <2>4. RacedOK' /\ Overlaps /\ pc' = [pc EXCEPT ![t] = q]
    BY <1>6, GoesRaced
  <2>5. ThreadsOK'
    BY <2>2, <2>3, <2>4 DEF Inv, ThreadsOK
  <2>6. /\ Cardinality(Closers(m)') = Cardinality(Closers(m)) + 1
        /\ \A x \in Nodes : x # m => Cardinality(Closers(x)') = Cardinality(Closers(x))
    <3>1. \A x \in Nodes : ~IsCloser(pc[t], x) /\ (IsCloser(q, x) <=> x = m)
      BY <1>1, <2>2, <2>n DEF IsCloser, Closes
    <3> QED
      BY <2>4, <3>1, CloserMoves DEF Inv
  <2>7. AttrOK'
    BY <1>6, AttrValues DEF Inv, AttrOK
  <2>8. CountsOK'
    BY <1>1, <1>6 DEF Inv, CountsOK
  <2>9. RefsOK'
    <3>1. /\ refs' \in [Nodes -> Nat] /\ refs'[m] = refs[m] + 1
          /\ \A x \in Nodes : x # m => refs'[x] = refs[x]
      <4>1. refs' = [refs EXCEPT ![m] = @ + 1] /\ refs \in [Nodes -> Nat]
        BY <1>6, <2>n DEF Inv, RefsOK
      <4> QED
        BY <4>1
    <3>2. \A x \in Nodes : refs'[x] = ocount'[x] + Cardinality(Closers(x)')
      <4> TAKE x \in Nodes
      <4>1. refs[x] = ocount[x] + Cardinality(Closers(x)) /\ ocount'[x] = ocount[x] /\ ocount[x] \in Nat
        BY <1>6 DEF Inv, RefsOK, CountsOK
      <4>2. CASE x = m
        BY <2>6, <3>1, <4>1, <4>2, CloserFinite
      <4>3. CASE x # m
        BY <2>6, <3>1, <4>1, <4>3
      <4> QED
        BY <4>2, <4>3
    <3> QED
      BY <3>1, <3>2 DEF RefsOK
  <2> QED
    BY <1>3, <2>2, <2>4, <2>5, <2>7, <2>8, <2>9, MovesReads DEF Inv, Steps
<1> QED
  BY <1>1, <1>4, <1>5, <1>6

\* Venus knows of a close, or has refused it: the reference is given back.
LEMMA GivesBack ==
  ASSUME Inv, NEW t \in Threads, Return(t), pc[t].op \in Closes,
         refs' = [refs EXCEPT ![pc[t].node] = @ - 1], UNCHANGED <<ocount, owrite, opens>>
  PROVE  ThreadsOK' /\ RacedOK' /\ RefsOK' /\ CountsOK'
<1>n. PICK n \in Nodes : n = pc[t].node
  BY AskedPlace DEF PlaceOK, Closes, OnNodes
<1>1. RacedOK' /\ pc' = [pc EXCEPT ![t] = Idle]
  BY GoesRaced DEF Return
<1>2. ThreadsOK' /\ CountsOK'
  BY <1>1, IdlePlace DEF Inv, ThreadsOK, CountsOK
<1>3. /\ Cardinality(Closers(n)') = Cardinality(Closers(n)) - 1 /\ Cardinality(Closers(n)) > 0
      /\ \A m \in Nodes : m # n => Cardinality(Closers(m)') = Cardinality(Closers(m))
  <2>1. \A m \in Nodes : ~IsCloser(Idle, m) /\ (IsCloser(pc[t], m) <=> m = n)
    BY <1>n, IdlePlace DEF IsCloser, Closes
  <2> QED
    BY <1>1, <2>1, CloserMoves DEF Inv
<1>4. /\ refs \in [Nodes -> Nat] /\ refs' = [refs EXCEPT ![n] = @ - 1]
      /\ \A m \in Nodes : refs[m] = ocount[m] + Cardinality(Closers(m)) /\ ocount'[m] = ocount[m]
                         /\ ocount[m] \in Nat
  BY <1>n DEF Inv, RefsOK, CountsOK
<1>5. /\ refs' \in [Nodes -> Nat] /\ refs'[n] = refs[n] - 1
      /\ \A m \in Nodes : m # n => refs'[m] = refs[m]
  <2>1. refs[n] - 1 \in Nat
    BY <1>3, <1>4, CloserFinite
  <2> QED
    BY <1>4, <2>1
<1>6. \A m \in Nodes : refs'[m] = ocount'[m] + Cardinality(Closers(m)')
  <2> TAKE m \in Nodes
  <2>1. CASE m = n
    BY <1>3, <1>4, <1>5, <2>1, CloserFinite
  <2>2. CASE m # n
    BY <1>3, <1>4, <1>5, <2>2
  <2> QED
    BY <2>1, <2>2
<1> QED
  BY <1>1, <1>2, <1>5, <1>6 DEF RefsOK

LEMMA CloseDoneInv == ASSUME Inv, NEW t \in Threads, CloseDone(t) PROVE Inv' /\ Steps
<1>1. ThreadsOK' /\ RacedOK' /\ RefsOK' /\ CountsOK'
  BY GivesBack DEF CloseDone, Closes
<1>2. AttrOK'
  BY AttrValues DEF CloseDone, Inv, AttrOK
<1>3. CacheOK' /\ PathsOK' /\ RestOK'
  BY DEF CloseDone, Inv, CacheOK, PathsOK, RestOK, venus
<1> QED
  BY <1>1, <1>2, <1>3, IdleReads DEF Inv, CloseDone

LEMMA RefusedInv == ASSUME Inv, NEW t \in Threads, Refused(t) PROVE Inv' /\ Steps
<1>1. AttrOK'
  BY AttrValues DEF Refused, Inv, AttrOK
<1>2. CacheOK' /\ PathsOK' /\ RestOK'
  BY DEF Refused, Inv, CacheOK, PathsOK, RestOK, venus
<1>3. CASE pc[t].op \in Closes
  <2>1. ThreadsOK' /\ RacedOK' /\ RefsOK' /\ CountsOK'
    BY <1>3, GivesBack DEF Refused, Closes
  <2> QED
    BY <1>1, <1>2, <2>1, IdleReads DEF Inv, Refused
<1>4. CASE pc[t].op \notin Closes
  <2>1. UNCHANGED files /\ Return(t)
    BY <1>4 DEF Refused, Closes, files
  <2> QED
    BY <1>1, <1>2, <1>4, <2>1, LeavesFiles
<1> QED
  BY <1>3, <1>4

LEMMA InactiveInv == ASSUME Inv, NEW n \in Nodes, coda_inactive(n) PROVE Inv' /\ Steps
<1>1. ThreadsOK' /\ RefsOK'
  BY StayRefs DEF coda_inactive
<1>2. AttrOK'
  BY AttrValues DEF coda_inactive, Inv, AttrOK
<1>3. CacheOK' /\ CountsOK' /\ RestOK' /\ RacedOK'
  BY DEF coda_inactive, Inv, CacheOK, CountsOK, RestOK, RacedOK, venus
<1>4. PathsOK'
  <2>1. CASE n \in Files
    <3>1. symlink' = [symlink EXCEPT ![n] = FALSE]
          /\ paths' = [paths EXCEPT ![n] = IF symlink[n] THEN paths[n] - 1 ELSE paths[n]]
      BY <2>1 DEF coda_inactive, Freed
    <3>2. (IF symlink[n] THEN paths[n] - 1 ELSE paths[n]) \in Nat
      BY <2>1 DEF Inv, PathsOK
    <3> QED
      BY <2>1, <3>1, <3>2 DEF Inv, PathsOK
  <2>2. CASE n \notin Files
    BY <2>2 DEF coda_inactive, Inv, PathsOK
  <2> QED
    BY <2>1, <2>2
<1>5. Steps
  BY DEF coda_inactive, Steps, Reads, Overlaps
<1> QED
  BY <1>1, <1>2, <1>3, <1>4, <1>5 DEF Inv

-----------------------------------------------------------------------------
(* The theorems.                                                           *)

LEMMA InvNext == Inv /\ [Next]_vars => Inv' /\ Steps
<1> SUFFICES ASSUME Inv, [Next]_vars PROVE Inv' /\ Steps
  OBVIOUS
<1>1. CASE UNCHANGED vars
  <2>1. UNCHANGED <<files, pc>> /\ raced \subseteq raced'
    BY <1>1 DEF vars
  <2>2. CacheOK' /\ AttrOK' /\ RestOK' /\ RacedOK'
    BY <1>1 DEF vars, venus, Inv, CacheOK, AttrOK, RestOK, RacedOK
  <2> QED
    BY <2>1, <2>2, Stands
<1>2. ASSUME NEW t \in Threads,
             \/ Start(t) \/ VenusDoes(t) \/ VenusRefuses(t) \/ Refused(t)
             \/ Found(t) \/ MadeDone(t) \/ SymlinkDone(t) \/ Changed(t) \/ RemoveDone(t)
             \/ GetattrDone(t) \/ ReadlinkDone(t)
             \/ OpenDone(t) \/ ReaddirDone(t) \/ RdwrDone(t) \/ CloseDone(t)
      PROVE  Inv' /\ Steps
  BY <1>2, StartInv, VenusDoesInv, VenusRefusesInv, RefusedInv, FoundInv, MadeDoneInv,
     SymlinkDoneInv, ChangedInv, RemoveDoneInv, GetattrDoneInv, ReadlinkDoneInv,
     OpenDoneInv, ReaddirDoneInv, RdwrDoneInv, CloseDoneInv
<1>3. ASSUME NEW d \in Dirs, NEW n \in Names, ZapDir(d, n) PROVE Inv' /\ Steps
  BY <1>3, ZapDirInv
<1>4. ASSUME NEW n \in Nodes, ZapFile(n) \/ PurgeFid(n) \/ coda_inactive(n) PROVE Inv' /\ Steps
  BY <1>4, ZapFileInv, PurgeFidInv, InactiveInv
<1>5. CASE Flush
  BY <1>5, FlushInv
<1>6. ASSUME NEW u \in Users, PurgeUser(u) PROVE Inv' /\ Steps
  BY <1>6, PurgeUserInv
<1>7. ASSUME NEW c \in Creds, NEW u \in Users, CredReused(c, u) PROVE Inv' /\ Steps
  BY <1>7, CredReusedInv
<1> QED
  BY <1>1, <1>2, <1>3, <1>4, <1>5, <1>6, <1>7 DEF Next

\* Every vnode operation of the port, Venus and the kernel keep the types of Coda's
\* caches and counts: the name cache is never overfull, no count falls below zero.
THEOREM TigerTypeOK == Spec => []TypeOK
<1>1. Spec => []Inv
  BY InvInit, InvNext, PTL DEF Spec
<1> QED
  BY <1>1, InvType, PTL

\* However operations on the same file overlap or fail, coda_open and coda_close
\* agree: a vnode has a reference for every counted open and every close under way,
\* and the counts are no lower than what the kernel will close.
THEOREM TigerOpensRight == Spec => []OpensRight
<1>1. Spec => []Inv
  BY InvInit, InvNext, PTL DEF Spec
<1> QED
  BY <1>1, InvOpens, PTL

-----------------------------------------------------------------------------
(* The paths of symlinks.                                                  *)

OverlapOK == Shared(pc) \subseteq raced

\* Who reads a symlink that nobody else is about will be the first to have its path.
ReadersOK ==
  \A t \in Threads : pc[t].op = "readlink" /\ pc[t].node \notin raced => ~symlink[pc[t].node]

LinksInv == OverlapOK /\ ReadersOK /\ OnePath

LEMMA LinksInit == Init => LinksInv
<1> SUFFICES ASSUME Init PROVE LinksInv
  OBVIOUS
<1>1. \A t \in Threads : pc[t] = Idle
  BY DEF Init
<1>2. OverlapOK
  BY <1>1, IdlePlace DEF OverlapOK, Shared
<1>3. ReadersOK
  BY <1>1, IdlePlace DEF ReadersOK
<1>4. OnePath
  BY DEF Init, OnePath
<1> QED
  BY <1>2, <1>3, <1>4 DEF LinksInv

\* Which steps change symlinks and paths.
LEMMA PathsMove ==
  ASSUME Inv, Next
  PROVE  \/ UNCHANGED <<symlink, paths>>
         \/ \E t \in Threads : ReadlinkDone(t)
         \/ \E n \in Files : coda_inactive(n)
<1>1. ASSUME NEW t \in Threads, Start(t) PROVE UNCHANGED <<symlink, paths>>
  <2>1. PICK c \in Creds, op \in Ops : Operation(t, c, op)
    BY <1>1 DEF Start
  <2>2. CASE \/ coda_lookup(t, c) \/ coda_access(t, c) \/ coda_create(t, c) \/ coda_mkdir(t, c)
             \/ coda_symlink(t, c) \/ coda_link(t, c)
    BY <2>2 DEF coda_lookup, coda_access, coda_create, coda_mkdir, coda_symlink, coda_link, files
  <2>3. CASE coda_remove(t, c) \/ coda_rmdir(t, c) \/ coda_rename(t, c)
    <3>1. UNCHANGED files
      BY <2>3 DEF coda_remove, coda_rmdir, coda_rename
    <3> QED
      BY <3>1 DEF files
  <2>4. CASE \/ coda_getattr(t, c) \/ coda_setattr(t, c) \/ coda_readlink(t, c)
             \/ coda_open(t, c) \/ coda_pagein(t, c) \/ coda_readdir(t, c)
    BY <2>4 DEF coda_getattr, coda_setattr, coda_readlink, coda_open, coda_pagein, coda_readdir, files
  <2>5. CASE coda_close(t, c)
    BY <2>5 DEF coda_close
  <2>6. CASE coda_rdwr(t, c)
    BY <2>6 DEF coda_rdwr, files
  <2> QED
    BY <2>1, <2>2, <2>3, <2>4, <2>5, <2>6 DEF Operation
<1>2. ASSUME NEW t \in Threads,
             \/ VenusDoes(t) \/ VenusRefuses(t) \/ Refused(t) \/ Found(t) \/ MadeDone(t)
             \/ SymlinkDone(t) \/ Changed(t) \/ RemoveDone(t) \/ GetattrDone(t)
             \/ OpenDone(t) \/ ReaddirDone(t) \/ RdwrDone(t) \/ CloseDone(t)
      PROVE  UNCHANGED <<symlink, paths>>
  BY <1>2 DEF VenusDoes, VenusRefuses, Refused, Found, MadeDone, SymlinkDone, Changed, RemoveDone,
     GetattrDone, OpenDone, ReaddirDone, RdwrDone, CloseDone, files
<1>3. ASSUME NEW d \in Dirs, NEW n \in Names, ZapDir(d, n) PROVE UNCHANGED <<symlink, paths>>
  BY <1>3 DEF ZapDir, files
<1>4. ASSUME NEW n \in Nodes, ZapFile(n) \/ PurgeFid(n) PROVE UNCHANGED <<symlink, paths>>
  BY <1>4 DEF ZapFile, PurgeFid, files
<1>5. ASSUME NEW n \in Nodes \ Files, coda_inactive(n) PROVE UNCHANGED <<symlink, paths>>
  BY <1>5 DEF coda_inactive
<1>6. CASE Flush
  BY <1>6 DEF Flush, files
<1>7. ASSUME NEW u \in Users, PurgeUser(u) PROVE UNCHANGED <<symlink, paths>>
  BY <1>7 DEF PurgeUser, files
<1>8. ASSUME NEW c \in Creds, NEW u \in Users, CredReused(c, u) PROVE UNCHANGED <<symlink, paths>>
  BY <1>8 DEF CredReused, files
<1> QED
  BY <1>1, <1>2, <1>3, <1>4, <1>5, <1>6, <1>7, <1>8 DEF Next

LEMMA LinksNext == Inv /\ LinksInv /\ [Next]_vars => LinksInv'
<1> SUFFICES ASSUME Inv, LinksInv, [Next]_vars PROVE LinksInv'
  OBVIOUS
<1>1. Inv' /\ Reads /\ Overlaps /\ OverlapOK /\ ReadersOK /\ OnePath
  BY InvNext DEF Steps, LinksInv
<1>2. raced \subseteq raced'
  BY <1>1 DEF Overlaps
<1>3. OverlapOK'
  <2>1. CASE UNCHANGED pc
    BY <1>1, <1>2, <2>1 DEF OverlapOK, Shared
  <2>2. CASE Shared(pc') \subseteq raced'
    BY <2>2 DEF OverlapOK, Shared
  <2> QED
    BY <1>1, <2>1, <2>2 DEF Overlaps
<1>4. \A t \in Threads : pc'[t].op = "readlink" /\ pc'[t].node \notin raced => ~symlink[pc'[t].node]
  BY <1>1 DEF Reads, ReadersOK
<1>5. CASE UNCHANGED <<symlink, paths>>
  <2>1. ReadersOK' /\ OnePath'
    BY <1>1, <1>2, <1>4, <1>5 DEF ReadersOK, OnePath
  <2> QED
    BY <1>3, <2>1 DEF LinksInv
<1>6. ASSUME NEW t \in Threads, ReadlinkDone(t) PROVE LinksInv'
  <2>1. PICK f \in Files : f = pc[t].node
    BY <1>6, AskedPlace DEF ReadlinkDone, PlaceOK
  <2>2. /\ pc[t].op = "readlink" /\ Goes(t, Idle)
        /\ symlink' = [symlink EXCEPT ![f] = TRUE] /\ paths' = [paths EXCEPT ![f] = @ + 1]
    BY <1>6, <2>1 DEF ReadlinkDone, Return
  <2>3. pc' = [pc EXCEPT ![t] = Idle] /\ symlink \in [Files -> BOOLEAN] /\ paths \in [Files -> Nat]
    BY <2>2 DEF Goes, Inv, PathsOK
  <2>4. pc'[t] = Idle /\ \A u \in Threads : u # t => pc'[u] = pc[u]
    BY <2>3 DEF Inv, ThreadsOK
  <2>5. \A u \in Threads : pc'[u].op = "readlink" /\ pc'[u].node \notin raced
                           => pc'[u].node \in Files /\ pc'[u].node # f
    <3> TAKE u \in Threads
    <3> HAVE pc'[u].op = "readlink" /\ pc'[u].node \notin raced
    <3>1. u # t /\ pc[u].op = "readlink" /\ pc[u].node = pc'[u].node
      BY <2>4, IdlePlace
    <3>2. pc[u].node \in Files
      BY <3>1, AskedPlace DEF PlaceOK
    <3>3. CASE pc[u].node = f
      <4>1. f \in Nodes /\ f # None
        BY FilesAreNodes, TigerAssumption
      <4>2. f \in Touches(pc[t]) /\ f \in Touches(pc[u])
        BY <2>1, <3>3, <4>1 DEF Touches
      <4>3. f \in Shared(pc)
        BY <3>1, <4>1, <4>2 DEF Shared
      <4> QED
        BY <1>1, <3>1, <3>3, <4>3 DEF OverlapOK
    <3> QED
      BY <3>1, <3>2, <3>3
  <2>6. ReadersOK'
    BY <1>2, <1>4, <2>2, <2>3, <2>5 DEF ReadersOK
  <2>7. ASSUME NEW g \in Files \ raced PROVE paths'[g] = IF symlink'[g] THEN 1 ELSE 0
    <3>1. paths[g] = IF symlink[g] THEN 1 ELSE 0
      BY <1>1, <2>7 DEF OnePath
    <3>2. CASE g = f
      <4>1. ~symlink[f]
        BY <1>1, <2>1, <2>2, <2>7, <3>2 DEF ReadersOK
      <4>2. symlink'[f] = TRUE
        BY <2>2, <2>3
      <4>3. paths[f] = 0
        BY <3>1, <3>2, <4>1
      <4>4. paths'[f] = 1
        BY <2>2, <2>3, <4>3
      <4> QED
        BY <3>2, <4>2, <4>4
    <3>3. CASE g # f
      BY <2>2, <2>3, <3>1, <3>3
    <3> QED
      BY <3>2, <3>3
  <2>8. OnePath'
    BY <1>2, <2>7 DEF OnePath
  <2> QED
    BY <1>3, <2>6, <2>8 DEF LinksInv
<1>7. ASSUME NEW f \in Files, coda_inactive(f) PROVE LinksInv'
  <2>1. /\ UNCHANGED <<pc, raced>> /\ symlink' = [symlink EXCEPT ![f] = FALSE]
        /\ paths' = [paths EXCEPT ![f] = IF symlink[f] THEN @ - 1 ELSE @]
    BY <1>7 DEF coda_inactive, Freed
  <2>2. symlink \in [Files -> BOOLEAN] /\ paths \in [Files -> Nat]
    BY DEF Inv, PathsOK
  <2>3. \A g \in Files : (g = f => symlink'[g] = FALSE) /\ (g # f => symlink'[g] = symlink[g])
    BY <2>1, <2>2
  <2>4. ReadersOK'
    <3> SUFFICES ASSUME NEW u \in Threads, pc[u].op = "readlink", pc[u].node \notin raced
                 PROVE  ~symlink'[pc[u].node]
      BY <2>1 DEF ReadersOK
    <3>1. pc[u].node \in Files /\ ~symlink[pc[u].node]
      BY <1>1, AskedPlace DEF ReadersOK, PlaceOK
    <3> QED
      BY <2>3, <3>1
  <2>5. ASSUME NEW g \in Files \ raced PROVE paths'[g] = IF symlink'[g] THEN 1 ELSE 0
    <3>1. paths[g] = IF symlink[g] THEN 1 ELSE 0
      BY <1>1, <2>5 DEF OnePath
    <3>2. CASE g = f
      <4>1. CASE symlink[f]
        <5>1. paths' = [paths EXCEPT ![f] = @ - 1] /\ paths[f] = 1
          BY <2>1, <3>1, <3>2, <4>1
        <5>2. paths'[f] = 0
          BY <2>2, <5>1
        <5> QED
          BY <2>3, <3>2, <5>2
      <4>2. CASE ~symlink[f]
        <5>1. paths'[f] = paths[f] /\ paths[f] = 0
          BY <2>1, <2>2, <3>1, <3>2, <4>2
        <5> QED
          BY <2>3, <3>2, <5>1
      <4> QED
        BY <4>1, <4>2
    <3>3. CASE g # f
      BY <2>1, <2>2, <2>3, <3>1, <3>3
    <3> QED
      BY <3>2, <3>3
  <2>6. OnePath'
    BY <2>1, <2>5 DEF OnePath
  <2> QED
    BY <1>3, <2>4, <2>6 DEF LinksInv
<1>8. CASE UNCHANGED vars
  <2>1. UNCHANGED <<symlink, paths>>
    BY <1>8 DEF vars, files
  <2> QED
    BY <1>5, <2>1
<1> QED
  BY <1>5, <1>6, <1>7, <1>8, PathsMove

\* A path that coda_readlink has allocated is freed when the cnode is forgotten, and
\* there is one at most, on every node whose operations have not overlapped.
THEOREM TigerOnePath == Spec => []OnePath
<1>1. Spec => []Inv
  BY InvInit, InvNext, PTL DEF Spec
<1>2. Inv /\ LinksInv /\ [Next]_vars => LinksInv'
  BY LinksNext
<1>3. Spec => []LinksInv
  BY <1>1, <1>2, LinksInit, PTL DEF Spec
<1>4. LinksInv => OnePath
  BY DEF LinksInv
<1> QED
  BY <1>3, <1>4, PTL
-----------------------------------------------------------------------------
(* What is known of whom.                                                  *)

\* An operation is about nodes that have a cnode, or that Venus has just answered with.
SeenBy(p) ==
  /\ p.dir \in known \cup {None} /\ p.to \in known \cup {None}
  /\ p.node \in known \cup {None}
     \/ (p.at = "done" /\ p.op \in {"lookup", "create", "mkdir"} /\ p.node \notin fresh)
  /\ p.op = "link" => p.node \in Files

KnownInv ==
  /\ Root \in known /\ known \cap fresh = {}
  /\ \A t \in Threads : SeenBy(pc[t])
  /\ \A e \in cache : e.dir \in known /\ e.node \in known
  /\ \A d \in Dirs, n \in Names : tree[d][n] # None => d \notin fresh /\ tree[d][n] \notin fresh
  /\ \A n \in Nodes : attr[n] # None => n \in known
  /\ \A n \in Nodes : ocount[n] > 0 => n \in known

-----------------------------------------------------------------------------
(* New nodes.                                                              *)

Makes(p) == p.at = "done" /\ p.op \in {"create", "mkdir"}

NewInv ==
  /\ \A t \in Threads : Makes(pc[t]) => pc[t].node \notin known \/ pc[t].node \in raced
  /\ panicked \subseteq raced

-----------------------------------------------------------------------------
(* Cached attributes.                                                      *)

Removing == {"remove", "rmdir", "rename"}

\* Whose attributes an operation invalidates when Venus has answered, and before it is asked.
Fixes(p) ==
  CASE p.op \in {"create", "mkdir", "symlink", "link", "setattr"} -> {p.dir, p.node} \ {None}
    [] p.op = "rdwrclose" /\ p.write -> {p.node}
    [] OTHER -> {}
Forgot(p) ==
  CASE p.op \in Removing -> {p.dir, p.to} \ {None}
    [] p.op = "close" /\ p.write -> {p.node}
    [] OTHER -> {}

OldOK ==
  \A n \in Nodes : attr[n] = "old" =>
    n \in raced \/ \E t \in Threads : pc[t].at = "done" /\ n \in Fixes(pc[t])
ForgotOK ==
  \A t \in Threads : pc[t].at \in {"asked", "done"} =>
    \A n \in Forgot(pc[t]) : attr[n] = None \/ n \in raced
WrittenOK == \A n \in Nodes \ panicked : owrite[n] > 0 => attr[n] = None

AttrInv == OldOK /\ ForgotOK /\ WrittenOK

-----------------------------------------------------------------------------
(* Names.                                                                  *)

DirsOK ==
  \A d, e \in Dirs, n, m \in Names :
    /\ tree[d][n] # Root
    /\ tree[d][n] \in Dirs /\ tree[d][n] = tree[e][m] => d = e /\ n = m

\* Whether Venus agrees that name n of directory d is node x.
Agrees(d, n, x) ==
  /\ n \in Names => tree[d][n] = x
  /\ n = Dot => x = d
  /\ n = DotDot => x \in Parents(d)
Right(d, n, x) == d \notin raced /\ Alive(d) => Agrees(d, n, x)

EntriesOK == \A e \in cache : Right(e.dir, e.name, e.node)
AnswersOK ==
  \A t \in Threads : pc[t].at = "done" =>
    /\ pc[t].op \in {"lookup", "create", "mkdir"} => Right(pc[t].dir, pc[t].name, pc[t].node)
    /\ pc[t].op = "mkdir" => Right(pc[t].node, DotDot, pc[t].dir)

\* What an operation is about to change is not cached.
Lacks(C, d, n) == \A e \in C : ~(e.dir = d /\ e.name = n)
Missing(C, p) ==
  /\ p.op \in Removing => p.dir \in raced \/ Lacks(C, p.dir, p.name)
  /\ p.op = "rename" => p.to \in raced \/ Lacks(C, p.to, p.toname)
  /\ p.op = "rename" /\ p.dir # p.to => p.node \in raced \/ Lacks(C, p.node, DotDot)
MissingOK == \A t \in Threads : pc[t].at = "asked" => Missing(cache, pc[t])

NamesInv == DirsOK /\ EntriesOK /\ AnswersOK /\ MissingOK

-----------------------------------------------------------------------------
(* Rights.                                                                 *)

Holds(c, d) == d \in raced \/ <<owner[c], d>> \in rights
RightsInv ==
  /\ \A e \in cache : e.cred \in reused \/ Holds(e.cred, e.dir)
  /\ \A t \in Threads : pc[t].at = "done" =>
       /\ pc[t].op \in {"lookup", "create", "mkdir"} => Holds(pc[t].cred, pc[t].dir)
       /\ pc[t].op = "mkdir" => Holds(pc[t].cred, pc[t].node)

-----------------------------------------------------------------------------
(* What the steps of threads do to Coda's caches.                          *)

Lowers == \A n \in Nodes : attr'[n] \in {attr[n], None}

\* A thread begins an operation.
Begun(t, q) ==
  /\ pc[t].at = "idle" /\ pc' = [pc EXCEPT ![t] = q]
  /\ q = Idle \/ q.at = "asked"
  /\ {q.dir, q.to, q.node} \subseteq known \cup {None}
  /\ q.op = "link" => q.node \in Files
  /\ UNCHANGED <<known, venus, owner, panicked, reused>>
  /\ cache' \subseteq cache /\ Lowers
  /\ \A n \in Nodes : ocount'[n] <= ocount[n] /\ owrite'[n] <= owrite[n]
  /\ q.op \in Removing => \A n \in Forgot(q) : attr'[n] = None
  /\ q.op \in Removing => Missing(cache, q)'
  /\ q.op = "close" /\ q.write => q.node \in Nodes /\ owrite[q.node] > 0 /\ UNCHANGED attr
  /\ q.op # "rdwrclose"

LEMMA BegunIdle ==
  ASSUME Inv, NEW t \in Threads, At(t, "idle"), Return(t),
         UNCHANGED <<cache, known, venus, owner, panicked, reused>>, Lowers,
         \A n \in Nodes : ocount'[n] <= ocount[n] /\ owrite'[n] <= owrite[n]
  PROVE  Begun(t, Idle) /\ Idle \in Places
<1>1. pc' = [pc EXCEPT ![t] = Idle]
  BY DEF Return, Goes
<1>2. Idle.dir = None /\ Idle.to = None /\ Idle.node = None /\ Idle.op = "none"
  BY DEF Idle
<1> QED
  BY <1>1, <1>2, IdlePlace DEF Begun, At, Removing

\* It asks Venus, without having changed anything.
LEMMA BegunAsks ==
  ASSUME Inv, NEW t \in Threads, At(t, "idle"), NEW q \in Places, Goes(t, q), q.at = "asked",
         UNCHANGED <<cache, attr, files, known, venus, owner, panicked, reused>>,
         {q.dir, q.to, q.node} \subseteq known \cup {None},
         q.op = "link" => q.node \in Files,
         q.op \notin Removing \cup {"close", "rdwrclose"}
  PROVE  Begun(t, q)
<1>1. pc' = [pc EXCEPT ![t] = q]
  BY DEF Goes
<1>2. \A n \in Nodes : ocount'[n] <= ocount[n] /\ owrite'[n] <= owrite[n]
  BY DEF files, Inv, CountsOK
<1>3. Lowers
  BY DEF Lowers
<1> QED
  BY <1>1, <1>2, <1>3 DEF Begun, At

LEMMA PFields ==
  ASSUME NEW op \in InDirs \cup OnNodes, NEW c \in Creds
  PROVE  /\ P(op, c) \in Places /\ P(op, c).op = op
         /\ P(op, c).dir = None /\ P(op, c).to = None /\ P(op, c).node = None
BY PPlace DEF P, Idle

LEMMA BegunInDir ==
  ASSUME Inv, NEW t \in Threads, At(t, "idle"), NEW c \in Creds,
         UNCHANGED <<known, venus, owner, panicked, reused>>,
         \/ coda_lookup(t, c) \/ coda_access(t, c) \/ coda_create(t, c) \/ coda_mkdir(t, c)
         \/ coda_symlink(t, c) \/ coda_link(t, c)
  PROVE  \E q \in Places : Begun(t, q)
<1>1. UNCHANGED <<cache, attr, files>>
  BY DEF coda_lookup, coda_access, coda_create, coda_mkdir, coda_symlink, coda_link
<1>2. PICK op \in {"lookup", "access", "create", "mkdir", "symlink", "link"}, d \in known \cap Dirs,
           n \in Names \cup {DotDot, None}, f \in (known \cap Files) \cup {None} :
        /\ op = "link" <=> f # None
        /\ Ask(t, [P(op, c) EXCEPT !.dir = d, !.name = n, !.node = f])
  <2>1. ASSUME NEW op \in InDirs
        PROVE  P(op, c).name = None /\ P(op, c).node = None
               /\ DOMAIN P(op, c) = DOMAIN Idle /\ P(op, c) \in Places
    BY <2>1, PPlace DEF P, Idle
  <2>2. None \notin Files
    BY TigerAssumption DEF Nodes
  <2>3. CASE coda_lookup(t, c)
    <3>1. PICK d \in known \cap Dirs, n \in Names \cup {DotDot} :
            Ask(t, [P("lookup", c) EXCEPT !.dir = d, !.name = n])
      BY <2>3 DEF coda_lookup
    <3>2. Ask(t, [P("lookup", c) EXCEPT !.dir = d, !.name = n, !.node = None])
      <4>1. [P("lookup", c) EXCEPT !.dir = d, !.name = n]
              = [P("lookup", c) EXCEPT !.dir = d, !.name = n, !.node = None]
        BY <2>1 DEF InDirs, Places
      <4> QED
        BY <3>1, <4>1
    <3>3. /\ n \in Names \cup {DotDot, None} /\ None \in (known \cap Files) \cup {None}
          /\ (("lookup" = "link") <=> (None # None))
      OBVIOUS
    <3> QED
      BY <3>2, <3>3
  <2>4. CASE coda_access(t, c)
    <3>1. PICK d \in known \cap Dirs : Ask(t, [P("access", c) EXCEPT !.dir = d])
      BY <2>4 DEF coda_access
    <3>2. [P("access", c) EXCEPT !.dir = d]
            = [P("access", c) EXCEPT !.dir = d, !.name = None, !.node = None]
      BY <2>1 DEF InDirs, Places
    <3> QED
      BY <2>2, <3>1, <3>2
  <2>5. CASE coda_create(t, c) \/ coda_mkdir(t, c) \/ coda_symlink(t, c)
    <3>1. PICK op \in {"create", "mkdir", "symlink"}, d \in known \cap Dirs, n \in Names :
            Ask(t, [P(op, c) EXCEPT !.dir = d, !.name = n])
      BY <2>5 DEF coda_create, coda_mkdir, coda_symlink
    <3>2. Ask(t, [P(op, c) EXCEPT !.dir = d, !.name = n, !.node = None])
      <4>1. [P(op, c) EXCEPT !.dir = d, !.name = n]
              = [P(op, c) EXCEPT !.dir = d, !.name = n, !.node = None]
        BY <2>1 DEF InDirs, Places
      <4> QED
        BY <3>1, <4>1
    <3>3. /\ n \in Names \cup {DotDot, None} /\ None \in (known \cap Files) \cup {None}
          /\ ((op = "link") <=> (None # None))
      OBVIOUS
    <3> QED
      BY <3>2, <3>3
  <2>6. CASE coda_link(t, c)
    BY <2>2, <2>6 DEF coda_link
  <2> QED
    BY <2>3, <2>4, <2>5, <2>6
<1> DEFINE q == [[P(op, c) EXCEPT !.dir = d, !.name = n, !.node = f] EXCEPT !.at = "asked"]
<1>3. Goes(t, q)
  BY <1>2 DEF Ask
<1>4. P(op, c) \in Places /\ P(op, c).op = op /\ P(op, c).to = None
  BY PFields DEF InDirs
<1>5. f \in Nodes \cup {None} /\ n \in Names \cup {Dot, DotDot, None}
  BY DEF Nodes
<1>6. /\ q \in Places /\ q.at = "asked" /\ q.op = op /\ q.dir = d /\ q.to = None /\ q.node = f
  BY <1>4, <1>5 DEF Places
<1> HIDE DEF q
<1>7. Begun(t, q)
  BY <1>1, <1>2, <1>3, <1>6, BegunAsks DEF Removing
<1> QED
  BY <1>6, <1>7


LEMMA LowersBy ==
  ASSUME Inv
  PROVE  /\ \A D : attr' = Invalid(D) => Lowers
         /\ UNCHANGED attr => Lowers
         /\ UNCHANGED files => \A n \in Nodes : ocount'[n] <= ocount[n] /\ owrite'[n] <= owrite[n]
<1>1. \A D : attr' = Invalid(D) => Lowers
  BY DEF Lowers, Invalid
<1>2. UNCHANGED attr => Lowers
  BY DEF Lowers
<1>3. UNCHANGED files => \A n \in Nodes : ocount'[n] <= ocount[n] /\ owrite'[n] <= owrite[n]
  BY DEF files, Inv, CountsOK
<1> QED
  BY <1>1, <1>2, <1>3

LEMMA BegunOnNode ==
  ASSUME Inv, NEW t \in Threads, At(t, "idle"), NEW c \in Creds,
         UNCHANGED <<known, venus, owner, panicked, reused>>,
         \/ coda_getattr(t, c) \/ coda_setattr(t, c) \/ coda_readlink(t, c) \/ coda_readdir(t, c)
         \/ coda_open(t, c) \/ coda_pagein(t, c)
  PROVE  \E q \in Places : Begun(t, q)
<1>1. UNCHANGED <<cache, attr, files>> /\ known \subseteq Nodes
  BY DEF coda_getattr, coda_setattr, coda_readlink, coda_readdir, coda_open, coda_pagein, Inv, RestOK
<1>2. \A op \in OnNodes : P(op, c).write = FALSE /\ DOMAIN P(op, c) = DOMAIN Idle /\ P(op, c) \in Places
  BY PPlace DEF P, Idle
<1>3. \A op \in OnNodes : \A x : [P(op, c) EXCEPT !.node = x] = [P(op, c) EXCEPT !.node = x, !.write = FALSE]
  <2> TAKE op \in OnNodes
  <2> QED
    BY <1>2 DEF Places
<1>4. CASE ~Return(t)
  <2>1. PICK op \in {"getattr", "setattr", "readlink", "readdir", "open", "rdwr"}, x \in known,
             w \in BOOLEAN : Ask(t, [P(op, c) EXCEPT !.node = x, !.write = w])
    <3>1. CASE coda_open(t, c)
      BY <3>1 DEF coda_open
    <3>2. CASE ~coda_open(t, c)
      <4>1. PICK op \in {"getattr", "setattr", "readlink", "readdir", "rdwr"}, x \in known :
              Ask(t, [P(op, c) EXCEPT !.node = x])
        BY <1>4, <3>2 DEF coda_getattr, coda_setattr, coda_readlink, coda_readdir, coda_pagein
      <4>2. Ask(t, [P(op, c) EXCEPT !.node = x, !.write = FALSE])
        BY <1>3, <4>1 DEF OnNodes
      <4> QED
        BY <4>2
    <3> QED
      BY <3>1, <3>2
  <2> DEFINE q == [[P(op, c) EXCEPT !.node = x, !.write = w] EXCEPT !.at = "asked"]
  <2>2. Goes(t, q)
    BY <2>1 DEF Ask
  <2>3. P(op, c) \in Places /\ P(op, c).op = op /\ P(op, c).to = None /\ P(op, c).dir = None
    BY PFields DEF OnNodes
  <2>4. /\ q \in Places /\ q.at = "asked" /\ q.op = op /\ q.dir = None /\ q.to = None /\ q.node = x
    <3>1. x \in Nodes
      BY <1>1
    <3> QED
      BY <2>3, <3>1 DEF Places
  <2> HIDE DEF q
  <2>5. Begun(t, q)
    BY <1>1, <2>2, <2>4, BegunAsks DEF Removing
  <2> QED
    BY <2>4, <2>5
<1>5. CASE Return(t)
  BY <1>1, <1>5, BegunIdle, LowersBy
<1> QED
  BY <1>4, <1>5

LEMMA BegunRdwr ==
  ASSUME Inv, NEW t \in Threads, At(t, "idle"), NEW c \in Creds, coda_rdwr(t, c),
         UNCHANGED <<known, venus, owner, panicked, reused>>
  PROVE  \E q \in Places : Begun(t, q)
<1>1. PICK f \in known \cap Files, w \in BOOLEAN :
        \/ Return(t) /\ attr' = IF w THEN Invalid({f}) ELSE attr
        \/ UNCHANGED attr /\ Ask(t, [P("rdwr", c) EXCEPT !.node = f, !.write = w])
  BY DEF coda_rdwr
<1>2. UNCHANGED <<cache, files>>
  BY DEF coda_rdwr
<1>3. CASE Return(t) /\ attr' = IF w THEN Invalid({f}) ELSE attr
  <2>1. Lowers
    BY <1>3, LowersBy
  <2> QED
    BY <1>2, <1>3, <2>1, BegunIdle, LowersBy
<1>4. CASE UNCHANGED attr /\ Ask(t, [P("rdwr", c) EXCEPT !.node = f, !.write = w])
  <2> DEFINE q == [[P("rdwr", c) EXCEPT !.node = f, !.write = w] EXCEPT !.at = "asked"]
  <2>1. Goes(t, q)
    BY <1>4 DEF Ask
  <2>2. P("rdwr", c) \in Places /\ P("rdwr", c).op = "rdwr" /\ P("rdwr", c).to = None
        /\ P("rdwr", c).dir = None
    BY PFields DEF OnNodes
  <2>3. f \in Nodes
    BY DEF Nodes
  <2>4. /\ q \in Places /\ q.at = "asked" /\ q.op = "rdwr" /\ q.dir = None /\ q.to = None /\ q.node = f
    BY <2>2, <2>3 DEF Places
  <2> HIDE DEF q
  <2>5. Begun(t, q)
    BY <1>2, <1>4, <2>1, <2>4, BegunAsks DEF Removing
  <2> QED
    BY <2>4, <2>5
<1> QED
  BY <1>1, <1>3, <1>4

LEMMA BegunClose ==
  ASSUME Inv, KnownInv, NEW t \in Threads, At(t, "idle"), NEW c \in Creds, coda_close(t, c),
         UNCHANGED <<known, venus, owner, panicked, reused>>
  PROVE  \E q \in Places : Begun(t, q)
<1>1. PICK n \in Nodes, w \in BOOLEAN :
        /\ opens[n][w] > 0
        /\ IF n \in Dirs \/ ocount[n] <= 0
           THEN Return(t) /\ UNCHANGED <<ocount, owrite>>
           ELSE Closing(n, w) /\ Ask(t, [P("close", c) EXCEPT !.node = n, !.write = w])
        /\ UNCHANGED <<cache, attr, symlink, paths, refs>>
  BY DEF coda_close
<1>2. ocount \in [Nodes -> Nat] /\ owrite \in [Nodes -> Nat] /\ CountsOK
  BY DEF Inv, CountsOK
<1>3. CASE n \in Dirs \/ ocount[n] <= 0
  <2>1. \A m \in Nodes : ocount'[m] <= ocount[m] /\ owrite'[m] <= owrite[m]
    BY <1>1, <1>2, <1>3
  <2> QED
    BY <1>1, <1>3, <2>1, BegunIdle, LowersBy
<1>4. CASE ~(n \in Dirs \/ ocount[n] <= 0)
  <2> DEFINE q == [[P("close", c) EXCEPT !.node = n, !.write = w] EXCEPT !.at = "asked"]
  <2>1. Closing(n, w) /\ Goes(t, q)
    BY <1>1, <1>4 DEF Ask
  <2>2. P("close", c) \in Places /\ P("close", c).op = "close" /\ P("close", c).to = None
        /\ P("close", c).dir = None
    BY PFields DEF OnNodes
  <2>3. /\ q \in Places /\ q.at = "asked" /\ q.op = "close" /\ q.dir = None /\ q.to = None /\ q.node = n
        /\ q.write = w
    BY <2>2 DEF Places
  <2> HIDE DEF q
  <2>4. n \in Files /\ ocount[n] > 0
    BY <1>2, <1>4 DEF Nodes
  <2>5. \A m \in Nodes : ocount'[m] <= ocount[m] /\ owrite'[m] <= owrite[m]
    BY <1>2, <2>1 DEF Closing
  <2>6. w => owrite[n] > 0
    <3>1. /\ OpenW(n) \in Nat /\ OpenW(n) <= owrite[n]
          /\ opens[n][w] = IF w THEN OpenW(n) ELSE OpenR(n)
      BY <1>2, <2>4, OpenCounts, OpensAt
    <3>2. owrite[n] \in Nat
      BY <1>2
    <3> QED
      BY <1>1, <3>1, <3>2
  <2>7. n \in known
    BY <2>4 DEF KnownInv
  <2>8. Lowers /\ pc' = [pc EXCEPT ![t] = q] /\ cache' \subseteq cache /\ UNCHANGED attr
    BY <1>1, <2>1, LowersBy DEF Goes
  <2>9. q.op \notin Removing /\ q.op # "link" /\ q.op # "rdwrclose"
    BY <2>3 DEF Removing
  <2>10. Begun(t, q)
    BY <2>3, <2>5, <2>6, <2>7, <2>8, <2>9 DEF Begun, At
  <2> QED
    BY <2>3, <2>10
<1> QED
  BY <1>3, <1>4

LEMMA LookedUpKnown ==
  ASSUME KnownInv, NEW d, NEW n, NEW c
  PROVE  LookedUp(d, n, c) \subseteq known
<1>1. \A e \in Cached(d, n, c) : e.node \in known
  BY DEF Cached, KnownInv
<1> QED
  BY <1>1 DEF LookedUp

\* What is about to be removed is not found any more.
LEMMA BegunAsksLookedUp ==
  ASSUME Inv, NEW t \in Threads, At(t, "idle"), NEW p \in Places, AskLookedUp(t, p),
         UNCHANGED <<files, known, venus, owner, panicked, reused>>,
         p.op \in Removing, p.op # "rename" => p.to = None, cache' \subseteq cache,
         {p.dir, p.to, p.node} \subseteq known \cup {None}, p.dir # None, p.node # None,
         attr' = Invalid(Forgot(p)),
         p.op = "rename" => p.to # None /\ Lacks(cache', p.to, p.toname),
         Cached(p.dir, p.name, p.cred) # {} =>
           /\ Lacks(cache', p.dir, p.name)
           /\ p.op = "rename" /\ p.dir # p.to => Lacks(cache', p.node, DotDot)
  PROVE  \E q \in Places : Begun(t, q)
<1> DEFINE q == [p EXCEPT !.at = "asked"]
<1>1. /\ q \in Places /\ q.at = "asked" /\ q.op = p.op /\ q.dir = p.dir /\ q.to = p.to /\ q.node = p.node
      /\ q.name = p.name /\ q.toname = p.toname /\ q.write = p.write
  BY DEF Places
<1>2. /\ pc' = [pc EXCEPT ![t] = q]
      /\ Cached(p.dir, p.name, p.cred) = {} => Touches(p) \subseteq raced'
  BY DEF AskLookedUp
<1> HIDE DEF q
<1>3. Touches(p) = {p.dir, p.node, p.to} \ {None}
  BY DEF Touches
<1>4. Missing(cache, q)'
  <2>1. CASE Cached(p.dir, p.name, p.cred) = {}
    BY <1>1, <1>2, <1>3, <2>1 DEF Missing
  <2>2. CASE Cached(p.dir, p.name, p.cred) # {}
    BY <1>1, <2>2 DEF Missing
  <2> QED
    BY <2>1, <2>2
<1>5. \A n \in Forgot(q) : attr'[n] = None
  <2>1. Forgot(q) = Forgot(p) /\ Forgot(q) \subseteq Nodes
    BY <1>1 DEF Forgot, Removing, Inv, RestOK, Places, Nodes
  <2> QED
    BY <2>1 DEF Invalid
<1>6. Lowers /\ \A n \in Nodes : ocount'[n] <= ocount[n] /\ owrite'[n] <= owrite[n]
  BY LowersBy
<1>7. q.op # "link" /\ q.op # "close" /\ q.op # "rdwrclose"
  BY <1>1 DEF Removing
<1>8. Begun(t, q)
  BY <1>1, <1>2, <1>4, <1>5, <1>6, <1>7 DEF Begun, At
<1> QED
  BY <1>1, <1>8

LEMMA BegunRemoves ==
  ASSUME Inv, KnownInv, NEW t \in Threads, At(t, "idle"), NEW c \in Creds,
         UNCHANGED <<known, venus, owner, panicked, reused>>,
         coda_remove(t, c) \/ coda_rmdir(t, c)
  PROVE  \E q \in Places : Begun(t, q)
<1>1. PICK op \in {"remove", "rmdir"}, d \in known \cap Dirs, n \in Names, x \in Nodes :
        /\ x \in LookedUp(d, n, c)
        /\ AskLookedUp(t, [P(op, c) EXCEPT !.dir = d, !.name = n, !.node = x])
        /\ cache' \subseteq cache
        /\ Cached(d, n, c) # {} => cache' \cap Zapped(d, n) = {}
        /\ attr' = Invalid({d}) /\ UNCHANGED files
  <2>1. CASE coda_remove(t, c)
    <3>1. PICK d \in known \cap Dirs, n \in Names, x \in Nodes :
            /\ x \in LookedUp(d, n, c)
            /\ AskLookedUp(t, [P("remove", c) EXCEPT !.dir = d, !.name = n, !.node = x])
            /\ cache' = IF Cached(d, n, c) = {} THEN cache ELSE cache \ Zapped(d, n)
            /\ attr' = Invalid({d}) /\ UNCHANGED files
      BY <2>1, LookedUpNodes DEF coda_remove
    <3>2. cache' \subseteq cache /\ (Cached(d, n, c) # {} => cache' \cap Zapped(d, n) = {})
      BY <3>1
    <3> QED
      BY <3>1, <3>2
  <2>2. CASE coda_rmdir(t, c)
    <3>1. PICK d \in known \cap Dirs, n \in Names, x \in Nodes :
            /\ x \in LookedUp(d, n, c)
            /\ AskLookedUp(t, [P("rmdir", c) EXCEPT !.dir = d, !.name = n, !.node = x])
            /\ cache' = cache \ (Zapped(d, n) \cup UNION {ZappedParent(e.node) : e \in Cached(d, n, c)})
            /\ attr' = Invalid({d}) /\ UNCHANGED files
      BY <2>2, LookedUpNodes DEF coda_rmdir
    <3>2. cache' \subseteq cache /\ (Cached(d, n, c) # {} => cache' \cap Zapped(d, n) = {})
      BY <3>1
    <3> QED
      BY <3>1, <3>2
  <2> QED
    BY <2>1, <2>2
<1> DEFINE p == [P(op, c) EXCEPT !.dir = d, !.name = n, !.node = x]
<1>2. x \in known /\ x \in Nodes /\ d \in known /\ d \in Dirs
  BY <1>1, LookedUpKnown DEF Inv, RestOK
<1>3. P(op, c) \in Places /\ P(op, c).op = op /\ P(op, c).cred = c /\ P(op, c).to = None
  BY PPlace, PFields DEF InDirs
<1>4. /\ p \in Places /\ p.op = op /\ p.cred = c /\ p.dir = d /\ p.name = n /\ p.node = x /\ p.to = None
  BY <1>2, <1>3 DEF Places
<1>5. AskLookedUp(t, p)
  BY <1>1
<1> HIDE DEF p
<1>6. d # None /\ x # None
  BY <1>2, TigerAssumption DEF Nodes
<1>7. Forgot(p) = {d} /\ p.op \in Removing /\ p.op # "rename"
  BY <1>4, <1>6 DEF Forgot, Removing
<1>8. Cached(d, n, c) # {} => Lacks(cache', d, n)
  BY <1>1 DEF Lacks, Zapped
<1> QED
  BY <1>1, <1>2, <1>4, <1>5, <1>6, <1>7, <1>8, BegunAsksLookedUp

LEMMA BegunRename ==
  ASSUME Inv, KnownInv, NEW t \in Threads, At(t, "idle"), NEW c \in Creds,
         UNCHANGED <<known, venus, owner, panicked, reused>>, coda_rename(t, c)
  PROVE  \E q \in Places : Begun(t, q)
<1>1. PICK d \in known \cap Dirs, to \in known \cap Dirs, n \in Names, m \in Names, x \in Nodes :
        LET p == [P("rename", c) EXCEPT !.dir = d, !.name = n, !.to = to, !.toname = m, !.node = x]
        IN /\ x \in LookedUp(d, n, c) /\ AskLookedUp(t, p) /\ cache' = cache \ Renamed(p) /\ attr' = Invalid({d, to})
           /\ UNCHANGED files
  BY LookedUpNodes DEF coda_rename
<1> DEFINE p == [P("rename", c) EXCEPT !.dir = d, !.name = n, !.to = to, !.toname = m, !.node = x]
<1>2. x \in known /\ x \in Nodes
  BY <1>1, LookedUpKnown DEF Inv, RestOK
<1>3. P("rename", c) \in Places /\ P("rename", c).op = "rename" /\ P("rename", c).cred = c
  BY PPlace DEF InDirs
<1>4. /\ p \in Places /\ p.op = "rename" /\ p.cred = c /\ p.dir = d /\ p.name = n /\ p.node = x
      /\ p.to = to /\ p.toname = m
  BY <1>2, <1>3 DEF Places
<1>5. AskLookedUp(t, p) /\ cache' = cache \ Renamed(p)
  BY <1>1
<1> HIDE DEF p
<1>6. d # None /\ x # None /\ to # None
  BY <1>2, TigerAssumption DEF Nodes
<1>7. Forgot(p) = {d, to} /\ p.op \in Removing
  BY <1>4, <1>6 DEF Forgot, Removing
<1>8. cache' \subseteq cache /\ Lacks(cache', d, n) /\ Lacks(cache', to, m)
  BY <1>4, <1>5 DEF Lacks, Zapped, Renamed
<1>9. ASSUME Cached(d, n, c) # {}, d # to PROVE Lacks(cache', x, DotDot)
  <2>1. PICK e \in Cached(d, n, c) : x = e.node
    BY <1>1, <1>9 DEF LookedUp
  <2>2. Zapped(x, DotDot) \subseteq Renamed(p)
    BY <1>4, <1>9, <2>1 DEF Renamed
  <2> QED
    BY <1>5, <2>2 DEF Lacks, Zapped
<1> QED
  BY <1>1, <1>2, <1>4, <1>5, <1>6, <1>7, <1>8, <1>9, BegunAsksLookedUp

\* Whatever a thread starts is one of these.
LEMMA BegunStart ==
  ASSUME Inv, KnownInv, NEW t \in Threads, Start(t)
  PROVE  \E q \in Places : Begun(t, q)
<1>1. At(t, "idle") /\ UNCHANGED <<known, venus, owner, panicked, reused>>
  BY DEF Start
<1>2. PICK c \in Creds, op \in Ops : Operation(t, c, op)
  BY DEF Start
<1> QED
  BY <1>1, <1>2, BegunInDir, BegunOnNode, BegunRdwr, BegunRemoves, BegunRename, BegunClose DEF Operation

-----------------------------------------------------------------------------
(* Venus answers.                                                          *)

Finds(p) ==
  /\ p.op \in {"lookup", "access"} /\ May(p) /\ p.node # None /\ UNCHANGED venus
  /\ p.node = IF p.op = "lookup" THEN Binding(p.dir, p.name) ELSE p.dir

Creates(p, g) ==
  /\ p.op \in {"create", "mkdir", "symlink"} /\ May(p) /\ tree[p.dir][p.name] = None
  /\ g \in fresh /\ g \in (IF p.op = "mkdir" THEN Dirs ELSE Files)
  /\ p.op # "symlink" => p.node = g
  /\ tree' = [tree EXCEPT ![p.dir][p.name] = g] /\ fresh' = fresh \ {g}
  /\ rights' = {r \in rights : r[2] # g}
                 \cup {r \in Users \X (Dirs \cap {g}) : <<r[1], p.dir>> \in rights}

Links(p) ==
  /\ p.op = "link" /\ tree[p.dir][p.name] = None
  /\ tree' = [tree EXCEPT ![p.dir][p.name] = p.node] /\ UNCHANGED <<fresh, rights>>

Unlinks(p) ==
  /\ p.op \in {"remove", "rmdir"}
  /\ tree' = [tree EXCEPT ![p.dir][p.name] = None] /\ UNCHANGED <<fresh, rights>>

Moves(p, x) ==
  /\ p.op = "rename" /\ x = tree[p.dir][p.name] /\ x # None /\ x # tree[p.to][p.toname]
  /\ tree' = [[tree EXCEPT ![p.dir][p.name] = None] EXCEPT ![p.to][p.toname] = x]
  /\ x \in raced' \/ x = p.node
  /\ UNCHANGED <<fresh, rights>>

Leads(p) == p.op \in {"lookup", "access", "create", "mkdir"}

Alike(p, q) ==
  /\ q.op = p.op /\ q.cred = p.cred /\ q.dir = p.dir /\ q.name = p.name /\ q.to = p.to
  /\ q.toname = p.toname /\ q.write = p.write
  /\ ~Leads(p) => q.node = p.node

Answers(t, q) ==
  /\ pc[t].at = "asked" /\ pc' = [pc EXCEPT ![t] = q] /\ q.at = "done" /\ Alike(pc[t], q)
  /\ UNCHANGED <<cache, known, files, owner, panicked, reused>>
  /\ \A n \in Nodes :
       attr'[n] = attr[n] \/ (attr[n] # None /\ attr'[n] = "old" /\ n \in Fixes(q) \cup Forgot(q))
  /\ \/ Finds(q) \/ (\E g \in Nodes : Creates(q, g)) \/ Links(q) \/ Unlinks(q)
     \/ (\E x \in Nodes : Moves(q, x))
     \/ q.op \in OnNodes /\ UNCHANGED venus

LEMMA OutdatedOnly ==
  ASSUME Inv, NEW D, NEW E, D \cap Nodes \subseteq E, attr' = Outdated(D)
  PROVE  \A n \in Nodes : attr'[n] = attr[n] \/ (attr[n] # None /\ attr'[n] = "old" /\ n \in E)
BY DEF Outdated

LEMMA AnswersHow ==
  ASSUME Inv, NEW t \in Threads, VenusDoes(t)
  PROVE  \E q \in Places : Answers(t, q)
<1> DEFINE p == pc[t]
<1>1. /\ At(t, "asked") /\ UNCHANGED <<cache, known, files, owner, panicked, reused, ops>>
      /\ Looked(t, p) \/ Made(t, p) \/ AnotherName(t, p) \/ Unnamed(t, p) \/ Moved(t, p) \/ Other(t, p)
  BY DEF VenusDoes
<1>2. p \in Places /\ PlaceOK(p) /\ p.at = "asked"
  BY <1>1, AskedPlace DEF At
<1>3. tree \in [Dirs -> [Names -> Nodes \cup {None}]] /\ fresh \subseteq Nodes
  BY DEF Inv, RestOK
<1> HIDE DEF p
<1> DEFINE q == [p EXCEPT !.at = "done"]
           r(n) == [[p EXCEPT !.node = n] EXCEPT !.at = "done"]
<1>4. /\ q \in Places /\ q.at = "done" /\ Alike(p, q) /\ q.node = p.node
  BY <1>2 DEF Places, Alike
<1>5. ASSUME NEW n \in Nodes
      PROVE  /\ r(n) \in Places /\ r(n).at = "done" /\ r(n).node = n
             /\ Leads(p) => Alike(p, r(n))
  BY <1>2 DEF Places, Alike
<1>6. ASSUME NEW x \in Places, NEW D, Does(t, x, D)
      PROVE  pc' = [pc EXCEPT ![t] = [x EXCEPT !.at = "done"]] /\ attr' = Outdated(D)
  BY <1>6 DEF Does, Goes
<1>7. CASE Looked(t, p)
  <2> DEFINE n == IF p.op = "lookup" THEN Binding(p.dir, p.name) ELSE p.dir
  <2>1. /\ p.op \in {"lookup", "access"} /\ May(p) /\ UNCHANGED venus
        /\ n # None /\ Does(t, [p EXCEPT !.node = n], {})
    BY <1>7 DEF Looked
  <2>2. n \in Nodes
    <3>1. p.dir \in Dirs /\ (p.op = "lookup" => p.name \in Names \cup {DotDot})
      BY <1>2, <2>1 DEF PlaceOK, InDirs
    <3>2. p.dir \in Nodes
      BY <3>1 DEF Nodes
    <3> QED
      BY <2>1, <3>1, <3>2, BindingNode
  <2>3. n = IF p.op = "lookup" THEN Binding(p.dir, p.name) ELSE p.dir
    OBVIOUS
  <2> HIDE DEF n
  <2>4. [p EXCEPT !.node = n] \in Places
    BY <1>2, <2>2 DEF Places
  <2>5. pc' = [pc EXCEPT ![t] = r(n)] /\ attr' = Outdated({})
    BY <1>6, <2>1, <2>4
  <2>6. r(n) \in Places /\ r(n).at = "done" /\ r(n).node = n /\ Alike(p, r(n))
    BY <1>5, <2>1, <2>2 DEF Leads
  <2> DEFINE s == r(n)
  <2>7. s \in Places /\ s.at = "done" /\ s.node = n /\ Alike(p, s) /\ pc' = [pc EXCEPT ![t] = s]
    BY <2>5, <2>6
  <2> HIDE DEF s, r
  <2>8. Finds(s)
    BY <2>1, <2>3, <2>7 DEF Finds, Alike, May
  <2>9. \A m \in Nodes : attr'[m] = attr[m] \/ (attr[m] # None /\ attr'[m] = "old" /\ m \in Fixes(s) \cup Forgot(s))
    BY <2>5, OutdatedOnly
  <2> QED
    BY <1>1, <1>2, <2>7, <2>8, <2>9 DEF Answers, p
<1>8. CASE Made(t, p)
  <2>1. PICK g \in fresh \cap (IF p.op = "mkdir" THEN Dirs ELSE Files) :
          /\ tree' = [tree EXCEPT ![p.dir][p.name] = g] /\ fresh' = fresh \ {g}
          /\ rights' = {x \in rights : x[2] # g}
                         \cup {x \in Users \X (Dirs \cap {g}) : <<x[1], p.dir>> \in rights}
          /\ Does(t, IF p.op = "symlink" THEN p ELSE [p EXCEPT !.node = g], {p.dir})
    BY <1>8 DEF Made
  <2>2. /\ p.op \in {"create", "mkdir", "symlink"} /\ May(p) /\ tree[p.dir][p.name] = None
        /\ g \in Nodes
    BY <1>3, <1>8, <2>1 DEF Made
  <2>3. PICK s \in Places : /\ s.at = "done" /\ Alike(p, s) /\ pc' = [pc EXCEPT ![t] = s]
                            /\ attr' = Outdated({p.dir}) /\ (p.op # "symlink" => s.node = g)
    <3>1. CASE p.op = "symlink"
      BY <1>2, <1>4, <1>6, <2>1, <3>1
    <3>2. CASE p.op # "symlink"
      <4>1. [p EXCEPT !.node = g] \in Places
        BY <1>2, <2>2 DEF Places
      <4>2. pc' = [pc EXCEPT ![t] = r(g)] /\ attr' = Outdated({p.dir})
        BY <1>6, <2>1, <3>2, <4>1
      <4>3. r(g) \in Places /\ r(g).at = "done" /\ r(g).node = g /\ Alike(p, r(g))
        BY <1>5, <2>2, <3>2 DEF Leads
      <4> QED
        BY <4>2, <4>3
    <3> QED
      BY <3>1, <3>2
  <2> HIDE DEF q, r
  <2>4. Creates(s, g)
    <3>1. s.op = p.op /\ s.dir = p.dir /\ s.name = p.name /\ s.cred = p.cred
      BY <2>3 DEF Alike
    <3>2. May(s)
      BY <2>2, <3>1 DEF May
    <3> QED
      BY <2>1, <2>2, <2>3, <3>1, <3>2 DEF Creates
  <2>5. {p.dir} \cap Nodes \subseteq Fixes(s) \cup Forgot(s)
    BY <2>2, <2>3, TigerAssumption DEF Fixes, Alike
  <2>6. \A m \in Nodes : attr'[m] = attr[m] \/ (attr[m] # None /\ attr'[m] = "old" /\ m \in Fixes(s) \cup Forgot(s))
    BY <2>3, <2>5, OutdatedOnly
  <2> QED
    BY <1>1, <1>2, <2>2, <2>3, <2>4, <2>6 DEF Answers, p
<1>9. ASSUME NEW D, attr' = Outdated(D), D \cap Nodes \subseteq Fixes(q) \cup Forgot(q),
             pc' = [pc EXCEPT ![t] = q],
             \/ Links(q) \/ Unlinks(q) \/ (\E x \in Nodes : Moves(q, x))
             \/ q.op \in OnNodes /\ UNCHANGED venus
      PROVE  \E s \in Places : Answers(t, s)
  <2> HIDE DEF q, r
  <2>1. \A m \in Nodes : attr'[m] = attr[m] \/ (attr[m] # None /\ attr'[m] = "old" /\ m \in Fixes(q) \cup Forgot(q))
    BY <1>9, OutdatedOnly
  <2>2. Answers(t, q)
    BY <1>1, <1>2, <1>4, <1>9, <2>1 DEF Answers, p
  <2> QED
    BY <1>4, <2>2
<1>10. CASE AnotherName(t, p)
  <2>1. Does(t, p, {p.dir, p.node})
    BY <1>10 DEF AnotherName
  <2>2. pc' = [pc EXCEPT ![t] = q] /\ attr' = Outdated({p.dir, p.node})
    BY <1>2, <1>6, <2>1
  <2> HIDE DEF q, r
  <2>3. Links(q)
    BY <1>4, <1>10 DEF AnotherName, Links, Alike
  <2>4. {p.dir, p.node} \cap Nodes \subseteq Fixes(q) \cup Forgot(q)
    BY <1>4, <2>3, TigerAssumption DEF Links, Alike, Fixes
  <2> QED
    BY <1>9, <2>2, <2>3, <2>4
<1>11. CASE Unnamed(t, p)
  <2>1. Does(t, p, {p.dir})
    BY <1>11 DEF Unnamed
  <2>2. pc' = [pc EXCEPT ![t] = q] /\ attr' = Outdated({p.dir})
    BY <1>2, <1>6, <2>1
  <2> HIDE DEF q, r
  <2>3. Unlinks(q)
    BY <1>4, <1>11 DEF Unnamed, Unlinks, Alike
  <2>4. {p.dir} \cap Nodes \subseteq Fixes(q) \cup Forgot(q)
    BY <1>4, <2>3, TigerAssumption DEF Unlinks, Alike, Forgot, Removing
  <2> QED
    BY <1>9, <2>2, <2>3, <2>4
<1>12. CASE Moved(t, p)
  <2>1. pc' = [pc EXCEPT ![t] = q] /\ attr' = Outdated({p.dir, p.to})
    BY <1>12 DEF Moved, p
  <2> DEFINE x == tree[p.dir][p.name]
  <2> HIDE DEF q, r
  <2>2. x \in Nodes
    <3>1. p.dir \in Dirs /\ p.name \in Names
      BY <1>2, <1>12 DEF Moved, PlaceOK, InDirs
    <3> QED
      BY <1>3, <1>12, <3>1 DEF Moved
  <2>3. Moves(q, x)
    BY <1>4, <1>12 DEF Moved, Moves, Alike
  <2>4. {p.dir, p.to} \cap Nodes \subseteq Fixes(q) \cup Forgot(q)
    BY <1>4, <2>3, TigerAssumption DEF Moves, Alike, Forgot, Removing
  <2> QED
    BY <1>9, <2>1, <2>2, <2>3, <2>4
<1>13. CASE Other(t, p)
  <2> DEFINE D == IF p.op = "setattr" \/ (p.op \in {"close", "rdwrclose"} /\ p.write) THEN {p.node} ELSE {}
  <2>1. Does(t, p, D) /\ p.op \in OnNodes /\ UNCHANGED venus
    BY <1>13 DEF Other, OnNodes
  <2>2. pc' = [pc EXCEPT ![t] = q] /\ attr' = Outdated(D)
    BY <1>2, <1>6, <2>1
  <2> HIDE DEF q, r
  <2>3. D \cap Nodes \subseteq Fixes(q) \cup Forgot(q)
    BY <1>4, <2>1, TigerAssumption DEF Alike, Fixes, Forgot, Removing, OnNodes
  <2>4. q.op \in OnNodes
    BY <1>4, <2>1 DEF Alike
  <2> HIDE DEF D
  <2> QED
    BY <1>9, <2>1, <2>2, <2>3, <2>4
<1> QED
  BY <1>1, <1>7, <1>8, <1>10, <1>11, <1>12, <1>13

-----------------------------------------------------------------------------
(* What a change of one or two names leaves as it was.                     *)

\* What a directory that was there keeps.
Keeps(d, n, x) == Alive(d)' /\ Agrees(d, n, x) => Agrees(d, n, x)'

LEMMA LinkedAt ==
  /\ \A e : Alive(e) <=> e = Root \/ (e # None /\ \E d \in Dirs, n \in Names : tree[d][n] = e)
  /\ \A e : Alive(e)' <=> e = Root \/ (e # None /\ \E d \in Dirs, n \in Names : tree'[d][n] = e)
<1>1. \A e : Alive(e) <=> e = Root \/ (e # None /\ \E d \in Dirs, n \in Names : tree[d][n] = e)
  BY DEF Alive, Linked
<1>2. \A e : Alive(e)' <=> e = Root \/ (e # None /\ \E d \in Dirs, n \in Names : tree'[d][n] = e)
  BY DEF Alive, Linked
<1> QED
  BY <1>1, <1>2

\* A name that no directory had goes to a file or to something new.
LEMMA OneName ==
  ASSUME Inv, KnownInv, DirsOK, NEW d \in Dirs, NEW n \in Names,
         NEW x \in fresh \cup Files \cup {None}, tree' = [tree EXCEPT ![d][n] = x]
  PROVE  /\ DirsOK'
         /\ \A e \in Dirs \ fresh : Alive(e)' => Alive(e)
         /\ \A e \in Dirs \ fresh : \A m, y : ~(e = d /\ m = n) => Keeps(e, m, y)
<1>1. \A e \in Dirs, m \in Names : tree'[e][m] = IF e = d /\ m = n THEN x ELSE tree[e][m]
  BY DEF Inv, RestOK
<1>2. Root \notin fresh /\ Root \in Dirs /\ Dirs \cap Files = {} /\ None \notin Dirs
  BY TigerAssumption DEF KnownInv, Nodes
<1>3. \A e \in Dirs, m \in Names : tree[e][m] \notin fresh
  BY TigerAssumption DEF KnownInv, Inv, RestOK
<1>4. DirsOK'
  <2> SUFFICES ASSUME NEW b \in Dirs, NEW e \in Dirs, NEW k \in Names, NEW m \in Names
               PROVE  /\ tree'[b][k] # Root
                      /\ tree'[b][k] \in Dirs /\ tree'[b][k] = tree'[e][m] => b = e /\ k = m
    BY DEF DirsOK
  <2>1. /\ tree[b][k] # Root
        /\ tree[b][k] \in Dirs /\ tree[b][k] = tree[e][m] => b = e /\ k = m
    BY DEF DirsOK
  <2>2. /\ tree'[b][k] = IF b = d /\ k = n THEN x ELSE tree[b][k]
        /\ tree'[e][m] = IF e = d /\ m = n THEN x ELSE tree[e][m]
    BY <1>1
  <2>3. tree[b][k] \notin fresh /\ tree[e][m] \notin fresh
    BY <1>3
  <2> QED
    BY <1>2, <2>1, <2>2, <2>3
<1>5. \A e \in Dirs \ fresh : Alive(e)' => Alive(e)
  BY <1>1, <1>2, LinkedAt
<1>6. ASSUME NEW e \in Dirs \ fresh, NEW m, NEW y, ~(e = d /\ m = n), Alive(e)', Agrees(e, m, y)
      PROVE  Agrees(e, m, y)'
  <2>1. m \in Names => tree'[e][m] = y
    BY <1>1, <1>6 DEF Agrees
  <2>2. m = Dot => y = e
    BY <1>6 DEF Agrees
  <2>3. ASSUME m = DotDot PROVE y \in Dirs /\ \E k \in Names : tree'[y][k] = e
    <3>1. PICK k \in Names : y \in Dirs /\ tree[y][k] = e
      BY <1>6, <2>3 DEF Agrees, Parents
    <3>2. CASE y = d /\ k = n
      <4>1. \A b \in Dirs, j \in Names : tree[b][j] = e => b = d /\ j = n
        BY <3>1, <3>2 DEF DirsOK
      <4>2. e # Root
        BY <3>1 DEF DirsOK
      <4>3. PICK b \in Dirs, j \in Names : tree'[b][j] = e
        BY <1>6, <4>2, LinkedAt
      <4>4. b = d /\ j = n
        BY <1>1, <4>1, <4>3
      <4>5. x = e
        BY <1>1, <4>3, <4>4
      <4> QED
        BY <1>2, <4>5
    <3>3. CASE ~(y = d /\ k = n)
      BY <1>1, <3>1, <3>3
    <3> QED
      BY <3>2, <3>3
  <2> QED
    BY <2>1, <2>2, <2>3 DEF Agrees, Parents
<1> QED
  BY <1>4, <1>5, <1>6 DEF Keeps

\* What has one name gets another, which may have been something else's.
LEMMA TwoNames ==
  ASSUME Inv, DirsOK, NEW d \in Dirs, NEW n \in Names, NEW to \in Dirs, NEW k \in Names, NEW x \in Nodes,
         x = tree[d][n], x # tree[to][k],
         \A e \in Dirs, m \in Names :
           tree'[e][m] = IF e = to /\ m = k THEN x ELSE IF e = d /\ m = n THEN None ELSE tree[e][m]
  PROVE  /\ DirsOK'
         /\ \A e \in Dirs : Alive(e)' => Alive(e)
         /\ \A e \in Dirs : \A m, y :
              ~(e = d /\ m = n) /\ ~(e = to /\ m = k) /\ ~(d # to /\ e = x /\ m = DotDot) => Keeps(e, m, y)
<1>1. \A e \in Dirs, m \in Names :
        tree'[e][m] = IF e = to /\ m = k THEN x ELSE IF e = d /\ m = n THEN None ELSE tree[e][m]
  OBVIOUS
<1>2. None \notin Nodes /\ None \notin Dirs /\ ~(d = to /\ n = k)
  BY TigerAssumption DEF Nodes
<1>3. DirsOK'
  <2> SUFFICES ASSUME NEW b \in Dirs, NEW e \in Dirs, NEW j \in Names, NEW m \in Names
               PROVE  /\ tree'[b][j] # Root
                      /\ tree'[b][j] \in Dirs /\ tree'[b][j] = tree'[e][m] => b = e /\ j = m
    BY DEF DirsOK
  <2>1. /\ tree[b][j] # Root /\ tree[d][n] # Root
        /\ tree[b][j] \in Dirs /\ tree[b][j] = tree[e][m] => b = e /\ j = m
        /\ tree[b][j] \in Dirs /\ tree[b][j] = tree[d][n] => b = d /\ j = n
        /\ tree[e][m] \in Dirs /\ tree[e][m] = tree[d][n] => e = d /\ m = n
    BY DEF DirsOK
  <2>2. /\ tree'[b][j] = IF b = to /\ j = k THEN x ELSE IF b = d /\ j = n THEN None ELSE tree[b][j]
        /\ tree'[e][m] = IF e = to /\ m = k THEN x ELSE IF e = d /\ m = n THEN None ELSE tree[e][m]
    BY <1>1
  <2>3. Root # None
    BY <1>2, TigerAssumption
  <2> QED
    BY <1>2, <2>1, <2>2, <2>3
<1>4. ASSUME NEW e \in Dirs, Alive(e)' PROVE Alive(e)
  <2>1. CASE e # Root
    <3>1. PICK b \in Dirs, i \in Names : tree'[b][i] = e
      BY <1>4, <2>1, LinkedAt
    <3>2. tree[b][i] = e \/ tree[d][n] = e
      BY <1>1, <1>2, <3>1
    <3> QED
      BY <1>2, <3>2, LinkedAt
  <2> QED
    BY <2>1, LinkedAt
<1>5. ASSUME NEW e \in Dirs, NEW m, NEW y, Alive(e)', Agrees(e, m, y),
             ~(e = d /\ m = n), ~(e = to /\ m = k), ~(d # to /\ e = x /\ m = DotDot)
      PROVE  Agrees(e, m, y)'
  <2>1. m \in Names => tree'[e][m] = y
    BY <1>1, <1>5 DEF Agrees
  <2>2. m = Dot => y = e
    BY <1>5 DEF Agrees
  <2>3. ASSUME m = DotDot PROVE y \in Dirs /\ \E j \in Names : tree'[y][j] = e
    <3>1. PICK j \in Names : y \in Dirs /\ tree[y][j] = e
      BY <1>5, <2>3 DEF Agrees, Parents
    <3>2. CASE y = d /\ j = n
      <4>1. e = x /\ d = to
        BY <1>5, <2>3, <3>1, <3>2
      <4> QED
        BY <1>1, <3>2, <4>1
    <3>3. CASE y = to /\ j = k
      <4>1. \A b \in Dirs, i \in Names : tree[b][i] = e => b = to /\ i = k
        BY <3>1, <3>3 DEF DirsOK
      <4>2. e # Root /\ e # x
        BY <3>1, <3>3 DEF DirsOK
      <4>3. PICK b \in Dirs, i \in Names : tree'[b][i] = e
        BY <1>5, <4>2, LinkedAt
      <4>4. ~(b = to /\ i = k) /\ ~(b = d /\ i = n)
        BY <1>1, <1>2, <4>2, <4>3
      <4>5. tree[b][i] = e
        BY <1>1, <4>3, <4>4
      <4> QED
        BY <4>1, <4>4, <4>5
    <3>4. CASE ~(y = d /\ j = n) /\ ~(y = to /\ j = k)
      BY <1>1, <3>1, <3>4
    <3> QED
      BY <3>2, <3>3, <3>4
  <2> QED
    BY <2>1, <2>2, <2>3 DEF Agrees, Parents
<1> QED
  BY <1>3, <1>4, <1>5 DEF Keeps

-----------------------------------------------------------------------------
(* The invariant, and what begins keeps it.                                *)

RightInv == KnownInv /\ NewInv /\ AttrInv /\ NamesInv /\ RightsInv

LEMMA OneMoves ==
  ASSUME Inv, NEW t \in Threads, NEW q, pc' = [pc EXCEPT ![t] = q]
  PROVE  pc'[t] = q /\ \A u \in Threads : u # t => pc'[u] = pc[u]
BY DEF Inv, ThreadsOK

\* Two threads are about one node.
LEMMA Meet ==
  ASSUME OverlapOK, NEW t \in Threads, NEW u \in Threads, t # u, NEW n \in Nodes,
         n \in Touches(pc[t]), n \in Touches(pc[u])
  PROVE  n \in raced
BY DEF OverlapOK, Shared

\* What an operation changes the attributes of it is about.
LEMMA FixesTouches ==
  ASSUME NEW p \in Places, PlaceOK(p)
  PROVE  /\ Fixes(p) \subseteq Touches(p) /\ Forgot(p) \subseteq Touches(p)
         /\ Touches(p) \subseteq Nodes
<1>1. Touches(p) \subseteq Nodes
  BY TouchesNodes
<1>2. p.op \in Closes => p.node \in Nodes /\ p.node # None
  BY TigerAssumption DEF PlaceOK, OnNodes, Closes
<1>3. Fixes(p) \subseteq Touches(p)
  BY <1>2 DEF Fixes, Touches, Closes
<1>4. Forgot(p) \subseteq Touches(p)
  BY <1>2 DEF Forgot, Touches, Closes
<1> QED
  BY <1>1, <1>3, <1>4

\* What names stand for remains right, as long as the directories stay as they are.
LEMMA RightStays ==
  ASSUME UNCHANGED tree, raced \subseteq raced', NEW d, NEW n, NEW x, Right(d, n, x)
  PROVE  Right(d, n, x)'
BY DEF Right, Agrees, Alive, Linked, Parents


LEMMA BegunRight ==
  ASSUME Inv, Inv', raced \subseteq raced', RightInv, NEW t \in Threads, NEW q \in Places, Begun(t, q)
  PROVE  RightInv'
<1>1. pc'[t] = q /\ \A u \in Threads : u # t => pc'[u] = pc[u]
  BY OneMoves DEF Begun
<1>2. /\ pc[t].at = "idle"
      /\ q = Idle \/ q.at = "asked"
      /\ UNCHANGED <<known, tree, fresh, rights, owner, panicked, reused>>
      /\ cache' \subseteq cache
  BY DEF Begun, venus
<1>3. q.at # "done" /\ pc[t].at # "done"
  BY <1>2 DEF Idle
<1>4. \A n \in Nodes : attr'[n] = attr[n] \/ attr'[n] = None
  BY DEF Begun, Lowers
<1>5. KnownInv'
  <2>1. \A u \in Threads : SeenBy(pc[u])'
    <3> TAKE u \in Threads
    <3>1. CASE u = t
      BY <1>1, <3>1 DEF Begun, SeenBy, Idle
    <3>2. CASE u # t
      BY <1>1, <1>2, <3>2 DEF RightInv, KnownInv, SeenBy
    <3> QED
      BY <3>1, <3>2
  <2>2. \A n \in Nodes : ocount'[n] > 0 => n \in known'
    <3> TAKE n \in Nodes
    <3>1. ocount[n] \in Nat /\ ocount'[n] \in Nat /\ ocount'[n] <= ocount[n]
      BY DEF Inv, CountsOK, Begun
    <3> QED
      BY <1>2, <3>1 DEF RightInv, KnownInv
  <2> QED
    BY <1>2, <1>4, <2>1, <2>2 DEF RightInv, KnownInv
<1>6. NewInv'
  BY <1>1, <1>2, <1>3 DEF RightInv, NewInv, Makes
<1>7. AttrInv'
  <2>1. OldOK'
    <3> SUFFICES ASSUME NEW n \in Nodes, attr'[n] = "old", n \notin raced'
                 PROVE  \E u \in Threads : pc'[u].at = "done" /\ n \in Fixes(pc'[u])
      BY DEF OldOK, Fixes
    <3>1. attr[n] = "old"
      BY <1>4, TigerAssumption
    <3>2. PICK u \in Threads : pc[u].at = "done" /\ n \in Fixes(pc[u])
      BY <3>1 DEF RightInv, AttrInv, OldOK
    <3> QED
      BY <1>1, <1>3, <3>2
  <2>2. ForgotOK'
    <3> SUFFICES ASSUME NEW u \in Threads, pc'[u].at \in {"asked", "done"}, NEW n \in Forgot(pc'[u])
                 PROVE  attr'[n] = None \/ n \in raced'
      BY DEF ForgotOK, Forgot
    <3>1. CASE u # t
      <4>1. n \in Forgot(pc[u]) /\ pc[u] = pc'[u]
        BY <1>1, <3>1
      <4>2. attr[n] = None \/ n \in raced
        BY <4>1 DEF RightInv, AttrInv, ForgotOK
      <4>3. n \in Nodes
        BY <4>1, AskedPlace, FixesTouches
      <4> QED
        BY <1>4, <4>2, <4>3
    <3>2. CASE u = t /\ q.op \in Removing
      BY <1>1, <3>2 DEF Begun
    <3>3. CASE u = t /\ q.op \notin Removing
      <4>1. q.op = "close" /\ q.write /\ n = q.node
        BY <1>1, <3>3 DEF Forgot
      <4>2. n \in Nodes /\ owrite[n] > 0 /\ UNCHANGED attr
        BY <4>1 DEF Begun
      <4> QED
        BY <4>2 DEF RightInv, AttrInv, WrittenOK, NewInv
    <3> QED
      BY <3>1, <3>2, <3>3
  <2>3. WrittenOK'
    <3> SUFFICES ASSUME NEW n \in Nodes \ panicked, owrite'[n] > 0 PROVE attr'[n] = None
      BY <1>2 DEF WrittenOK
    <3>1. owrite[n] \in Nat /\ owrite'[n] \in Nat /\ owrite'[n] <= owrite[n]
      BY DEF Inv, CountsOK, Begun
    <3>2. attr[n] = None
      BY <3>1 DEF RightInv, AttrInv, WrittenOK
    <3> QED
      BY <1>4, <3>2
  <2> QED
    BY <2>1, <2>2, <2>3 DEF AttrInv
<1>8. NamesInv'
  <2>1. DirsOK'
    BY <1>2 DEF RightInv, NamesInv, DirsOK
  <2>2. EntriesOK'
    <3>1. \A e \in cache' : Right(e.dir, e.name, e.node)
      BY <1>2 DEF RightInv, NamesInv, EntriesOK
    <3> QED
      BY <1>2, <3>1, RightStays DEF EntriesOK
  <2>3. AnswersOK'
    <3> SUFFICES ASSUME NEW u \in Threads, pc'[u].at = "done"
                 PROVE  /\ pc'[u].op \in {"lookup", "create", "mkdir"}
                             => Right(pc[u].dir, pc[u].name, pc[u].node)'
                        /\ pc'[u].op = "mkdir" => Right(pc[u].node, DotDot, pc[u].dir)'
      BY DEF AnswersOK
    <3>1. pc'[u] = pc[u]
      BY <1>1, <1>3
    <3>2. /\ pc[u].op \in {"lookup", "create", "mkdir"} => Right(pc[u].dir, pc[u].name, pc[u].node)
          /\ pc[u].op = "mkdir" => Right(pc[u].node, DotDot, pc[u].dir)
      BY <3>1 DEF RightInv, NamesInv, AnswersOK
    <3> QED
      BY <1>2, <3>1, <3>2 DEF Right, Agrees, Alive, Linked, Parents
  <2>4. MissingOK'
    <3> SUFFICES ASSUME NEW u \in Threads, pc'[u].at = "asked" PROVE Missing(cache, pc[u])'
      BY DEF MissingOK
    <3>1. CASE u = t
      BY <1>1, <3>1 DEF Begun, Missing, Lacks, Removing
    <3>2. CASE u # t
      BY <1>1, <1>2, <3>2 DEF RightInv, NamesInv, MissingOK, Missing, Lacks
    <3> QED
      BY <3>1, <3>2
  <2> QED
    BY <2>1, <2>2, <2>3, <2>4 DEF NamesInv
<1>9. RightsInv'
  BY <1>1, <1>2, <1>3 DEF RightInv, RightsInv, Holds
<1> QED
  BY <1>5, <1>6, <1>7, <1>8, <1>9 DEF RightInv

-----------------------------------------------------------------------------
(* What Venus answers keeps it.                                            *)

\* What an operation that removes names changes.
Changes(p, d, n) ==
  \/ p.op \in Removing /\ d = p.dir /\ n = p.name
  \/ p.op = "rename" /\ d = p.to /\ n = p.toname
  \/ p.op = "rename" /\ p.dir # p.to /\ d = p.node /\ n = DotDot

LEMMA AnswersTree ==
  ASSUME Inv, Inv', KnownInv, DirsOK, NEW t \in Threads, NEW q \in Places, Answers(t, q)
  PROVE  /\ DirsOK' /\ fresh' \subseteq fresh
         /\ \A d \in Dirs, n \in Names : tree'[d][n] # None => d \notin fresh' /\ tree'[d][n] \notin fresh'
         /\ \A d \in Dirs \ fresh : Alive(d)' => Alive(d)
         /\ \A d \in Dirs \ (fresh \cup raced'), x \in Nodes : \A n : Changes(q, d, n) \/ Keeps(d, n, x)
<1>1. pc'[t] = q
  BY OneMoves DEF Answers
<1>2. PlaceOK(q) /\ q \in Places
  BY <1>1 DEF Inv, ThreadsOK
<1>3. SeenBy(pc[t]) /\ pc[t].at = "asked" /\ Alike(pc[t], q)
  BY DEF KnownInv, Answers
<1>4. /\ \A d \in Dirs, n \in Names : tree[d][n] # None => d \notin fresh /\ tree[d][n] \notin fresh
      /\ known \cap fresh = {} /\ known \subseteq Nodes
      /\ tree \in [Dirs -> [Names -> Nodes \cup {None}]] /\ None \notin Nodes
  BY TigerAssumption DEF KnownInv, Inv, RestOK
<1>5. q.op \in InDirs => q.dir \in Dirs \ fresh
  BY <1>2, <1>3, <1>4 DEF PlaceOK, SeenBy, Alike, Nodes
<1>6. CASE UNCHANGED venus
  <2>1. UNCHANGED tree /\ UNCHANGED fresh
    BY <1>6 DEF venus
  <2> QED
    BY <1>4, <2>1 DEF DirsOK, Keeps, Agrees, Parents, Alive, Linked
<1>7. ASSUME NEW x \in fresh \cup Files \cup {None}, fresh' \subseteq fresh, x \notin fresh',
             q.op \in InDirs \ {"lookup", "access"},
             tree[q.dir][q.name] = None \/ q.op \in Removing,
             tree' = [tree EXCEPT ![q.dir][q.name] = x]
      PROVE  /\ DirsOK'
             /\ \A d \in Dirs, n \in Names : tree'[d][n] # None => d \notin fresh' /\ tree'[d][n] \notin fresh'
             /\ \A d \in Dirs \ fresh : Alive(d)' => Alive(d)
             /\ \A d \in Dirs \ (fresh \cup raced'), y \in Nodes : \A n : Changes(q, d, n) \/ Keeps(d, n, y)
  <2>1. q.dir \in Dirs \ fresh /\ q.name \in Names
    BY <1>2, <1>5, <1>7 DEF PlaceOK
  <2>2. /\ DirsOK'
        /\ \A d \in Dirs \ fresh : Alive(d)' => Alive(d)
        /\ \A d \in Dirs \ fresh : \A n, y : ~(d = q.dir /\ n = q.name) => Keeps(d, n, y)
    BY <1>7, <2>1, OneName
  <2>3. \A d \in Dirs, n \in Names :
          tree'[d][n] = IF d = q.dir /\ n = q.name THEN x ELSE tree[d][n]
    BY <1>4, <1>7, <2>1
  <2>4. \A d \in Dirs, n \in Names : tree'[d][n] # None => d \notin fresh' /\ tree'[d][n] \notin fresh'
    BY <1>4, <1>7, <2>1, <2>3
  <2>5. ASSUME NEW d \in Dirs \ (fresh \cup raced'), NEW n, NEW y \in Nodes
        PROVE  Changes(q, d, n) \/ Keeps(d, n, y)
    <3>1. CASE ~(d = q.dir /\ n = q.name)
      BY <2>2, <3>1
    <3>2. CASE d = q.dir /\ n = q.name /\ q.op \in Removing
      BY <3>2 DEF Changes
    <3>3. CASE d = q.dir /\ n = q.name /\ tree[q.dir][q.name] = None
      BY <1>4, <2>1, <3>3 DEF Keeps, Agrees
    <3> QED
      BY <1>7, <3>1, <3>2, <3>3
  <2> QED
    BY <2>2, <2>4, <2>5
<1>8. ASSUME NEW g \in Nodes, Creates(q, g) PROVE fresh' \subseteq fresh /\ g \notin fresh' /\ g \in fresh
                                                  /\ q.op \in InDirs \ {"lookup", "access"}
  BY <1>8 DEF Creates, InDirs
<1>9. CASE Links(q)
  <2>1. q.node \in Files /\ q.node \notin fresh
    BY <1>3, <1>4, <1>9, TigerAssumption DEF Links, SeenBy, Alike, Leads, Nodes
  <2>2. q.op \in InDirs \ {"lookup", "access"} /\ fresh' = fresh
    BY <1>9 DEF Links, InDirs
  <2> QED
    BY <1>7, <1>9, <2>1, <2>2 DEF Links
<1>10. CASE Unlinks(q)
  <2>1. q.op \in InDirs \ {"lookup", "access"} /\ fresh' = fresh /\ q.op \in Removing
    BY <1>10 DEF Unlinks, InDirs, Removing
  <2>2. None \notin fresh
    BY <1>4 DEF Inv, RestOK
  <2> QED
    BY <1>7, <1>10, <2>1, <2>2 DEF Unlinks
<1>11. ASSUME NEW x \in Nodes, Moves(q, x)
       PROVE  /\ DirsOK' /\ fresh' \subseteq fresh
              /\ \A d \in Dirs, n \in Names : tree'[d][n] # None => d \notin fresh' /\ tree'[d][n] \notin fresh'
              /\ \A d \in Dirs \ fresh : Alive(d)' => Alive(d)
              /\ \A d \in Dirs \ (fresh \cup raced'), y \in Nodes : \A n : Changes(q, d, n) \/ Keeps(d, n, y)
  <2>1. /\ q.op = "rename" /\ x = tree[q.dir][q.name] /\ x # tree[q.to][q.toname]
        /\ tree' = [[tree EXCEPT ![q.dir][q.name] = None] EXCEPT ![q.to][q.toname] = x]
        /\ x \in raced' \/ x = q.node
        /\ UNCHANGED fresh
    BY <1>11 DEF Moves
  <2>2. q.dir \in Dirs /\ q.name \in Names /\ q.to \in Dirs \ fresh /\ q.toname \in Names
    BY <1>2, <1>3, <1>4, <2>1 DEF PlaceOK, InDirs, SeenBy, Alike, Nodes
  <2>3. /\ DirsOK'
        /\ \A d \in Dirs : Alive(d)' => Alive(d)
        /\ \A d \in Dirs : \A n, y :
             ~(d = q.dir /\ n = q.name) /\ ~(d = q.to /\ n = q.toname)
               /\ ~(q.dir # q.to /\ d = x /\ n = DotDot) => Keeps(d, n, y)
    <3>1. PICK d \in Dirs, n \in Names, to \in Dirs, k \in Names :
            d = q.dir /\ n = q.name /\ to = q.to /\ k = q.toname
      BY <2>2
    <3>2. x = tree[d][n] /\ x # tree[to][k]
      BY <2>1, <3>1
    <3>2a. \A e \in Dirs, m \in Names :
             tree'[e][m] = IF e = to /\ m = k THEN x ELSE IF e = d /\ m = n THEN None ELSE tree[e][m]
      BY <1>4, <2>1, <3>1
    <3>3. /\ DirsOK'
          /\ \A e \in Dirs : Alive(e)' => Alive(e)
          /\ \A e \in Dirs : \A m, y :
               ~(e = d /\ m = n) /\ ~(e = to /\ m = k) /\ ~(d # to /\ e = x /\ m = DotDot) => Keeps(e, m, y)
      BY <3>2, <3>2a, TwoNames
    <3> QED
      BY <3>1, <3>3
  <2>4. \A d \in Dirs, n \in Names :
          tree'[d][n] = IF d = q.to /\ n = q.toname THEN x
                        ELSE IF d = q.dir /\ n = q.name THEN None ELSE tree[d][n]
    BY <1>4, <2>1, <2>2
  <2>5. x \notin fresh
    BY <1>4, <2>1, <2>2
  <2>6. \A d \in Dirs, n \in Names : tree'[d][n] # None => d \notin fresh' /\ tree'[d][n] \notin fresh'
    BY <1>4, <2>1, <2>2, <2>4, <2>5
  <2>7. \A d \in Dirs \ (fresh \cup raced'), y \in Nodes : \A n : Changes(q, d, n) \/ Keeps(d, n, y)
    BY <2>1, <2>3 DEF Changes, Removing
  <2> QED
    BY <2>1, <2>3, <2>6, <2>7
<1>12. ASSUME NEW g \in Nodes, Creates(q, g)
       PROVE  /\ DirsOK' /\ fresh' \subseteq fresh
              /\ \A d \in Dirs, n \in Names : tree'[d][n] # None => d \notin fresh' /\ tree'[d][n] \notin fresh'
              /\ \A d \in Dirs \ fresh : Alive(d)' => Alive(d)
              /\ \A d \in Dirs \ (fresh \cup raced'), y \in Nodes : \A n : Changes(q, d, n) \/ Keeps(d, n, y)
  BY <1>7, <1>8, <1>12 DEF Creates
<1> QED
  BY <1>6, <1>9, <1>10, <1>11, <1>12 DEF Answers, Finds, Links, Unlinks

LEMMA ChangesTouches ==
  ASSUME NEW p, NEW q, Alike(p, q), NEW d \in Nodes, NEW n, Changes(q, d, n)
  PROVE  Changes(p, d, n) /\ d \in Touches(p)
BY TigerAssumption DEF Changes, Alike, Leads, Touches, Removing

\* An answer that Venus gives is right, and finds or makes what has been used.
LEMMA AnswersTo ==
  ASSUME Inv, Inv', KnownInv, DirsOK, NEW t \in Threads, NEW q \in Places, Answers(t, q)
  PROVE  /\ Leads(q) => q.node \in known \/ q.node \notin fresh'
         /\ q.op = "access" => q.node \in known
         /\ q.op \in {"create", "mkdir"} => q.node \in fresh /\ q.node \notin known
         /\ q.op \in {"lookup", "create", "mkdir"} => Right(q.dir, q.name, q.node)'
         /\ q.op = "mkdir" => Right(q.node, DotDot, q.dir)'
<1>1. pc'[t] = q
  BY OneMoves DEF Answers
<1>2. PlaceOK(q) /\ q \in Places
  BY <1>1 DEF Inv, ThreadsOK
<1>3. SeenBy(pc[t]) /\ Alike(pc[t], q) /\ UNCHANGED known
  BY DEF KnownInv, Answers
<1>4. /\ \A d \in Dirs, n \in Names : tree[d][n] # None => d \notin fresh /\ tree[d][n] \notin fresh
      /\ known \cap fresh = {} /\ known \subseteq Nodes /\ None \notin Nodes /\ None \notin Dirs
      /\ tree \in [Dirs -> [Names -> Nodes \cup {None}]]
      /\ Dot # DotDot /\ {Dot, DotDot} \cap Names = {}
  BY TigerAssumption DEF KnownInv, Inv, RestOK, Nodes
<1>5. CASE Leads(q)
  <2>1. q.dir \in Dirs /\ q.dir \in known
    BY <1>2, <1>3, <1>4, <1>5 DEF PlaceOK, InDirs, Leads, SeenBy, Alike
  <2>2. Finds(q) \/ \E g \in Nodes : Creates(q, g)
    BY <1>5 DEF Answers, Leads, Links, Unlinks, Moves, OnNodes
  <2>3. CASE Finds(q) /\ q.op = "access"
    BY <2>1, <2>3 DEF Finds
  <2>4. CASE Finds(q) /\ q.op # "access"
    <3>1. /\ q.op = "lookup" /\ q.node = Binding(q.dir, q.name) /\ q.node # None
          /\ UNCHANGED tree /\ UNCHANGED fresh
      BY <2>4 DEF Finds, venus
    <3>2. q.name \in Names \cup {DotDot}
      BY <1>2, <3>1 DEF PlaceOK, InDirs
    <3>3. CASE q.name \in Names
      <4>1. q.node = tree[q.dir][q.name]
        BY <1>4, <3>1, <3>3 DEF Binding
      <4>2. Agrees(q.dir, q.name, q.node)'
        BY <1>4, <3>1, <3>3, <4>1 DEF Agrees
      <4> QED
        BY <1>4, <2>1, <3>1, <3>3, <4>1, <4>2 DEF Right
    <3>4. CASE q.name = DotDot
      <4>1. Parents(q.dir) # {} /\ q.node = CHOOSE p \in Parents(q.dir) : TRUE
        BY <1>4, <3>1, <3>4 DEF Binding
      <4>2. q.node \in Parents(q.dir)
        BY <4>1
      <4>3. q.node \notin fresh
        BY <1>4, <2>1, <4>2 DEF Parents
      <4>4. Agrees(q.dir, q.name, q.node)'
        BY <1>4, <3>1, <3>4, <4>2 DEF Agrees, Parents
      <4> QED
        BY <3>1, <4>3, <4>4 DEF Right
    <3> QED
      BY <3>2, <3>3, <3>4
  <2>5. ASSUME NEW g \in Nodes, Creates(q, g) 
        PROVE  /\ q.node \in fresh /\ q.node \notin known /\ q.node \notin fresh' /\ q.op \in {"create", "mkdir"}
               /\ Right(q.dir, q.name, q.node)'
               /\ q.op = "mkdir" => Right(q.node, DotDot, q.dir)'
    <3>1. /\ q.op \in {"create", "mkdir"} /\ q.node = g /\ g \in fresh /\ fresh' = fresh \ {g}
          /\ tree' = [tree EXCEPT ![q.dir][q.name] = g] /\ q.name \in Names
      BY <1>2, <1>5, <2>5 DEF Creates, Leads, PlaceOK, InDirs
    <3>2. tree'[q.dir][q.name] = q.node
      BY <1>4, <2>1, <3>1
    <3>3. Agrees(q.dir, q.name, q.node)'
      BY <1>4, <3>1, <3>2 DEF Agrees
    <3>4. q.op = "mkdir" => Agrees(q.node, DotDot, q.dir)'
      BY <1>4, <2>1, <3>1, <3>2 DEF Agrees, Parents
    <3> QED
      BY <1>4, <3>1, <3>3, <3>4 DEF Right
  <2> QED
    BY <2>2, <2>3, <2>4, <2>5 DEF Finds
<1>6. CASE ~Leads(q)
  BY <1>6 DEF Leads
<1> QED
  BY <1>5, <1>6

LEMMA AnswersRight ==
  ASSUME Inv, Inv', raced \subseteq raced', OverlapOK, RightInv,
         NEW t \in Threads, NEW q \in Places, Answers(t, q)
  PROVE  RightInv'
<1>1. pc'[t] = q /\ \A u \in Threads : u # t => pc'[u] = pc[u]
  BY OneMoves DEF Answers
<1>2. /\ pc[t].at = "asked" /\ q.at = "done" /\ Alike(pc[t], q)
      /\ UNCHANGED <<cache, known, files, owner, panicked, reused>>
  BY DEF Answers
<1>3. KnownInv /\ DirsOK
  BY DEF RightInv, NamesInv
<1>4. /\ DirsOK' /\ fresh' \subseteq fresh
      /\ \A d \in Dirs, n \in Names : tree'[d][n] # None => d \notin fresh' /\ tree'[d][n] \notin fresh'
      /\ \A d \in Dirs \ fresh : Alive(d)' => Alive(d)
      /\ \A d \in Dirs \ (fresh \cup raced'), x \in Nodes : \A n : Changes(q, d, n) \/ Keeps(d, n, x)
  BY <1>3, AnswersTree
<1>5. /\ Leads(q) => q.node \in known \/ q.node \notin fresh'
      /\ q.op = "access" => q.node \in known
      /\ q.op \in {"create", "mkdir"} => q.node \in fresh /\ q.node \notin known
      /\ q.op \in {"lookup", "create", "mkdir"} => Right(q.dir, q.name, q.node)'
      /\ q.op = "mkdir" => Right(q.node, DotDot, q.dir)'
  BY <1>3, AnswersTo
<1>6. \A n \in Nodes : attr'[n] = attr[n]
                       \/ (attr[n] # None /\ attr'[n] = "old" /\ n \in Fixes(q) \cup Forgot(q))
  BY DEF Answers
<1>7. None # "old" /\ None \notin Nodes /\ None \notin Dirs
  BY TigerAssumption DEF Nodes
<1>8. KnownInv'
  <2>1. SeenBy(pc[t])'
    <3>1. SeenBy(pc[t])
      BY <1>3 DEF KnownInv
    <3>2. q.dir \in known \cup {None} /\ q.to \in known \cup {None} /\ (q.op = "link" => q.node \in Files)
      BY <1>2, <3>1 DEF SeenBy, Alike, Leads
    <3>3. ~Leads(q) => q.node \in known \cup {None}
      BY <1>2, <3>1 DEF SeenBy, Alike, Leads
    <3> QED
      BY <1>1, <1>2, <1>5, <3>2, <3>3 DEF SeenBy, Leads
  <2>2. ASSUME NEW u \in Threads, u # t PROVE SeenBy(pc[u])'
    BY <1>1, <1>2, <1>3, <1>4, <2>2 DEF KnownInv, SeenBy
  <2>3. UNCHANGED ocount
    BY <1>2 DEF files
  <2> QED
    BY <1>2, <1>3, <1>4, <1>6, <2>1, <2>2, <2>3 DEF KnownInv
<1>9. NewInv'
  BY <1>1, <1>2, <1>5 DEF RightInv, NewInv, Makes
<1>10. AttrInv'
  <2>1. OldOK'
    <3> SUFFICES ASSUME NEW n \in Nodes, attr'[n] = "old", n \notin raced'
                 PROVE  \E u \in Threads : pc'[u].at = "done" /\ n \in Fixes(pc'[u])
      BY DEF OldOK, Fixes
    <3>1. CASE attr[n] = "old"
      <4>1. PICK u \in Threads : pc[u].at = "done" /\ n \in Fixes(pc[u])
        BY <3>1 DEF RightInv, AttrInv, OldOK
      <4> QED
        BY <1>1, <1>2, <4>1
    <3>2. CASE n \in Fixes(q)
      BY <1>1, <1>2, <3>2
    <3>3. CASE n \in Forgot(q) /\ attr[n] # None
      <4>1. n \in Forgot(pc[t])
        BY <1>2, <3>3 DEF Forgot, Alike, Leads
      <4> QED
        BY <1>2, <3>3, <4>1 DEF RightInv, AttrInv, ForgotOK
    <3> QED
      BY <1>6, <3>1, <3>2, <3>3
  <2>2. ForgotOK'
    <3> SUFFICES ASSUME NEW u \in Threads, pc'[u].at \in {"asked", "done"}, NEW n \in Forgot(pc'[u])
                 PROVE  attr'[n] = None \/ n \in raced'
      BY DEF ForgotOK, Forgot
    <3>1. n \in Forgot(pc[u]) /\ pc[u].at \in {"asked", "done"}
      BY <1>1, <1>2 DEF Forgot, Alike, Leads
    <3>2. attr[n] = None \/ n \in raced
      BY <3>1 DEF RightInv, AttrInv, ForgotOK
    <3>3. n \in Nodes
      BY <3>1, AskedPlace, FixesTouches
    <3> QED
      BY <1>6, <3>2, <3>3
  <2>3. WrittenOK'
    <3>1. UNCHANGED <<owrite, panicked>>
      BY <1>2 DEF files
    <3> QED
      BY <1>6, <3>1 DEF RightInv, AttrInv, WrittenOK
  <2> QED
    BY <2>1, <2>2, <2>3 DEF AttrInv
<1>11. NamesInv'
  <2>1. EntriesOK'
    <3> SUFFICES ASSUME NEW e \in cache PROVE Right(e.dir, e.name, e.node)'
      BY <1>2 DEF EntriesOK, Right, Agrees, Alive, Linked, Parents
    <3>1. SUFFICES ASSUME e.dir \notin raced', Alive(e.dir)' PROVE Agrees(e.dir, e.name, e.node)'
      BY DEF Right
    <3>2. e.dir \in Dirs /\ e.node \in Nodes /\ e.dir \notin fresh
      BY <1>3 DEF KnownInv, Inv, CacheOK
    <3>3. Right(e.dir, e.name, e.node)
      BY DEF RightInv, NamesInv, EntriesOK
    <3>4. Agrees(e.dir, e.name, e.node)
      BY <1>4, <3>1, <3>2, <3>3 DEF Right
    <3>5. ~Changes(q, e.dir, e.name)
      <4>1. Missing(cache, pc[t])
        BY <1>2 DEF RightInv, NamesInv, MissingOK
      <4>2. e.dir \in Nodes
        BY <3>2 DEF Nodes
      <4>3. SUFFICES ASSUME Changes(pc[t], e.dir, e.name) PROVE FALSE
        BY <1>2, <4>2, ChangesTouches
      <4> QED
        BY <3>1, <4>1, <4>3 DEF Missing, Changes, Lacks
    <3>6. Keeps(e.dir, e.name, e.node)
      BY <1>4, <3>1, <3>2, <3>5
    <3> QED
      BY <3>1, <3>4, <3>6 DEF Keeps
  <2>2. AnswersOK'
    <3>1. ASSUME NEW u \in Threads, u # t, pc[u].at = "done", pc[u].op \in {"lookup", "create", "mkdir"},
                 NEW d \in Dirs \ fresh, d \in Touches(pc[u]), NEW n, NEW x \in Nodes, Right(d, n, x)
          PROVE  Right(d, n, x)'
      <4>1. SUFFICES ASSUME d \notin raced', Alive(d)' PROVE Agrees(d, n, x)'
        BY DEF Right
      <4>2. d \in Nodes
        BY DEF Nodes
      <4>3. ~Changes(q, d, n)
        BY <1>2, <3>1, <4>1, <4>2, ChangesTouches, Meet
      <4>4. Agrees(d, n, x)
        BY <1>4, <3>1, <4>1 DEF Right
      <4>5. Keeps(d, n, x)
        BY <1>4, <4>1, <4>3
      <4> QED
        BY <4>1, <4>4, <4>5 DEF Keeps
    <3>2. ASSUME NEW u \in Threads, u # t, pc[u].at = "done"
          PROVE  /\ pc[u].op \in {"lookup", "create", "mkdir"}
                      => Right(pc[u].dir, pc[u].name, pc[u].node)'
                 /\ pc[u].op = "mkdir" => Right(pc[u].node, DotDot, pc[u].dir)'
      <4> DEFINE d == pc[u].dir
                 x == pc[u].node
      <4>1. SUFFICES ASSUME pc[u].op \in {"lookup", "create", "mkdir"}
                     PROVE  /\ Right(pc[u].dir, pc[u].name, pc[u].node)'
                            /\ pc[u].op = "mkdir" => Right(pc[u].node, DotDot, pc[u].dir)'
        OBVIOUS
      <4>2. PlaceOK(pc[u]) /\ SeenBy(pc[u])
        BY <1>3, AskedPlace DEF KnownInv
      <4>3. d \in Dirs \ fresh /\ d \in Nodes /\ x \in Nodes /\ (pc[u].op = "mkdir" => x \in Dirs \ fresh)
        BY <1>3, <1>7, <3>2, <4>1, <4>2 DEF PlaceOK, SeenBy, InDirs, KnownInv, Nodes
      <4>4. d \in Touches(pc[u]) /\ x \in Touches(pc[u])
        BY <1>7, <4>3 DEF Touches
      <4>5. /\ Right(d, pc[u].name, x)
            /\ pc[u].op = "mkdir" => Right(x, DotDot, d)
        BY <3>2, <4>1 DEF RightInv, NamesInv, AnswersOK
      <4>6. pc'[u] = pc[u]
        BY <1>1, <3>2
      <4>7. PICK e \in Dirs \ fresh, n \in {pc[u].name}, y \in Nodes : e = d /\ y = x /\ n = pc[u].name
        BY <4>3
      <4>8. Right(e, n, y)' /\ (pc[u].op = "mkdir" => Right(y, DotDot, e)')
        <5>1. e \in Touches(pc[u]) /\ y \in Touches(pc[u]) /\ e \in Nodes
              /\ Right(e, n, y) /\ (pc[u].op = "mkdir" => y \in Dirs \ fresh /\ Right(y, DotDot, e))
          BY <4>3, <4>4, <4>5, <4>7
        <5>2. Right(e, n, y)'
          BY <3>1, <3>2, <4>1, <5>1
        <5>3. pc[u].op = "mkdir" => Right(y, DotDot, e)'
          BY <3>1, <3>2, <4>1, <5>1
        <5> QED
          BY <5>2, <5>3
      <4> QED
        BY <4>6, <4>7, <4>8 DEF Right, Agrees, Alive, Parents, Linked
    <3> QED
      BY <1>1, <1>2, <1>5, <3>2 DEF AnswersOK, Right, Agrees, Alive, Linked, Parents
  <2>3. MissingOK'
    <3> SUFFICES ASSUME NEW u \in Threads, pc'[u].at = "asked" PROVE Missing(cache, pc[u])'
      BY DEF MissingOK
    <3>1. u # t /\ pc'[u] = pc[u] /\ Missing(cache, pc[u])
      BY <1>1, <1>2 DEF RightInv, NamesInv, MissingOK
    <3> QED
      BY <1>2, <3>1 DEF Missing, Lacks
  <2> QED
    BY <1>4, <2>1, <2>2, <2>3 DEF NamesInv
<1>12. RightsInv'
  <2>1. ASSUME NEW d \in Dirs \ fresh, NEW c, Holds(c, d) PROVE Holds(c, d)'
    <3>1. UNCHANGED rights \/ \E g \in Nodes : Creates(q, g)
      BY DEF Answers, Finds, Links, Unlinks, Moves, venus
    <3>2. ASSUME NEW g \in Nodes, Creates(q, g), <<owner[c], d>> \in rights PROVE <<owner[c], d>> \in rights'
      <4>1. d # g /\ rights' = {r \in rights : r[2] # g}
                         \cup {r \in Users \X (Dirs \cap {g}) : <<r[1], q.dir>> \in rights}
        BY <3>2 DEF Creates
      <4> QED
        BY <3>2, <4>1
    <3> QED
      BY <1>2, <2>1, <3>1, <3>2 DEF Holds
  <2>2. ASSUME NEW e \in cache PROVE e.cred \in reused' \/ Holds(e.cred, e.dir)'
    <3>1. e.dir \in Dirs \ fresh
      BY <1>3 DEF KnownInv, Inv, CacheOK
    <3>2. e.cred \in reused \/ Holds(e.cred, e.dir)
      BY DEF RightInv, RightsInv
    <3> QED
      BY <1>2, <2>1, <3>1, <3>2
  <2>3. ASSUME NEW u \in Threads, u # t, pc[u].at = "done"
        PROVE  /\ pc[u].op \in {"lookup", "create", "mkdir"} => Holds(pc[u].cred, pc[u].dir)'
               /\ pc[u].op = "mkdir" => Holds(pc[u].cred, pc[u].node)'
    <3>1. PlaceOK(pc[u]) /\ SeenBy(pc[u])
      BY <1>3, AskedPlace DEF KnownInv
    <3>2. /\ pc[u].op \in {"lookup", "create", "mkdir"} => pc[u].dir \in Dirs \ fresh
          /\ pc[u].op = "mkdir" => pc[u].node \in Dirs \ fresh
      BY <1>3, <1>7, <2>3, <3>1 DEF PlaceOK, SeenBy, InDirs, KnownInv, Nodes
    <3>3. /\ pc[u].op \in {"lookup", "create", "mkdir"} => Holds(pc[u].cred, pc[u].dir)
          /\ pc[u].op = "mkdir" => Holds(pc[u].cred, pc[u].node)
      BY <2>3 DEF RightInv, RightsInv
    <3>4. pc'[u] = pc[u] /\ UNCHANGED owner
      BY <1>1, <1>2, <2>3
    <3> QED
      BY <2>1, <3>2, <3>3, <3>4 DEF Holds
  <2>4. /\ q.op \in {"lookup", "create", "mkdir"} => Holds(q.cred, q.dir)'
        /\ q.op = "mkdir" => Holds(q.cred, q.node)'
    <3>1. CASE Finds(q)
      <4>1. May(q) /\ UNCHANGED rights /\ UNCHANGED owner /\ q.op \in {"lookup", "access"}
        BY <1>2, <3>1 DEF Finds, venus
      <4> QED
        BY <4>1 DEF May, Holds
    <3>2. ASSUME NEW g \in Nodes, Creates(q, g)
          PROVE  /\ q.op \in {"lookup", "create", "mkdir"} => Holds(q.cred, q.dir)'
                 /\ q.op = "mkdir" => Holds(q.cred, q.node)'
      <4>1. PlaceOK(q)
        BY <1>1 DEF Inv, ThreadsOK
      <4>2. q.dir \in Dirs /\ q.cred \in Creds
        BY <3>2, <4>1 DEF Creates, PlaceOK, InDirs
      <4>3. q.dir \in known \ fresh
        <5>1. SeenBy(pc[t])
          BY <1>3 DEF KnownInv
        <5> QED
          BY <1>2, <1>3, <1>7, <4>2, <5>1 DEF SeenBy, Alike, KnownInv
      <4>4. Holds(q.cred, q.dir)'
        <5>1. Holds(q.cred, q.dir)
          BY <3>2 DEF Creates, May, Holds
        <5> QED
          BY <2>1, <4>2, <4>3, <5>1
      <4>5. ASSUME q.op = "mkdir" PROVE <<owner[q.cred], q.node>> \in rights'
        <5>1. /\ q.node = g /\ g \in Dirs /\ <<owner[q.cred], q.dir>> \in rights
              /\ rights' = {r \in rights : r[2] # g}
                             \cup {r \in Users \X (Dirs \cap {g}) : <<r[1], q.dir>> \in rights}
          BY <3>2, <4>5 DEF Creates, May
        <5>2. owner[q.cred] \in Users
          BY <4>2 DEF Inv, RestOK
        <5> QED
          BY <5>1, <5>2
      <4> QED
        BY <1>2, <4>4, <4>5 DEF Holds
    <3>3. CASE ~Finds(q) /\ ~(\E g \in Nodes : Creates(q, g))
      BY <3>3 DEF Answers, Links, Unlinks, Moves, OnNodes
    <3> QED
      BY <3>1, <3>2, <3>3
  <2> QED
    BY <1>1, <1>2, <2>2, <2>3, <2>4 DEF RightsInv, Holds
<1> QED
  BY <1>8, <1>9, <1>10, <1>11, <1>12 DEF RightInv

-----------------------------------------------------------------------------
(* What an operation does when Venus has answered keeps it.                *)

Enters(p) == p.at = "done" /\ p.op \in {"lookup", "create", "mkdir"}
News(p) ==
  {e \in {Entry(p.dir, p.name, p.cred, p.node)} : Enters(p)}
    \cup {e \in {Entry(p.node, Dot, p.cred, p.node), Entry(p.node, DotDot, p.cred, p.dir)} :
            Enters(p) /\ p.op = "mkdir"}

Ended(t, q) ==
  LET p == pc[t] IN
  /\ p.at \in {"done", "refused"} /\ pc' = [pc EXCEPT ![t] = q]
  /\ \/ q = Idle
     \/ /\ q.at = "asked" /\ q.op \in {"lookup", "rdwrclose"} /\ p.op \in {"symlink", "rdwr"}
        /\ q.dir = p.dir /\ q.to = p.to /\ q.node = p.node
  /\ UNCHANGED <<venus, owner, reused>>
  /\ known' = known \cup {n \in {p.node} : Enters(p)}
  /\ panicked' = panicked \cup {n \in {p.node} \cap known : Makes(p)}
  /\ cache' \subseteq cache \cup News(p)
  /\ \A n \in Nodes :
       \/ attr'[n] \in {attr[n], None}
       \/ attr'[n] = "new" /\ n = p.node /\ (Makes(p) \/ (p.op = "getattr" /\ owrite[n] = 0))
  /\ p.at = "done" => \A n \in Fixes(p) : attr'[n] # "old"
  /\ \A n \in Nodes : ocount'[n] <= ocount[n] \/ (n = p.node /\ p.op \in OnNodes)
  /\ \A n \in Nodes : owrite'[n] <= owrite[n] \/ attr'[n] = None

LEMMA EndedRight ==
  ASSUME Inv, Inv', raced \subseteq raced', OverlapOK, RightInv,
         NEW t \in Threads, NEW q \in Places, Ended(t, q)
  PROVE  RightInv'
<1> DEFINE p == pc[t]
<1>1. pc'[t] = q /\ \A u \in Threads : u # t => pc'[u] = pc[u]
  BY OneMoves DEF Ended
<1>2. PlaceOK(p) /\ p \in Places /\ SeenBy(p)
  BY AskedPlace DEF RightInv, KnownInv
<1>3. /\ p.at \in {"done", "refused"}
      /\ \/ q = Idle
         \/ /\ q.at = "asked" /\ q.op \in {"lookup", "rdwrclose"} /\ p.op \in {"symlink", "rdwr"}
            /\ q.dir = p.dir /\ q.to = p.to /\ q.node = p.node
      /\ UNCHANGED <<tree, fresh, rights, owner, reused>>
      /\ known' = known \cup {n \in {p.node} : Enters(p)}
      /\ panicked' = panicked \cup {n \in {p.node} \cap known : Makes(p)}
      /\ cache' \subseteq cache \cup News(p)
  BY DEF Ended, venus
<1>4. /\ \A n \in Nodes :
           \/ attr'[n] \in {attr[n], None}
           \/ attr'[n] = "new" /\ n = p.node /\ (Makes(p) \/ (p.op = "getattr" /\ owrite[n] = 0))
      /\ p.at = "done" => \A n \in Fixes(p) : attr'[n] # "old"
  BY DEF Ended
<1>5. /\ \A n \in Nodes : ocount'[n] <= ocount[n] \/ (n = p.node /\ p.op \in OnNodes)
      /\ \A n \in Nodes : owrite'[n] <= owrite[n] \/ attr'[n] = None
  BY DEF Ended
<1>6. /\ ocount \in [Nodes -> Nat] /\ owrite \in [Nodes -> Nat]
      /\ ocount' \in [Nodes -> Nat] /\ owrite' \in [Nodes -> Nat]
  BY DEF Inv, CountsOK
<1>7. None \notin Nodes /\ None \notin Dirs /\ None # "old" /\ None # "new" /\ "old" # "new"
  BY TigerAssumption DEF Nodes
<1> HIDE DEF p
<1>8. q.at # "done" /\ q.op \notin Removing /\ q.op # "link"
  BY <1>3 DEF Idle, Removing
<1>9. Enters(p) => /\ p.dir \in known /\ p.dir \in Dirs /\ p.node \notin fresh /\ p.node \in Nodes
                   /\ p.op = "mkdir" => p.node \in Dirs
  BY <1>2, <1>7 DEF Enters, PlaceOK, SeenBy, InDirs, RightInv, KnownInv
<1>10. \A u \in Threads, n \in Nodes : u # t /\ n \in Touches(p) /\ n \in Touches(pc[u]) => n \in raced
  BY Meet DEF p
<1>11. p.node \in Nodes => p.node \in Touches(p)
  BY <1>7 DEF Touches
<1>12. \A u \in Threads : pc[u] \in Places /\ PlaceOK(pc[u])
  BY AskedPlace
<1>13. KnownInv'
  <2>1. SeenBy(pc[t])'
    <3>1. p.op \in {"symlink", "rdwr"} => p.node \in known \cup {None}
      BY <1>2 DEF SeenBy
    <3> QED
      BY <1>1, <1>2, <1>3, <1>8, <3>1 DEF SeenBy, Idle
  <2>2. ASSUME NEW u \in Threads, u # t PROVE SeenBy(pc[u])'
    BY <1>1, <1>3, <2>2 DEF RightInv, KnownInv, SeenBy
  <2>3. ASSUME NEW e \in cache' PROVE e.dir \in known' /\ e.node \in known'
    <3>1. CASE e \in cache
      BY <1>3, <3>1 DEF RightInv, KnownInv
    <3>2. CASE e \in News(p)
      BY <1>3, <1>9, <3>2 DEF News, Entry
    <3> QED
      BY <1>3, <3>1, <3>2
  <2>4. ASSUME NEW n \in Nodes, attr'[n] # None PROVE n \in known'
    <3>1. CASE attr[n] # None
      BY <1>3, <3>1 DEF RightInv, KnownInv
    <3>2. CASE n = p.node /\ Makes(p)
      BY <1>3, <3>2 DEF Makes, Enters
    <3>3. CASE n = p.node /\ p.op = "getattr"
      BY <1>2, <1>3, <1>7, <3>3 DEF SeenBy
    <3> QED
      BY <1>4, <2>4, <3>1, <3>2, <3>3
  <2>5. ASSUME NEW n \in Nodes, ocount'[n] > 0 PROVE n \in known'
    <3>1. CASE ocount'[n] <= ocount[n]
      <4>1. ocount[n] > 0
        BY <1>6, <2>5, <3>1
      <4> QED
        BY <1>3, <4>1 DEF RightInv, KnownInv
    <3>2. CASE n = p.node /\ p.op \in OnNodes
      BY <1>2, <1>3, <1>7, <3>2 DEF SeenBy, OnNodes
    <3> QED
      BY <1>5, <3>1, <3>2
  <2>6. /\ Root \in known' /\ known' \cap fresh' = {}
        /\ \A d \in Dirs, n \in Names : tree'[d][n] # None => d \notin fresh' /\ tree'[d][n] \notin fresh'
    BY <1>3, <1>9 DEF RightInv, KnownInv
  <2> QED
    BY <2>1, <2>2, <2>3, <2>4, <2>5, <2>6 DEF KnownInv
<1>14. NewInv'
  <2>1. ASSUME NEW u \in Threads, Makes(pc'[u]) PROVE pc'[u].node \notin known' \/ pc'[u].node \in raced'
    <3>1. u # t /\ pc'[u] = pc[u]
      BY <1>1, <1>8, <2>1 DEF Makes
    <3>2. pc[u].node \in Nodes
      BY <1>12, <2>1, <3>1 DEF Makes, PlaceOK
    <3>3. pc[u].node \in Touches(pc[u])
      BY <1>7, <3>2 DEF Touches
    <3>4. pc[u].node \notin known \/ pc[u].node \in raced
      BY <2>1, <3>1 DEF RightInv, NewInv
    <3>5. CASE pc[u].node = p.node
      BY <1>10, <1>11, <3>1, <3>2, <3>3, <3>5
    <3> QED
      BY <1>3, <3>1, <3>4, <3>5
  <2>2. panicked' \subseteq raced'
    <3>1. Makes(p) => p.node \notin known \/ p.node \in raced
      BY DEF RightInv, NewInv, p
    <3> QED
      BY <1>3, <3>1 DEF RightInv, NewInv
  <2> QED
    BY <2>1, <2>2 DEF NewInv, Makes
<1>15. AttrInv'
  <2>1. OldOK'
    <3> SUFFICES ASSUME NEW n \in Nodes, attr'[n] = "old", n \notin raced'
                 PROVE  \E u \in Threads : pc'[u].at = "done" /\ n \in Fixes(pc'[u])
      BY DEF OldOK, Fixes
    <3>1. attr[n] = "old"
      BY <1>4, <1>7
    <3>2. PICK u \in Threads : pc[u].at = "done" /\ n \in Fixes(pc[u])
      BY <3>1 DEF RightInv, AttrInv, OldOK
    <3>3. u # t
      BY <1>4, <3>2 DEF p
    <3> QED
      BY <1>1, <3>2, <3>3
  <2>2. ForgotOK'
    <3> SUFFICES ASSUME NEW u \in Threads, pc'[u].at \in {"asked", "done"}, NEW n \in Forgot(pc'[u])
                 PROVE  attr'[n] = None \/ n \in raced'
      BY DEF ForgotOK, Forgot
    <3>1. u # t /\ pc'[u] = pc[u]
      BY <1>1, <1>3, <1>8 DEF Forgot, Idle
    <3>2. attr[n] = None \/ n \in raced
      BY <3>1 DEF RightInv, AttrInv, ForgotOK
    <3>3. n \in Nodes /\ n \in Touches(pc[u])
      BY <1>12, <3>1, FixesTouches
    <3>4. n = p.node => n \in raced
      BY <1>10, <1>11, <3>1, <3>3
    <3> QED
      BY <1>4, <3>2, <3>3, <3>4
  <2>3. WrittenOK'
    <3> SUFFICES ASSUME NEW n \in Nodes \ panicked', owrite'[n] > 0 PROVE attr'[n] = None
      BY DEF WrittenOK
    <3>1. CASE owrite'[n] <= owrite[n]
      <4>1. owrite[n] > 0
        BY <1>6, <3>1
      <4>2. attr[n] = None
        BY <1>3, <4>1 DEF RightInv, AttrInv, WrittenOK
      <4>3. n \in known
        <5>1. OpenR(n) \in Nat /\ owrite[n] + OpenR(n) <= ocount[n]
          BY OpenCounts DEF Inv
        <5>2. owrite[n] \in Nat /\ ocount[n] \in Nat
          BY <1>6
        <5>3. ocount[n] > 0
          BY <4>1, <5>1, <5>2
        <5> QED
          BY <5>3 DEF RightInv, KnownInv
      <4>4. ~(n = p.node /\ Makes(p))
        BY <1>3, <4>3
      <4>5. owrite[n] # 0
        BY <4>1
      <4> QED
        BY <1>4, <4>2, <4>4, <4>5
    <3> QED
      BY <1>5, <3>1
  <2> QED
    BY <2>1, <2>2, <2>3 DEF AttrInv
<1>16. NamesInv'
  <2>1. DirsOK'
    BY <1>3 DEF RightInv, NamesInv, DirsOK
  <2>2. EntriesOK'
    <3>1. \A e \in News(p) : Right(e.dir, e.name, e.node)
      <4>1. Enters(p) => Right(p.dir, p.name, p.node)
        BY DEF RightInv, NamesInv, AnswersOK, Enters, p
      <4>2. Enters(p) /\ p.op = "mkdir" => Right(p.node, DotDot, p.dir)
        BY DEF RightInv, NamesInv, AnswersOK, Enters, p
      <4>3. Right(p.node, Dot, p.node)
        BY TigerAssumption DEF Right, Agrees
      <4> QED
        BY <4>1, <4>2, <4>3 DEF News, Entry
    <3>2. \A e \in cache' : Right(e.dir, e.name, e.node)
      BY <1>3, <3>1 DEF RightInv, NamesInv, EntriesOK
    <3> QED
      BY <1>3, <3>2 DEF EntriesOK, Right, Agrees, Alive, Linked, Parents
  <2>3. AnswersOK'
    <3> SUFFICES ASSUME NEW u \in Threads, pc'[u].at = "done"
                 PROVE  /\ pc'[u].op \in {"lookup", "create", "mkdir"}
                             => Right(pc[u].dir, pc[u].name, pc[u].node)'
                        /\ pc'[u].op = "mkdir" => Right(pc[u].node, DotDot, pc[u].dir)'
      BY DEF AnswersOK
    <3>1. pc'[u] = pc[u]
      BY <1>1, <1>8
    <3>2. /\ pc[u].op \in {"lookup", "create", "mkdir"} => Right(pc[u].dir, pc[u].name, pc[u].node)
          /\ pc[u].op = "mkdir" => Right(pc[u].node, DotDot, pc[u].dir)
      BY <3>1 DEF RightInv, NamesInv, AnswersOK
    <3> QED
      BY <1>3, <3>1, <3>2 DEF Right, Agrees, Alive, Linked, Parents
  <2>4. MissingOK'
    <3>1. \A e \in News(p) : e.dir \in Touches(p) /\ e.dir \in Nodes
      BY <1>7, <1>9 DEF News, Entry, Touches, Nodes
    <3>2. ASSUME NEW u \in Threads, u # t, NEW d \in Nodes, d \in Touches(pc[u]), NEW n,
                 d \in raced \/ Lacks(cache, d, n)
          PROVE  d \in raced \/ Lacks(cache', d, n)
      BY <1>3, <1>10, <3>1, <3>2 DEF Lacks
    <3>3. ASSUME NEW u \in Threads, pc'[u].at = "asked" PROVE Missing(cache, pc[u])'
      <4>1. CASE u = t
        BY <1>1, <1>8, <4>1 DEF Missing, Removing
      <4>2. CASE u # t
        <5>1. pc'[u] = pc[u] /\ Missing(cache, pc[u])
          BY <1>1, <3>3, <4>2 DEF RightInv, NamesInv, MissingOK
        <5>2. /\ pc[u].op \in Removing => pc[u].dir \in Nodes /\ pc[u].dir \in Touches(pc[u])
              /\ pc[u].op = "rename" => /\ pc[u].to \in Nodes /\ pc[u].to \in Touches(pc[u])
          <6>1. PlaceOK(pc[u])
            BY <1>12
          <6> QED
            BY <1>7, <6>1 DEF PlaceOK, InDirs, Removing, Touches, Nodes
        <5>3. pc[u].node # None => pc[u].node \in Nodes /\ pc[u].node \in Touches(pc[u])
          BY <1>12 DEF Places, Touches
        <5>4. pc[u].node = None => Lacks(cache', pc[u].node, DotDot)
          <6>1. \A e \in cache' : e.dir \in Nodes
            BY DEF Inv, CacheOK, Nodes
          <6> QED
            BY <1>7, <6>1 DEF Lacks
        <5>5. /\ pc[u].op \in Removing => pc[u].dir \in raced \/ Lacks(cache', pc[u].dir, pc[u].name)
              /\ pc[u].op = "rename" => pc[u].to \in raced \/ Lacks(cache', pc[u].to, pc[u].toname)
              /\ pc[u].op = "rename" /\ pc[u].dir # pc[u].to
                   => pc[u].node \in raced \/ Lacks(cache', pc[u].node, DotDot)
          BY <3>2, <4>2, <5>1, <5>2, <5>3, <5>4 DEF Missing
        <5> QED
          BY <5>1, <5>5 DEF Missing, Lacks
      <4> QED
        BY <4>1, <4>2
    <3> QED
      BY <3>3 DEF MissingOK
  <2> QED
    BY <2>1, <2>2, <2>3, <2>4 DEF NamesInv
<1>17. RightsInv'
  <2>1. \A c, d : Holds(c, d) => Holds(c, d)'
    BY <1>3 DEF Holds
  <2>2. \A e \in News(p) : Holds(e.cred, e.dir)
    <3>1. /\ Enters(p) => Holds(p.cred, p.dir)
          /\ Enters(p) /\ p.op = "mkdir" => Holds(p.cred, p.node)
      BY DEF RightInv, RightsInv, Enters, p
    <3> QED
      BY <3>1 DEF News, Entry
  <2>3. ASSUME NEW e \in cache' PROVE e.cred \in reused' \/ Holds(e.cred, e.dir)'
    BY <1>3, <2>1, <2>2, <2>3 DEF RightInv, RightsInv
  <2>4. ASSUME NEW u \in Threads, pc'[u].at = "done"
        PROVE  /\ pc'[u].op \in {"lookup", "create", "mkdir"} => Holds(pc[u].cred, pc[u].dir)'
               /\ pc'[u].op = "mkdir" => Holds(pc[u].cred, pc[u].node)'
    <3>1. pc'[u] = pc[u]
      BY <1>1, <1>8, <2>4
    <3>2. /\ pc[u].op \in {"lookup", "create", "mkdir"} => Holds(pc[u].cred, pc[u].dir)
          /\ pc[u].op = "mkdir" => Holds(pc[u].cred, pc[u].node)
      BY <2>4, <3>1 DEF RightInv, RightsInv
    <3> QED
      BY <1>3, <3>1, <3>2 DEF Holds
  <2> QED
    BY <2>3, <2>4 DEF RightsInv
<1> QED
  BY <1>13, <1>14, <1>15, <1>16, <1>17 DEF RightInv

\* A thread that enters nothing in Coda's caches, but may invalidate attributes.
LEMMA EndedQuiet ==
  ASSUME Inv, NEW t \in Threads, pc[t].at \in {"done", "refused"}, ~Enters(pc[t]),
         NEW q, pc' = [pc EXCEPT ![t] = q],
         \/ q = Idle
         \/ /\ q.at = "asked" /\ q.op \in {"lookup", "rdwrclose"} /\ pc[t].op \in {"symlink", "rdwr"}
            /\ q.dir = pc[t].dir /\ q.to = pc[t].to /\ q.node = pc[t].node,
         UNCHANGED <<cache, known, venus, owner, panicked, reused, ocount, owrite>>,
         Lowers, pc[t].at = "done" => \A n \in Fixes(pc[t]) : attr'[n] # "old"
  PROVE  Ended(t, q)
<1>1. ~Makes(pc[t])
  BY DEF Enters, Makes
<1>2. \A n \in Nodes : ocount'[n] <= ocount[n] /\ owrite'[n] <= owrite[n]
  BY DEF Inv, CountsOK
<1>3. \A n \in Nodes : attr'[n] \in {attr[n], None}
  BY DEF Lowers
<1>4. cache' \subseteq cache \cup News(pc[t])
  OBVIOUS
<1> QED
  BY <1>1, <1>2, <1>3, <1>4 DEF Ended

LEMMA ReturnGoes == ASSUME NEW t, Return(t) PROVE pc' = [pc EXCEPT ![t] = Idle] /\ Idle \in Places
BY IdlePlace DEF Return, Goes

\* What is invalidated is not old.
LEMMA InvalidFixes ==
  ASSUME Inv, NEW p \in Places, PlaceOK(p), NEW D, attr' = Invalid(D), Fixes(p) \subseteq D
  PROVE  \A n \in Fixes(p) : attr'[n] # "old"
<1>1. Fixes(p) \subseteq Nodes
  BY FixesTouches
<1> QED
  BY <1>1, TigerAssumption DEF Invalid

LEMMA RefusedEnds == ASSUME Inv, NEW t \in Threads, Refused(t) PROVE Ended(t, Idle)
<1>1. pc[t].at = "refused" /\ ~Enters(pc[t])
  BY DEF Refused, At, Enters
<1>2. pc' = [pc EXCEPT ![t] = Idle]
  BY ReturnGoes DEF Refused
<1>3. Lowers
  BY LowersBy DEF Refused
<1> QED
  BY <1>1, <1>2, <1>3, EndedQuiet DEF Refused

LEMMA ChangedEnds ==
  ASSUME Inv, NEW t \in Threads, Changed(t) \/ RemoveDone(t) \/ ReadlinkDone(t) \/ CloseDone(t)
  PROVE  Ended(t, Idle)
<1> DEFINE p == pc[t]
<1>1. p \in Places /\ PlaceOK(p)
  BY AskedPlace
<1>2. p.at = "done" /\ p.op \in {"link", "setattr", "readlink"} \cup Removing \cup Closes
  BY DEF Changed, RemoveDone, ReadlinkDone, CloseDone, At, Removing, Closes
<1>3. ~Enters(p)
  BY <1>2 DEF Enters, Removing, Closes
<1>4. UNCHANGED <<cache, known, venus, owner, panicked, reused, ocount, owrite>>
  BY DEF Changed, RemoveDone, ReadlinkDone, CloseDone, files
<1>5. pc' = [pc EXCEPT ![t] = Idle]
  BY ReturnGoes DEF Changed, RemoveDone, ReadlinkDone, CloseDone
<1>6. Lowers /\ \A n \in Fixes(p) : attr'[n] # "old"
  <2>1. CASE Fixes(p) = {} /\ (UNCHANGED attr \/ attr' = Invalid({p.node}))
    BY <2>1, LowersBy
  <2>2. ASSUME NEW D, attr' = Invalid(D), Fixes(p) \subseteq D
        PROVE  Lowers /\ \A n \in Fixes(p) : attr'[n] # "old"
    BY <1>1, <2>2, LowersBy, InvalidFixes
  <2>3. CASE Changed(t)
    <3>1. attr' = Invalid({p.dir, p.node}) /\ Fixes(p) \subseteq {p.dir, p.node}
      BY <2>3 DEF Changed, Touched, Fixes
    <3> QED
      BY <2>2, <3>1
  <2>4. CASE RemoveDone(t) \/ ReadlinkDone(t)
    <3>1. Fixes(p) = {} /\ UNCHANGED attr
      BY <2>4 DEF RemoveDone, ReadlinkDone, Fixes
    <3> QED
      BY <2>1, <3>1
  <2>5. CASE CloseDone(t)
    <3>1. CASE p.op = "rdwrclose" /\ p.write
      <4>1. attr' = Invalid({p.node}) /\ Fixes(p) \subseteq {p.node}
        BY <2>5, <3>1 DEF CloseDone, Fixes
      <4> QED
        BY <2>2, <4>1
    <3>2. CASE ~(p.op = "rdwrclose" /\ p.write)
      <4>1. UNCHANGED attr /\ Fixes(p) = {}
        BY <2>5, <3>2 DEF CloseDone, Fixes
      <4> QED
        BY <2>1, <4>1
    <3> QED
      BY <3>1, <3>2
  <2> QED
    BY <2>3, <2>4, <2>5
<1> HIDE DEF p
<1>7. pc[t].at \in {"done", "refused"} /\ ~Enters(pc[t])
  BY <1>2, <1>3 DEF p
<1>8. pc[t].at = "done" => \A n \in Fixes(pc[t]) : attr'[n] # "old"
  BY <1>6 DEF p
<1> QED
  BY <1>4, <1>5, <1>6, <1>7, <1>8, EndedQuiet

LEMMA GetattrEnds == ASSUME Inv, NEW t \in Threads, GetattrDone(t) PROVE Ended(t, Idle)
<1> DEFINE p == pc[t]
<1>1. p.at = "done" /\ p.op = "getattr" /\ pc' = [pc EXCEPT ![t] = Idle]
  BY ReturnGoes DEF GetattrDone, At
<1>2. Fixes(p) = {} /\ ~Enters(p) /\ ~Makes(p)
  BY <1>1 DEF Fixes, Enters, Makes
<1>3. UNCHANGED <<cache, known, venus, owner, panicked, reused, ocount, owrite>>
  BY DEF GetattrDone, files
<1>4. \A n \in Nodes :
        attr'[n] = attr[n] \/ (attr'[n] = "new" /\ n = p.node /\ owrite[n] = 0)
  BY DEF GetattrDone, Kept, Inv, AttrOK
<1>5. \A n \in Nodes : ocount'[n] <= ocount[n] /\ owrite'[n] <= owrite[n]
  BY <1>3 DEF Inv, CountsOK
<1> QED
  BY <1>1, <1>2, <1>3, <1>4, <1>5 DEF Ended

LEMMA SymlinkEnds == ASSUME Inv, NEW t \in Threads, SymlinkDone(t) PROVE \E q \in Places : Ended(t, q)
<1> DEFINE p == pc[t]
           q == [[p EXCEPT !.op = "lookup"] EXCEPT !.at = "asked"]
<1>1. p \in Places /\ PlaceOK(p)
  BY AskedPlace
<1>2. p.at = "done" /\ p.op = "symlink"
  BY DEF SymlinkDone, At
<1>3. ~Enters(p) /\ Fixes(p) \subseteq {p.dir, p.node}
  BY <1>2 DEF Enters, Fixes
<1>4. attr' = Invalid({p.dir, p.node})
  BY DEF SymlinkDone, Touched
<1>5. Lowers /\ \A n \in Fixes(p) : attr'[n] # "old"
  BY <1>1, <1>3, <1>4, LowersBy, InvalidFixes
<1>6. UNCHANGED <<cache, known, venus, owner, panicked, reused, ocount, owrite>>
  BY DEF SymlinkDone, files
<1>7. pc' = [pc EXCEPT ![t] = Idle] \/ pc' = [pc EXCEPT ![t] = q]
  BY ReturnGoes DEF SymlinkDone, Ask, Goes
<1>8. q \in Places /\ q.at = "asked" /\ q.op = "lookup" /\ q.dir = p.dir /\ q.to = p.to /\ q.node = p.node
  BY <1>1 DEF Places, InDirs
<1> HIDE DEF q
<1>9. pc' = [pc EXCEPT ![t] = Idle] => Ended(t, Idle)
  BY <1>2, <1>3, <1>5, <1>6, EndedQuiet
<1>10. pc' = [pc EXCEPT ![t] = q] => Ended(t, q)
  BY <1>2, <1>3, <1>5, <1>6, <1>8, EndedQuiet
<1> QED
  BY <1>7, <1>8, <1>9, <1>10, IdlePlace

\* A file is opened, which makes its attributes None if it is opened for writing.
LEMMA OpenedEnds ==
  ASSUME Inv, NEW t \in Threads, OpenDone(t) \/ ReaddirDone(t) \/ RdwrDone(t)
  PROVE  \E q \in Places : Ended(t, q)
<1> DEFINE p == pc[t]
           q == [[p EXCEPT !.op = "rdwrclose"] EXCEPT !.at = "asked"]
<1>1. p \in Places /\ PlaceOK(p)
  BY AskedPlace
<1>2. p.at = "done" /\ p.op \in {"open", "readdir", "rdwr"}
  BY DEF OpenDone, ReaddirDone, RdwrDone, At
<1>3. ~Enters(p) /\ Fixes(p) = {} /\ p.op \in OnNodes /\ ~Makes(p)
  BY <1>2 DEF Enters, Fixes, OnNodes, Makes
<1>4. UNCHANGED <<cache, known, venus, owner, panicked, reused>>
  BY DEF OpenDone, ReaddirDone, RdwrDone
<1>5. \/ Return(t) /\ Opened(p)
      \/ Return(t) /\ UNCHANGED <<attr, ocount, owrite>>
      \/ p.op = "rdwr" /\ Ask(t, [p EXCEPT !.op = "rdwrclose"]) /\ UNCHANGED <<ocount, owrite>>
         /\ attr' = IF p.write THEN Invalid({p.node}) ELSE attr
  BY DEF OpenDone, ReaddirDone, RdwrDone
<1>6. q \in Places /\ q.at = "asked" /\ q.op = "rdwrclose" /\ q.dir = p.dir /\ q.to = p.to /\ q.node = p.node
  BY <1>1 DEF Places, OnNodes
<1>7. CASE Return(t) /\ Opened(p)
  <2>1. pc' = [pc EXCEPT ![t] = Idle]
    BY <1>7, ReturnGoes
  <2>2. /\ ocount' = [ocount EXCEPT ![p.node] = @ + 1]
        /\ owrite' = [owrite EXCEPT ![p.node] = IF p.write THEN @ + 1 ELSE @]
        /\ attr' = IF p.write THEN Invalid({p.node}) ELSE attr
    BY <1>7 DEF Opened
  <2>3. Lowers
    BY <2>2, LowersBy
  <2>4. ocount \in [Nodes -> Nat] /\ owrite \in [Nodes -> Nat]
    BY DEF Inv, CountsOK
  <2> HIDE DEF p, q
  <2>5. \A n \in Nodes : ocount'[n] <= ocount[n] \/ n = p.node
    BY <2>2, <2>4
  <2>6. \A n \in Nodes : owrite'[n] <= owrite[n] \/ attr'[n] = None
    <3> TAKE n \in Nodes
    <3>1. CASE n = p.node /\ p.write
      BY <2>2, <3>1 DEF Invalid
    <3>2. CASE ~(n = p.node /\ p.write)
      <4>1. owrite'[n] = owrite[n]
        BY <2>2, <2>4, <3>2
      <4> QED
        BY <2>4, <4>1
    <3> QED
      BY <3>1, <3>2
  <2>7. Ended(t, Idle)
    BY <1>2, <1>3, <1>4, <2>1, <2>3, <2>5, <2>6 DEF Ended, Lowers, p
  <2> QED
    BY <2>7, IdlePlace
<1>8. CASE Return(t) /\ UNCHANGED <<attr, ocount, owrite>>
  <2>1. pc' = [pc EXCEPT ![t] = Idle] /\ Lowers
    BY <1>8, ReturnGoes, LowersBy
  <2>2. Ended(t, Idle)
    BY <1>2, <1>3, <1>4, <1>8, <2>1, EndedQuiet
  <2> QED
    BY <2>2, IdlePlace
<1>9. CASE /\ p.op = "rdwr" /\ Ask(t, [p EXCEPT !.op = "rdwrclose"]) /\ UNCHANGED <<ocount, owrite>>
           /\ attr' = IF p.write THEN Invalid({p.node}) ELSE attr
  <2>1. pc' = [pc EXCEPT ![t] = q] /\ Lowers
    BY <1>9, LowersBy DEF Ask, Goes
  <2> HIDE DEF q
  <2>2. Ended(t, q)
    BY <1>2, <1>3, <1>4, <1>6, <1>9, <2>1, EndedQuiet
  <2> QED
    BY <1>6, <2>2
<1> QED
  BY <1>5, <1>7, <1>8, <1>9

LEMMA EnteredMore ==
  ASSUME NEW C, NEW e, NEW D \in Entered(C, e) PROVE D \subseteq C \cup {e}
BY DEF Entered

LEMMA FoundEnds == ASSUME Inv, NEW t \in Threads, Found(t) PROVE Ended(t, Idle)
<1> DEFINE p == pc[t]
<1>1. p.at = "done" /\ p.op \in {"lookup", "access"} /\ pc' = [pc EXCEPT ![t] = Idle]
  BY ReturnGoes DEF Found, At
<1>2. UNCHANGED <<attr, venus, owner, panicked, reused, ocount, owrite>>
  BY DEF Found, files
<1>3. Fixes(p) = {} /\ ~Makes(p)
  BY <1>1 DEF Fixes, Makes
<1>4. known' = known \cup {n \in {p.node} : Enters(p)} /\ cache' \subseteq cache \cup News(p)
  <2>1. CASE p.op = "access"
    <3>1. UNCHANGED <<known, cache>> /\ ~Enters(p)
      BY <2>1 DEF Found, Enters
    <3> QED
      BY <3>1
  <2>2. CASE p.op = "lookup"
    <3>1. /\ known' = known \cup {p.node} /\ Enters(p)
          /\ cache' \in Entered(cache, Entry(p.dir, p.name, p.cred, p.node))
      BY <1>1, <2>2 DEF Found, Enters
    <3>2. cache' \subseteq cache \cup {Entry(p.dir, p.name, p.cred, p.node)}
      BY <3>1, EnteredMore
    <3> QED
      BY <3>1, <3>2 DEF News
  <2> QED
    BY <1>1, <2>1, <2>2
<1>5. \A n \in Nodes : ocount'[n] <= ocount[n] /\ owrite'[n] <= owrite[n]
  BY <1>2 DEF Inv, CountsOK
<1> HIDE DEF p
<1>6. panicked' = panicked \cup {n \in {p.node} \cap known : Makes(p)}
  BY <1>2, <1>3
<1>7. \A n \in Nodes : attr'[n] \in {attr[n], None}
  BY <1>2
<1> QED
  BY <1>1, <1>2, <1>3, <1>4, <1>5, <1>6, <1>7 DEF Ended, p

LEMMA MadeEnds == ASSUME Inv, NEW t \in Threads, MadeDone(t) PROVE Ended(t, Idle)
<1> DEFINE p == pc[t]
           e1 == Entry(p.dir, p.name, p.cred, p.node)
           e2 == Entry(p.node, Dot, p.cred, p.node)
           e3 == Entry(p.node, DotDot, p.cred, p.dir)
           E1 == Entered(cache, e1)
           E2 == UNION {Entered(C, e2) : C \in E1}
           E3 == UNION {Entered(C, e3) : C \in E2}
<1>1. p.at = "done" /\ p.op \in {"create", "mkdir"} /\ pc' = [pc EXCEPT ![t] = Idle]
  BY ReturnGoes DEF MadeDone, At
<1>2. UNCHANGED <<venus, owner, reused, ocount, owrite>>
  BY DEF MadeDone, files
<1>3. Enters(p) /\ Makes(p)
  BY <1>1 DEF Enters, Makes
<1>4. /\ panicked' = panicked \cup Panics(p) /\ known' = known \cup {p.node}
      /\ cache' \in (IF p.op = "mkdir" THEN E3 ELSE E1)
      /\ attr' = [Touched(p) EXCEPT ![p.node] = "new"]
  BY DEF MadeDone
<1>5. cache' \subseteq cache \cup News(p)
  <2>1. \A C \in E1 : C \subseteq cache \cup {e1}
    BY EnteredMore
  <2>2. \A C \in E2 : C \subseteq cache \cup {e1, e2}
    <3> SUFFICES ASSUME NEW B \in E1, NEW C \in Entered(B, e2) PROVE C \subseteq cache \cup {e1, e2}
      OBVIOUS
    <3>1. C \subseteq B \cup {e2} /\ B \subseteq cache \cup {e1}
      BY <2>1, EnteredMore
    <3> QED
      BY <3>1
  <2>3. \A C \in E3 : C \subseteq cache \cup {e1, e2, e3}
    <3> SUFFICES ASSUME NEW B \in E2, NEW C \in Entered(B, e3) PROVE C \subseteq cache \cup {e1, e2, e3}
      OBVIOUS
    <3>1. C \subseteq B \cup {e3} /\ B \subseteq cache \cup {e1, e2}
      BY <2>2, EnteredMore
    <3> QED
      BY <3>1
  <2>4. e1 \in News(p) /\ (p.op = "mkdir" => e2 \in News(p) /\ e3 \in News(p))
    BY <1>3 DEF News
  <2> HIDE DEF e1, e2, e3, E1, E2, E3
  <2> QED
    BY <1>4, <2>1, <2>3, <2>4
<1>6. p.node \in Nodes /\ p \in Places
  BY <1>1, AskedPlace DEF PlaceOK
<1>7. \A n \in Nodes : \/ attr'[n] \in {attr[n], None}
                       \/ attr'[n] = "new" /\ n = p.node
  BY <1>4, <1>6 DEF Touched, Invalid
<1>8. \A n \in Fixes(p) : attr'[n] # "old"
  <2> SUFFICES ASSUME NEW n \in Fixes(p) PROVE attr'[n] # "old"
    OBVIOUS
  <2>1. n \in {p.dir, p.node} \ {None}
    BY <1>1 DEF Fixes
  <2>2. n \in Nodes
    BY <1>6, <2>1 DEF Places, Nodes
  <2> QED
    BY <1>4, <1>6, <2>1, <2>2, TigerAssumption DEF Touched, Invalid
<1>9. \A n \in Nodes : ocount'[n] <= ocount[n] /\ owrite'[n] <= owrite[n]
  BY <1>2 DEF Inv, CountsOK
<1> HIDE DEF p
<1>10. /\ known' = known \cup {n \in {p.node} : Enters(p)}
       /\ panicked' = panicked \cup {n \in {p.node} \cap known : Makes(p)}
  BY <1>3, <1>4 DEF Panics
<1> QED
  BY <1>1, <1>2, <1>3, <1>5, <1>7, <1>8, <1>9, <1>10 DEF Ended, p

LEMMA EndsHow ==
  ASSUME Inv, NEW t \in Threads,
         \/ Refused(t) \/ Found(t) \/ MadeDone(t) \/ SymlinkDone(t) \/ Changed(t) \/ RemoveDone(t)
         \/ GetattrDone(t) \/ ReadlinkDone(t)
         \/ OpenDone(t) \/ ReaddirDone(t) \/ RdwrDone(t) \/ CloseDone(t)
  PROVE  \E q \in Places : Ended(t, q)
BY RefusedEnds, FoundEnds, MadeEnds, SymlinkEnds, ChangedEnds, GetattrEnds, OpenedEnds, IdlePlace

-----------------------------------------------------------------------------
(* So do refusals, downcalls, other clients and credentials.               *)

Stay ==
  \A u \in Threads : pc'[u] = pc[u] \/ (pc[u].at = "asked" /\ pc'[u] = [pc[u] EXCEPT !.at = "refused"])

Stands1 == Inv /\ Inv' /\ raced \subseteq raced' /\ RightInv /\ Stay
           /\ cache' \subseteq cache /\ known' \subseteq known /\ Lowers
           /\ UNCHANGED <<ocount, owrite, panicked>>

LEMMA StayAt ==
  ASSUME Inv, Stay, NEW u \in Threads
  PROVE  /\ pc'[u].at \in {"asked", "done"} => pc'[u] = pc[u]
         /\ SeenBy(pc[u]) => SeenBy(pc'[u])
BY AskedPlace DEF Stay, Places, SeenBy

LEMMA StandsKnown ==
  ASSUME Stands1, UNCHANGED <<known, tree, fresh>> PROVE KnownInv'
<1>1. \A u \in Threads : SeenBy(pc[u])'
  <2> TAKE u \in Threads
  <2>1. SeenBy(pc'[u])
    BY StayAt DEF Stands1, RightInv, KnownInv
  <2> QED
    BY <2>1 DEF SeenBy
<1> QED
  BY <1>1 DEF Stands1, RightInv, KnownInv, Lowers

LEMMA StandsAttr == ASSUME Stands1 PROVE NewInv' /\ AttrInv'
<1>1. \A u \in Threads : pc'[u].at \in {"asked", "done"} => pc'[u] = pc[u]
  BY StayAt DEF Stands1
<1>2. \A u \in Threads : pc[u].at = "done" => pc'[u] = pc[u]
  BY DEF Stands1, Stay
<1>3. NewInv'
  BY <1>1 DEF Stands1, RightInv, NewInv, Makes
<1>4. OldOK'
  <2> SUFFICES ASSUME NEW n \in Nodes, attr'[n] = "old", n \notin raced'
               PROVE  \E u \in Threads : pc'[u].at = "done" /\ n \in Fixes(pc'[u])
    BY DEF OldOK, Fixes
  <2>1. attr[n] = "old"
    BY TigerAssumption DEF Stands1, Lowers
  <2>2. PICK u \in Threads : pc[u].at = "done" /\ n \in Fixes(pc[u])
    BY <2>1 DEF Stands1, RightInv, AttrInv, OldOK
  <2> QED
    BY <1>2, <2>2
<1>5. ForgotOK'
  <2> SUFFICES ASSUME NEW u \in Threads, pc'[u].at \in {"asked", "done"}, NEW n \in Forgot(pc'[u])
               PROVE  attr'[n] = None \/ n \in raced'
    BY DEF ForgotOK, Forgot
  <2>1. pc'[u] = pc[u]
    BY <1>1
  <2>2. attr[n] = None \/ n \in raced
    BY <2>1 DEF Stands1, RightInv, AttrInv, ForgotOK
  <2>3. n \in Nodes
    BY <2>1, AskedPlace, FixesTouches DEF Stands1
  <2> QED
    BY <2>2, <2>3 DEF Stands1, Lowers
<1>6. WrittenOK'
  BY DEF Stands1, Lowers, RightInv, AttrInv, WrittenOK
<1> QED
  BY <1>3, <1>4, <1>5, <1>6 DEF AttrInv

LEMMA StandsMissing == ASSUME Stands1 PROVE MissingOK'
<1> SUFFICES ASSUME NEW u \in Threads, pc'[u].at = "asked" PROVE Missing(cache, pc[u])'
  BY DEF MissingOK
<1>1. pc'[u] = pc[u]
  BY StayAt DEF Stands1
<1>2. Missing(cache, pc[u])
  BY <1>1 DEF Stands1, RightInv, NamesInv, MissingOK
<1> QED
  BY <1>1, <1>2 DEF Stands1, Missing, Lacks

LEMMA StandsNames == ASSUME Stands1, UNCHANGED tree PROVE NamesInv'
<1>1. \A u \in Threads : pc'[u].at \in {"asked", "done"} => pc'[u] = pc[u]
  BY StayAt DEF Stands1
<1>2. DirsOK'
  BY DEF Stands1, RightInv, NamesInv, DirsOK
<1>3. EntriesOK'
  <2>1. \A e \in cache' : Right(e.dir, e.name, e.node)
    BY DEF Stands1, RightInv, NamesInv, EntriesOK
  <2> QED
    BY <2>1 DEF Stands1, EntriesOK, Right, Agrees, Alive, Linked, Parents
<1>4. AnswersOK'
  <2> SUFFICES ASSUME NEW u \in Threads, pc'[u].at = "done"
               PROVE  /\ pc'[u].op \in {"lookup", "create", "mkdir"}
                           => Right(pc[u].dir, pc[u].name, pc[u].node)'
                      /\ pc'[u].op = "mkdir" => Right(pc[u].node, DotDot, pc[u].dir)'
    BY DEF AnswersOK
  <2>1. pc'[u] = pc[u]
    BY <1>1
  <2>2. /\ pc[u].op \in {"lookup", "create", "mkdir"} => Right(pc[u].dir, pc[u].name, pc[u].node)
        /\ pc[u].op = "mkdir" => Right(pc[u].node, DotDot, pc[u].dir)
    BY <2>1 DEF Stands1, RightInv, NamesInv, AnswersOK
  <2> QED
    BY <2>1, <2>2 DEF Stands1, Right, Agrees, Alive, Linked, Parents
<1> QED
  BY <1>2, <1>3, <1>4, StandsMissing DEF NamesInv

LEMMA StandsRights ==
  ASSUME Stands1, UNCHANGED <<rights, owner, reused>> PROVE RightsInv'
<1>1. \A c, d : Holds(c, d) => Holds(c, d)'
  BY DEF Stands1, Holds
<1>2. ASSUME NEW e \in cache' PROVE e.cred \in reused' \/ Holds(e.cred, e.dir)'
  BY <1>1, <1>2 DEF Stands1, RightInv, RightsInv
<1>3. ASSUME NEW u \in Threads, pc'[u].at = "done"
      PROVE  /\ pc'[u].op \in {"lookup", "create", "mkdir"} => Holds(pc[u].cred, pc[u].dir)'
             /\ pc'[u].op = "mkdir" => Holds(pc[u].cred, pc[u].node)'
  <2>1. pc'[u] = pc[u]
    BY <1>3, StayAt DEF Stands1
  <2>2. /\ pc[u].op \in {"lookup", "create", "mkdir"} => Holds(pc[u].cred, pc[u].dir)
        /\ pc[u].op = "mkdir" => Holds(pc[u].cred, pc[u].node)
    BY <1>3, <2>1 DEF Stands1, RightInv, RightsInv
  <2> QED
    BY <2>1, <2>2 DEF Stands1, Holds
<1> QED
  BY <1>2, <1>3 DEF RightsInv

LEMMA StandsRight ==
  ASSUME Stands1, UNCHANGED <<known, tree, fresh, rights, owner, reused>> PROVE RightInv'
BY StandsKnown, StandsAttr, StandsNames, StandsRights DEF RightInv

-----------------------------------------------------------------------------

LEMMA StayStill == UNCHANGED pc => Stay
BY DEF Stay

LEMMA RefusesRight ==
  ASSUME Inv, Inv', raced \subseteq raced', RightInv, NEW t \in Threads, VenusRefuses(t)
  PROVE  RightInv'
<1>1. pc' = [pc EXCEPT ![t] = [pc[t] EXCEPT !.at = "refused"]] /\ pc[t].at = "asked"
  BY DEF VenusRefuses, Goes, At
<1>2. Stay
  BY <1>1, OneMoves DEF Stay
<1>3. UNCHANGED <<cache, attr, known, ocount, owrite, tree, fresh, rights, owner, panicked, reused>>
  BY DEF VenusRefuses, files, venus
<1>4. Stands1
  BY <1>2, <1>3, LowersBy DEF Stands1
<1> QED
  BY <1>3, <1>4, StandsRight

LEMMA ZapFileRight ==
  ASSUME Inv, Inv', raced \subseteq raced', RightInv, NEW n \in Nodes, ZapFile(n)
  PROVE  RightInv'
<1>1. UNCHANGED <<cache, known, pc, ocount, owrite, tree, fresh, rights, owner, panicked, reused>>
  BY DEF ZapFile, files, venus
<1>2. Lowers
  <2>1. CASE n \in known
    BY <2>1, LowersBy DEF ZapFile
  <2>2. CASE n \notin known
    BY <2>2 DEF ZapFile, Outdated, Lowers, RightInv, KnownInv
  <2> QED
    BY <2>1, <2>2
<1>3. Stands1
  BY <1>1, <1>2, StayStill DEF Stands1
<1> QED
  BY <1>1, <1>3, StandsRight

LEMMA PurgeFidRight ==
  ASSUME Inv, Inv', raced \subseteq raced', RightInv, NEW n \in Nodes, PurgeFid(n)
  PROVE  RightInv'
<1>1. UNCHANGED <<known, pc, ocount, owrite, tree, fresh, rights, owner, panicked, reused>>
  BY DEF PurgeFid, files, venus
<1>2. Lowers /\ cache' \subseteq cache
  BY LowersBy DEF PurgeFid
<1>3. Stands1
  BY <1>1, <1>2, StayStill DEF Stands1
<1> QED
  BY <1>1, <1>3, StandsRight

LEMMA FlushRight ==
  ASSUME Inv, Inv', raced \subseteq raced', RightInv, Flush \/ UNCHANGED vars
  PROVE  RightInv'
<1>1. UNCHANGED <<attr, known, pc, ocount, owrite, tree, fresh, rights, owner, panicked, reused>>
  BY DEF Flush, vars, files, venus
<1>2. Lowers /\ cache' \subseteq cache
  BY <1>1, LowersBy DEF Flush, vars
<1>3. Stands1
  BY <1>1, <1>2, StayStill DEF Stands1
<1> QED
  BY <1>1, <1>3, StandsRight

LEMMA InactiveRight ==
  ASSUME Inv, Inv', raced \subseteq raced', RightInv, NEW n \in Nodes, coda_inactive(n)
  PROVE  RightInv'
<1>1. /\ UNCHANGED <<cache, pc, ocount, owrite, tree, fresh, rights, owner, panicked, reused>>
      /\ n # Root /\ Unused(n) /\ known' = known \ {n} /\ attr' = Invalid({n})
  BY DEF coda_inactive, venus
<1>2. Lowers
  BY <1>1, LowersBy
<1>3. Stands1
  BY <1>1, <1>2, StayStill DEF Stands1
<1>4. KnownInv'
  <2>1. \A u \in Threads : SeenBy(pc[u])'
    <3> TAKE u \in Threads
    <3>1. SeenBy(pc[u]) /\ n \notin {pc[u].dir, pc[u].to, pc[u].node} \ {None}
      BY <1>1 DEF Unused, Touches, RightInv, KnownInv
    <3>2. n # None
      BY TigerAssumption
    <3> QED
      BY <1>1, <3>1, <3>2 DEF SeenBy
  <2>2. \A e \in cache : e.dir # n /\ e.node # n
    BY <1>1 DEF Unused, ZappedParent, ZappedFid
  <2>3. attr'[n] = None
    BY <1>1 DEF Invalid
  <2>4. \A m \in Nodes : attr'[m] # None => m \in known'
    BY <1>1, <1>2, <2>3 DEF Lowers, RightInv, KnownInv
  <2>5. ~(ocount[n] > 0)
    <3>1. refs[n] = 0 /\ refs[n] = ocount[n] + Cardinality(Closers(n)) /\ ocount[n] \in Nat
      BY <1>1 DEF Unused, Inv, RefsOK, CountsOK
    <3>2. Cardinality(Closers(n)) \in Nat
      BY CloserFinite
    <3> QED
      BY <3>1, <3>2
  <2> QED
    BY <1>1, <2>1, <2>2, <2>4, <2>5 DEF RightInv, KnownInv
<1> QED
  BY <1>1, <1>3, <1>4, StandsAttr, StandsNames, StandsRights DEF RightInv

LEMMA UnderwayHas ==
  ASSUME Inv, NEW u \in Threads, pc[u].at = "done" PROVE Touches(pc[u]) \subseteq Underway
BY DEF Underway

\* A user loses a right: his entries go, and answers under way are overlapped.
LEMMA PurgeUserRight ==
  ASSUME Inv, Inv', raced \subseteq raced', RightInv, NEW v \in Users, PurgeUser(v)
  PROVE  RightInv'
<1>1. UNCHANGED <<attr, known, pc, ocount, owrite, tree, fresh, owner, panicked, reused>>
  BY DEF PurgeUser, files
<1>2. Lowers /\ cache' = cache \ ZappedUser(v)
  BY <1>1, LowersBy DEF PurgeUser
<1>3. Stands1
  BY <1>1, <1>2, StayStill DEF Stands1
<1>4. PICK b \in Dirs : /\ rights' = rights \ {<<v, b>>}
                        /\ raced' = raced \cup (IF b \in Underway THEN Underway ELSE {})
  BY DEF PurgeUser
<1> DEFINE H(c, d) == d \in raced' \/ <<owner'[c], d>> \in rights'
<1>5. ASSUME NEW c, NEW d, Holds(c, d), owner[c] # v \/ d \in Underway PROVE H(c, d)
  <2>1. CASE d \in raced
    BY <1>3, <2>1 DEF Stands1, Holds
  <2>2. CASE <<owner[c], d>> \in rights'
    BY <1>1, <2>2 DEF Holds
  <2>3. CASE d = b /\ d \in Underway
    BY <1>4, <2>3 DEF Holds
  <2> QED
    BY <1>4, <1>5, <2>1, <2>2, <2>3 DEF Holds
<1>6. RightsInv'
  <2>1. ASSUME NEW e \in cache' PROVE e.cred \in reused' \/ Holds(e.cred, e.dir)'
    <3>1. e \in cache /\ owner[e.cred] # v
      BY <1>2 DEF ZappedUser
    <3>2. e.cred \in reused \/ Holds(e.cred, e.dir)
      BY <3>1 DEF RightInv, RightsInv
    <3>3. e.cred \in reused \/ H(e.cred, e.dir)
      <4> HIDE DEF H
      <4> QED
        BY <1>5, <3>1, <3>2
    <3> QED
      BY <1>1, <3>3 DEF Holds
  <2>2. ASSUME NEW u \in Threads, pc'[u].at = "done"
        PROVE  /\ pc'[u].op \in {"lookup", "create", "mkdir"} => Holds(pc[u].cred, pc[u].dir)'
               /\ pc'[u].op = "mkdir" => Holds(pc[u].cred, pc[u].node)'
    <3>1. pc[u].at = "done" /\ PlaceOK(pc[u]) /\ None \notin Dirs
      BY <1>1, <2>2, AskedPlace, TigerAssumption DEF Nodes
    <3>2. /\ pc[u].op \in {"lookup", "create", "mkdir"} => pc[u].dir \in Underway
          /\ pc[u].op = "mkdir" => pc[u].node \in Underway
      BY <3>1, UnderwayHas DEF PlaceOK, InDirs, Touches
    <3>3. /\ pc[u].op \in {"lookup", "create", "mkdir"} => Holds(pc[u].cred, pc[u].dir)
          /\ pc[u].op = "mkdir" => Holds(pc[u].cred, pc[u].node)
      BY <3>1 DEF RightInv, RightsInv
    <3>4. /\ pc[u].op \in {"lookup", "create", "mkdir"} => H(pc[u].cred, pc[u].dir)
          /\ pc[u].op = "mkdir" => H(pc[u].cred, pc[u].node)
      <4> HIDE DEF H
      <4> QED
        BY <1>5, <3>2, <3>3
    <3> QED
      BY <1>1, <3>4 DEF Holds
  <2> QED
    BY <2>1, <2>2 DEF RightsInv
<1> QED
  BY <1>1, <1>3, <1>6, StandsKnown, StandsAttr, StandsNames DEF RightInv

\* A credential becomes someone else's: no operation has it, and its entries are noted.
LEMMA CredReusedRight ==
  ASSUME Inv, Inv', raced \subseteq raced', RightInv, NEW c \in Creds, NEW v \in Users, CredReused(c, v)
  PROVE  RightInv'
<1>1. UNCHANGED <<cache, attr, known, pc, ocount, owrite, tree, fresh, rights, panicked>>
  BY DEF CredReused, files, venus
<1>2. /\ owner' = [owner EXCEPT ![c] = v] /\ \A t \in Threads : pc[t].cred # c
      /\ reused' = IF \E e \in cache : e.cred = c THEN reused \cup {c} ELSE reused
  BY DEF CredReused
<1>3. Stands1
  BY <1>1, StayStill, LowersBy DEF Stands1
<1> DEFINE H(b, d) == d \in raced' \/ <<owner'[b], d>> \in rights'
<1>4. \A d, b : b \in Creds /\ b # c /\ Holds(b, d) => H(b, d)
  BY <1>1, <1>2, <1>3 DEF Stands1, Holds, Inv, RestOK
<1>5. RightsInv'
  <2>1. ASSUME NEW e \in cache' PROVE e.cred \in reused' \/ Holds(e.cred, e.dir)'
    <3>1. e \in cache /\ e.cred \in Creds
      BY <1>1 DEF Inv, CacheOK
    <3>2. e.cred \in reused \/ Holds(e.cred, e.dir)
      BY <3>1 DEF RightInv, RightsInv
    <3>3. e.cred \in reused' \/ H(e.cred, e.dir)
      <4> HIDE DEF H
      <4> QED
        BY <1>2, <1>4, <3>1, <3>2
    <3> QED
      BY <3>3 DEF Holds
  <2>2. ASSUME NEW u \in Threads, pc'[u].at = "done"
        PROVE  /\ pc'[u].op \in {"lookup", "create", "mkdir"} => Holds(pc[u].cred, pc[u].dir)'
               /\ pc'[u].op = "mkdir" => Holds(pc[u].cred, pc[u].node)'
    <3>1. pc[u].at = "done" /\ PlaceOK(pc[u])
      BY <1>1, <2>2, AskedPlace
    <3>2. /\ pc[u].op \in {"lookup", "create", "mkdir"} => Holds(pc[u].cred, pc[u].dir)
          /\ pc[u].op = "mkdir" => Holds(pc[u].cred, pc[u].node)
      BY <3>1 DEF RightInv, RightsInv
    <3>3. pc[u].op \in {"lookup", "create", "mkdir"} => pc[u].cred \in Creds /\ pc[u].cred # c
      BY <1>2, <3>1 DEF PlaceOK
    <3>4. /\ pc[u].op \in {"lookup", "create", "mkdir"} => H(pc[u].cred, pc[u].dir)
          /\ pc[u].op = "mkdir" => H(pc[u].cred, pc[u].node)
      <4> HIDE DEF H
      <4> QED
        BY <1>4, <3>2, <3>3
    <3> QED
      BY <1>1, <3>4 DEF Holds
  <2> QED
    BY <2>1, <2>2 DEF RightsInv
<1> QED
  BY <1>1, <1>3, <1>5, StandsKnown, StandsAttr, StandsNames DEF RightInv

\* Another client removes or replaces a file: the entries of its directory go.
LEMMA ZapDirRight ==
  ASSUME Inv, Inv', raced \subseteq raced', RightInv, NEW d \in Dirs, NEW n \in Names, ZapDir(d, n)
  PROVE  RightInv'
<1>1. /\ UNCHANGED <<known, pc, ocount, owrite, rights, owner, panicked, reused>>
      /\ tree[d][n] \in Files
      /\ cache' = IF d \in known THEN cache \ ZappedParent(d) ELSE cache
      /\ raced' = raced \cup (Underway \cap {d})
  BY DEF ZapDir, files
<1>2. PICK g \in (fresh \cap Files) \cup {None} :
        tree' = [tree EXCEPT ![d][n] = g] /\ fresh' = fresh \ {g}
  BY DEF ZapDir
<1>3. Lowers /\ cache' \subseteq cache
  BY <1>1, LowersBy DEF ZapDir
<1>4. Stands1
  BY <1>1, <1>3, StayStill DEF Stands1
<1>5. KnownInv /\ DirsOK
  BY DEF RightInv, NamesInv
<1>6. /\ DirsOK'
      /\ \A e \in Dirs \ fresh : Alive(e)' => Alive(e)
      /\ \A e \in Dirs \ fresh : \A m, y : ~(e = d /\ m = n) => Keeps(e, m, y)
  BY <1>2, <1>5, OneName
<1>7. None \notin Files /\ None \notin Dirs /\ None \notin Nodes
  BY TigerAssumption DEF Nodes
<1>8. KnownInv'
  <2>1. \A u \in Threads : SeenBy(pc[u])'
    BY <1>1, <1>2, <1>5 DEF KnownInv, SeenBy
  <2>2. \A e \in Dirs, m \in Names : tree'[e][m] = IF e = d /\ m = n THEN g ELSE tree[e][m]
    BY <1>2 DEF Inv, RestOK
  <2>3. d \notin fresh
    BY <1>1, <1>5, <1>7 DEF KnownInv
  <2>4. \A e \in Dirs, m \in Names : tree'[e][m] # None => e \notin fresh' /\ tree'[e][m] \notin fresh'
    BY <1>2, <1>5, <2>2, <2>3 DEF KnownInv
  <2> QED
    BY <1>1, <1>2, <1>3, <1>5, <2>1, <2>4 DEF KnownInv, Lowers
<1>9. ASSUME NEW b \in Dirs \ fresh, NEW m, NEW y, Right(b, m, y), b # d \/ b \in raced'
      PROVE  Right(b, m, y)'
  <2>1. CASE b \in raced'
    BY <2>1 DEF Right
  <2>2. CASE b # d
    <3>1. SUFFICES ASSUME b \notin raced', Alive(b)' PROVE Agrees(b, m, y)'
      BY DEF Right
    <3>2. Agrees(b, m, y)
      BY <1>1, <1>6, <1>9, <3>1 DEF Right
    <3>3. Keeps(b, m, y)
      BY <1>6, <2>2
    <3> QED
      BY <3>1, <3>2, <3>3 DEF Keeps
  <2> QED
    BY <1>9, <2>1, <2>2
<1>10. NamesInv'
  <2>1. EntriesOK'
    <3> SUFFICES ASSUME NEW e \in cache' PROVE Right(e.dir, e.name, e.node)'
      BY DEF EntriesOK
    <3>1. e \in cache /\ e.dir \in Dirs \ fresh /\ e.dir # d
      BY <1>1, <1>5 DEF ZappedParent, KnownInv, Inv, CacheOK
    <3>2. Right(e.dir, e.name, e.node)
      BY <3>1 DEF RightInv, NamesInv, EntriesOK
    <3> QED
      BY <1>9, <3>1, <3>2
  <2>2. AnswersOK'
    <3> SUFFICES ASSUME NEW u \in Threads, pc'[u].at = "done"
                 PROVE  /\ pc'[u].op \in {"lookup", "create", "mkdir"}
                             => Right(pc[u].dir, pc[u].name, pc[u].node)'
                        /\ pc'[u].op = "mkdir" => Right(pc[u].node, DotDot, pc[u].dir)'
      BY DEF AnswersOK
    <3>1. pc[u].at = "done" /\ PlaceOK(pc[u]) /\ SeenBy(pc[u]) /\ Touches(pc[u]) \subseteq Underway
      BY <1>1, <1>5, AskedPlace, UnderwayHas DEF KnownInv
    <3>2. /\ pc[u].op \in {"lookup", "create", "mkdir"} => Right(pc[u].dir, pc[u].name, pc[u].node)
          /\ pc[u].op = "mkdir" => Right(pc[u].node, DotDot, pc[u].dir)
      BY <3>1 DEF RightInv, NamesInv, AnswersOK
    <3>3. PICK b, m, y : b = pc[u].dir /\ m = pc[u].name /\ y = pc[u].node
      OBVIOUS
    <3>4. /\ pc[u].op \in {"lookup", "create", "mkdir"} => b \in Dirs \ fresh /\ (b = d => b \in raced')
          /\ pc[u].op = "mkdir" => y \in Dirs \ fresh /\ (y = d => y \in raced')
      BY <1>1, <1>5, <1>7, <3>1, <3>3 DEF PlaceOK, SeenBy, InDirs, KnownInv, Touches
    <3>5. /\ pc[u].op \in {"lookup", "create", "mkdir"} => Right(b, m, y)'
          /\ pc[u].op = "mkdir" => Right(y, DotDot, b)'
      <4>1. /\ pc[u].op \in {"lookup", "create", "mkdir"} => Right(b, m, y)
            /\ pc[u].op = "mkdir" => Right(y, DotDot, b)
        BY <3>2, <3>3
      <4> QED
        BY <1>9, <3>4, <4>1
    <3> QED
      BY <1>1, <3>3, <3>5 DEF Right, Agrees, Alive, Linked, Parents
  <2> QED
    BY <1>4, <1>6, <2>1, <2>2, StandsMissing DEF NamesInv
<1> QED
  BY <1>1, <1>4, <1>8, <1>10, StandsAttr, StandsRights DEF RightInv

-----------------------------------------------------------------------------
(* The properties.                                                         *)

LEMMA RightInit == Init => RightInv
<1> SUFFICES ASSUME Init PROVE RightInv
  OBVIOUS
<1>1. \A t \in Threads : pc[t] = Idle
  BY DEF Init
<1>2. /\ tree = Tree /\ known = Linked(Tree) \cup {Root} /\ fresh = Nodes \ known
      /\ cache = {} /\ panicked = {}
      /\ \A n \in Nodes : attr[n] = None /\ ocount[n] = 0 /\ owrite[n] = 0
  BY DEF Init
<1>3. /\ \A d \in Dirs, n \in Names : Tree[d][n] # None => d \in Linked(Tree) \cup {Root}
      /\ \A d, e \in Dirs, n, m \in Names :
           Tree[d][n] \in Dirs /\ Tree[d][n] = Tree[e][m] => d = e /\ n = m /\ Tree[d][n] # Root
  BY TigerAssumption DEF IsTree
<1>4. KnownInv
  <2>1. \A t \in Threads : SeenBy(pc[t])
    BY <1>1 DEF SeenBy, Idle
  <2>2. \A d \in Dirs, n \in Names : tree[d][n] # None => d \notin fresh /\ tree[d][n] \notin fresh
    <3>1. \A d \in Dirs, n \in Names : Tree[d][n] # None => Tree[d][n] \in Linked(Tree)
      BY DEF Linked
    <3> QED
      BY <1>2, <1>3, <3>1
  <2> QED
    BY <1>2, <2>1, <2>2 DEF KnownInv
<1>5. NewInv
  BY <1>1, <1>2 DEF NewInv, Makes, Idle
<1>6. AttrInv
  BY <1>1, <1>2, TigerAssumption DEF AttrInv, OldOK, ForgotOK, WrittenOK, Idle
<1>7. NamesInv
  <2>1. DirsOK
    BY <1>2, <1>3, TigerAssumption DEF DirsOK
  <2> QED
    BY <1>1, <1>2, <2>1 DEF NamesInv, EntriesOK, AnswersOK, MissingOK, Idle
<1>8. RightsInv
  BY <1>1, <1>2 DEF RightsInv, Idle
<1> QED
  BY <1>4, <1>5, <1>6, <1>7, <1>8 DEF RightInv

LEMMA RightNext == Inv /\ LinksInv /\ RightInv /\ [Next]_vars => RightInv'
<1> SUFFICES ASSUME Inv, LinksInv, RightInv, [Next]_vars PROVE RightInv'
  OBVIOUS
<1>1. Inv' /\ raced \subseteq raced' /\ OverlapOK
  BY InvNext DEF Steps, Overlaps, LinksInv
<1>2. ASSUME NEW t \in Threads, Start(t) PROVE RightInv'
  <2>1. PICK q \in Places : Begun(t, q)
    BY <1>2, BegunStart DEF RightInv
  <2> QED
    BY <1>1, <2>1, BegunRight
<1>3. ASSUME NEW t \in Threads, VenusDoes(t) PROVE RightInv'
  <2>1. PICK q \in Places : Answers(t, q)
    BY <1>3, AnswersHow
  <2> QED
    BY <1>1, <2>1, AnswersRight
<1>4. ASSUME NEW t \in Threads,
             \/ Refused(t) \/ Found(t) \/ MadeDone(t) \/ SymlinkDone(t) \/ Changed(t) \/ RemoveDone(t)
             \/ GetattrDone(t) \/ ReadlinkDone(t)
             \/ OpenDone(t) \/ ReaddirDone(t) \/ RdwrDone(t) \/ CloseDone(t)
      PROVE  RightInv'
  <2>1. PICK q \in Places : Ended(t, q)
    BY <1>4, EndsHow
  <2> QED
    BY <1>1, <2>1, EndedRight
<1>5. ASSUME NEW t \in Threads, VenusRefuses(t) PROVE RightInv'
  BY <1>1, <1>5, RefusesRight
<1>6. ASSUME NEW d \in Dirs, NEW n \in Names, ZapDir(d, n) PROVE RightInv'
  BY <1>1, <1>6, ZapDirRight
<1>7. ASSUME NEW n \in Nodes, ZapFile(n) \/ PurgeFid(n) \/ coda_inactive(n) PROVE RightInv'
  BY <1>1, <1>7, ZapFileRight, PurgeFidRight, InactiveRight
<1>8. ASSUME NEW u \in Users, PurgeUser(u) PROVE RightInv'
  BY <1>1, <1>8, PurgeUserRight
<1>9. ASSUME NEW c \in Creds, NEW u \in Users, CredReused(c, u) PROVE RightInv'
  BY <1>1, <1>9, CredReusedRight
<1>10. CASE Flush \/ UNCHANGED vars
  BY <1>1, <1>10, FlushRight
<1> QED
  BY <1>2, <1>3, <1>4, <1>5, <1>6, <1>7, <1>8, <1>9, <1>10 DEF Next

LEMMA RightAlways == Spec => [](Inv /\ RightInv)
<1>1. Spec => []Inv
  BY InvInit, InvNext, PTL DEF Spec
<1>2. Inv /\ LinksInv /\ [Next]_vars => LinksInv'
  BY LinksNext
<1>3. Spec => []LinksInv
  BY <1>1, <1>2, LinksInit, PTL DEF Spec
<1>4. Spec => []RightInv
  BY <1>1, <1>3, RightInit, RightNext, PTL DEF Spec
<1> QED
  BY <1>1, <1>4, PTL

\* However operations overlap, a name that is cached stands for what Venus would answer,
\* in every directory that is still there and on which no operations have overlapped: no
\* order of upcalls, downcalls and replies leaves a wrong entry behind.
THEOREM TigerNamesRight == Spec => []NamesRight
<1>1. Inv /\ RightInv => NamesRight
  <2> SUFFICES ASSUME Inv, RightInv, NEW e \in cache, e.dir \notin raced, Alive(e.dir)
               PROVE  e.node = Binding(e.dir, e.name)
    BY DEF NamesRight
  <2>1. Agrees(e.dir, e.name, e.node)
    BY DEF RightInv, NamesInv, EntriesOK, Right
  <2>2. e.dir \in Dirs /\ e.name \in Names \cup {Dot, DotDot}
    BY DEF Inv, CacheOK
  <2>3. Dot # DotDot /\ {Dot, DotDot} \cap Names = {}
    BY TigerAssumption
  <2>4. CASE e.name \in Names
    BY <2>1, <2>3, <2>4 DEF Agrees, Binding
  <2>5. CASE e.name = Dot
    BY <2>1, <2>3, <2>5 DEF Agrees, Binding
  <2>6. CASE e.name = DotDot
    <3>1. e.node \in Parents(e.dir)
      BY <2>1, <2>6 DEF Agrees
    <3>2. \A p \in Parents(e.dir) : p = e.node
      BY <2>2, <3>1 DEF Parents, RightInv, NamesInv, DirsOK
    <3>3. (CHOOSE p \in Parents(e.dir) : TRUE) \in Parents(e.dir)
      BY <3>1
    <3>4. Binding(e.dir, e.name) = CHOOSE p \in Parents(e.dir) : TRUE
      BY <2>3, <2>6, <3>1 DEF Binding
    <3> QED
      BY <3>2, <3>3, <3>4
  <2> QED
    BY <2>2, <2>4, <2>5, <2>6
<1> QED
  BY <1>1, RightAlways, PTL

\* Attributes that are no longer true are cached only while the operation that will
\* invalidate them is under way, or where operations have overlapped; and those of a file
\* that is open for writing are never cached, whatever overlaps, unless coda_create has
\* panicked about it.
THEOREM TigerAttrRight == Spec => []AttrRight
<1>1. Inv /\ RightInv => AttrRight
  <2> SUFFICES ASSUME Inv, RightInv PROVE AttrRight
    OBVIOUS
  <2>1. ASSUME NEW n \in Nodes, attr[n] = "old", n \notin raced PROVE n \in Underway
    <3>1. PICK t \in Threads : pc[t].at = "done" /\ n \in Fixes(pc[t])
      BY <2>1 DEF RightInv, AttrInv, OldOK
    <3>2. n \in Touches(pc[t])
      BY <3>1, AskedPlace, FixesTouches
    <3> QED
      BY <3>1, <3>2, UnderwayHas
  <2>2. WrittenOK
    BY DEF RightInv, AttrInv
  <2> QED
    BY <2>1, <2>2 DEF AttrRight, WrittenOK
<1> QED
  BY <1>1, RightAlways, PTL

\* Whoever finds a name in the name cache might have searched the directory, unless his
\* credential was someone else's when the entry was made, or operations on it overlapped.
THEOREM TigerGrantedRight == Spec => []GrantedRight
<1>1. RightInv => GrantedRight
  BY DEF RightInv, RightsInv, Holds, GrantedRight
<1> QED
  BY <1>1, RightAlways, PTL

\* A node that Venus has just made has no cnode yet, or operations on it have overlapped:
\* the panic of coda_create and coda_mkdir needs two operations at once.
THEOREM TigerNewIsNew == Spec => []NewIsNew
<1>1. RightInv => NewIsNew
  BY DEF RightInv, NewInv, NewIsNew
<1> QED
  BY <1>1, RightAlways, PTL
===============================================================================
