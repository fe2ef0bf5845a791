--------------------------- MODULE CodaFileProofs ---------------------------
(***************************************************************************)
(* Theorems about CodaFile, for any number of threads and containers, for  *)
(* files and directories and with every misfortune that is not excluded:   *)
(* the counts of a cnode, the references of its container and what Venus   *)
(* counts agree, who has the file open uses the container Venus has, and   *)
(* cached attributes are those of the contents.                            *)
(***************************************************************************)
EXTENDS CodaFile, FiniteSetTheorems, TLAPS

-----------------------------------------------------------------------------
(* Sets of threads and their sizes.                                        *)

Openers == {t \in Threads : Opener(t)}
Users == {t \in Threads : Opener(t) /\ ~At(t, "vclose")}
Writers == {t \in Threads : Writer(t)}
Closers == {t \in Threads : At(t, "close")}
Grabbers == {t \in Threads : At(t, "grab")}

One(b) == IF b THEN 1 ELSE 0

LEMMA Counted ==
  ASSUME NEW S \in SUBSET Threads
  PROVE  Cardinality(S) \in Nat /\ (\A t \in S : Cardinality(S) > 0)
<1>1. IsFiniteSet(S)
  BY FileAssumption, FS_Subset
<1>2. S # {} => Cardinality(S) # 0
  BY <1>1, FS_EmptySet
<1> QED
  BY <1>1, <1>2, FS_CardinalityType

LEMMA Without ==
  ASSUME NEW S \in SUBSET Threads, NEW t \in Threads
  PROVE  /\ Cardinality(S) = Cardinality(S \ {t}) + One(t \in S)
         /\ Cardinality(S \ {t}) \in Nat
<1>1. IsFiniteSet(S) /\ Cardinality(S) \in Nat /\ Cardinality(S \ {t}) \in Nat
  BY FileAssumption, FS_Subset, Counted
<1>2. CASE t \in S
  <2>1. Cardinality(S \ {t}) = Cardinality(S) - 1
    BY <1>1, <1>2, FS_RemoveElement
  <2> QED
    BY <1>1, <1>2, <2>1 DEF One
<1>3. CASE t \notin S
  <2>1. S \ {t} = S
    BY <1>3
  <2> QED
    BY <1>1, <1>3, <2>1 DEF One
<1> QED
  BY <1>2, <1>3

\* Two sets that differ in t at most.
LEMMA Differ ==
  ASSUME NEW S \in SUBSET Threads, NEW T \in SUBSET Threads, NEW t \in Threads,
         S \ {t} = T \ {t}
  PROVE  Cardinality(T) = Cardinality(S) + One(t \in T) - One(t \in S)
<1>1. /\ Cardinality(S) = Cardinality(S \ {t}) + One(t \in S) /\ Cardinality(S \ {t}) \in Nat
      /\ Cardinality(T) = Cardinality(T \ {t}) + One(t \in T)
  BY Without
<1> QED
  BY <1>1 DEF One

\* A step of thread t.
Own(t) == \A u \in Threads \ {t} : pc'[u] = pc[u] /\ fd'[u] = fd[u]

LEMMA Stepped ==
  ASSUME NEW t \in Threads, Own(t)
  PROVE  /\ Cardinality(Openers') = Cardinality(Openers) + One(Opener(t)') - One(Opener(t))
         /\ Cardinality(Users') = Cardinality(Users) + One(Opener(t)' /\ ~At(t, "vclose")')
                                    - One(Opener(t) /\ ~At(t, "vclose"))
         /\ Cardinality(Writers') = Cardinality(Writers) + One(Writer(t)') - One(Writer(t))
         /\ Cardinality(Closers') = Cardinality(Closers) + One(At(t, "close")') - One(At(t, "close"))
         /\ Cardinality(Grabbers') = Cardinality(Grabbers) + One(At(t, "grab")') - One(At(t, "grab"))
         /\ Cardinality(Openers') \in Nat /\ Cardinality(Users') \in Nat
         /\ Cardinality(Writers') \in Nat /\ Cardinality(Closers') \in Nat
         /\ Cardinality(Grabbers') \in Nat
<1>1. /\ Openers \in SUBSET Threads /\ Openers' \in SUBSET Threads
      /\ Users \in SUBSET Threads /\ Users' \in SUBSET Threads
      /\ Writers \in SUBSET Threads /\ Writers' \in SUBSET Threads
      /\ Closers \in SUBSET Threads /\ Closers' \in SUBSET Threads
      /\ Grabbers \in SUBSET Threads /\ Grabbers' \in SUBSET Threads
  BY DEF Openers, Users, Writers, Closers, Grabbers
<1>2. Openers \ {t} = Openers' \ {t}
  BY DEF Openers, Opener, Own
<1>3. Users \ {t} = Users' \ {t}
  BY DEF Users, Opener, Own, At
<1>4. Writers \ {t} = Writers' \ {t}
  BY DEF Writers, Writer, Opener, Own
<1>5. Closers \ {t} = Closers' \ {t}
  BY DEF Closers, Own, At
<1>6. Grabbers \ {t} = Grabbers' \ {t}
  BY DEF Grabbers, Own, At
<1>7. /\ (t \in Openers) <=> Opener(t)
      /\ (t \in Users) <=> (Opener(t) /\ ~At(t, "vclose"))
      /\ (t \in Writers) <=> Writer(t)
      /\ (t \in Closers) <=> At(t, "close")
      /\ (t \in Grabbers) <=> At(t, "grab")
  BY DEF Openers, Users, Writers, Closers, Grabbers
<1>8. /\ (t \in Openers') <=> Opener(t)'
      /\ (t \in Users') <=> (Opener(t)' /\ ~At(t, "vclose")')
      /\ (t \in Writers') <=> Writer(t)'
      /\ (t \in Closers') <=> At(t, "close")'
      /\ (t \in Grabbers') <=> At(t, "grab")'
  BY DEF Openers, Users, Writers, Closers, Grabbers
<1>9. /\ Cardinality(Openers') = Cardinality(Openers) + One(t \in Openers') - One(t \in Openers)
      /\ Cardinality(Users') = Cardinality(Users) + One(t \in Users') - One(t \in Users)
      /\ Cardinality(Writers') = Cardinality(Writers) + One(t \in Writers') - One(t \in Writers)
  BY <1>1, <1>2, <1>3, <1>4, Differ
<1>10. /\ Cardinality(Closers') = Cardinality(Closers) + One(t \in Closers') - One(t \in Closers)
       /\ Cardinality(Grabbers') = Cardinality(Grabbers) + One(t \in Grabbers') - One(t \in Grabbers)
  BY <1>1, <1>5, <1>6, Differ
<1>11. /\ Cardinality(Openers') \in Nat /\ Cardinality(Users') \in Nat
       /\ Cardinality(Writers') \in Nat /\ Cardinality(Closers') \in Nat
       /\ Cardinality(Grabbers') \in Nat
  BY <1>1, Counted
<1> QED
  BY <1>7, <1>8, <1>9, <1>10, <1>11 DEF One
-----------------------------------------------------------------------------
(* The invariant.                                                          *)

\* What a thread has while it is somewhere.
Local(t) ==
  LET p == pc[t] IN
  /\ p.at \in {"open", "grab"} => fd[t] = "no"
  /\ p.inner => fd[t] = "no" /\ p.at \in {"open", "grab", "io", "wrote", "vclose", "close"}
  /\ ~p.inner /\ p.at = "vclose" => fd[t] = p.mode
  /\ ~p.inner /\ p.at = "close" => fd[t] # "no"
  /\ p.at \in {"grab", "io", "wrote"} => p.got \in Containers
  /\ p.at = "answered" => p.got \in Versions
  /\ p.at \in {"vclose", "close"} => kind = "reg"

LocalInv == \A t \in Threads : Local(t)

\* The cnode, Venus and the threads count alike.  A device that was closed and a directory
\* leave them higher, never lower.
CountInv ==
  /\ (cnode.ovp = Null) <=> (cnode.ocount = 0)
  /\ cnode.ocount >= Cardinality(Openers) + Failures
  /\ cnode.owrite >= Cardinality(Writers) + failed["w"]
  /\ use = cnode.ocount + Cardinality(Closers)
  /\ venus.opens >= cnode.ocount + Cardinality(Closers) + Cardinality(Grabbers)
  /\ kind = "reg" /\ ~cnode.unmounting =>
       /\ cnode.ocount = Cardinality(Openers) + Failures
       /\ cnode.owrite = Cardinality(Writers) + failed["w"]

\* So does each container.
HeldInv ==
  \A c \in Containers :
    /\ c = cnode.ovp => /\ refs[c] >= Cardinality(Openers) + grabbed[c]
                        /\ opens[c] >= Cardinality(Users)
    /\ refs[c] >= grabbed[c]
    /\ kind = "reg" =>
         /\ refs[c] = grabbed[c] + (IF c = cnode.ovp THEN Cardinality(Openers) ELSE 0)
         /\ opens[c] = IF c = cnode.ovp THEN Cardinality(Users) ELSE 0

\* A file that is open, or about to be, has the container Venus has.
PlaceInv ==
  /\ cnode.ovp # Null => cnode.ovp = venus.file
  /\ \A t \in Threads : /\ At(t, "grab") => pc[t].got = venus.file
                        /\ At(t, "io") /\ Opener(t) => pc[t].got = venus.file /\ cnode.ovp # Null
                        /\ At(t, "io") /\ ~Opener(t) /\ "shared" \notin Env =>
                             grabbed[pc[t].got] > 0
  /\ ~panicked

Inv == TypeOK /\ LocalInv /\ CountInv /\ HeldInv /\ PlaceInv

Entries == [at : {"idle", "open", "grab", "io", "wrote", "vclose", "close",
                  "getattr", "answered", "setattr", "set"},
            mode : Modes, got : Containers \cup Versions \cup {Null}, inner : BOOLEAN]

Cnodes == [ovp : Containers \cup {Null}, ocount : Nat, owrite : Nat,
           inode : Containers \cup {Null}, vattr : Versions \cup {Null}, unmounting : BOOLEAN]

\* The sizes are numbers, and somebody in a set makes it not empty.
LEMMA Sizes ==
  /\ Cardinality(Openers) \in Nat /\ Cardinality(Users) \in Nat /\ Cardinality(Writers) \in Nat
  /\ Cardinality(Closers) \in Nat /\ Cardinality(Grabbers) \in Nat
  /\ \A t \in Threads : /\ Opener(t) => Cardinality(Openers) > 0
                        /\ Opener(t) /\ ~At(t, "vclose") => Cardinality(Users) > 0
                        /\ Writer(t) => Cardinality(Writers) > 0
                        /\ At(t, "close") => Cardinality(Closers) > 0
                        /\ At(t, "grab") => Cardinality(Grabbers) > 0
<1>1. /\ Openers \in SUBSET Threads /\ Users \in SUBSET Threads /\ Writers \in SUBSET Threads
      /\ Closers \in SUBSET Threads /\ Grabbers \in SUBSET Threads
  BY DEF Openers, Users, Writers, Closers, Grabbers
<1>2. \A t \in Threads : /\ Opener(t) => t \in Openers
                         /\ Opener(t) /\ ~At(t, "vclose") => t \in Users
                         /\ Writer(t) => t \in Writers
                         /\ At(t, "close") => t \in Closers
                         /\ At(t, "grab") => t \in Grabbers
  BY DEF Openers, Users, Writers, Closers, Grabbers
<1> QED
  BY <1>1, <1>2, Counted

\* Types without those of threads' sets.
LEMMA Numbers ==
  ASSUME TypeOK
  PROVE  /\ cnode.ocount \in Nat /\ cnode.owrite \in Nat /\ use \in Nat /\ venus.opens \in Nat
         /\ failed["r"] \in Nat /\ failed["w"] \in Nat /\ Failures \in Nat
         /\ refs \in [Containers -> Nat] /\ opens \in [Containers -> Nat]
         /\ \A c \in Containers : grabbed[c] \in Nat
         /\ cnode.unmounting \in BOOLEAN /\ cnode.ovp \in Containers \cup {Null}
         /\ Null \notin Containers /\ venus.file \in Containers
  BY FileAssumption DEF TypeOK, Failures, Modes

\* A step of t that opens and closes nothing.
LEMMA Quiet ==
  ASSUME Inv, NEW t \in Threads, Own(t), Local(t)',
         UNCHANGED <<kind, use, opens, venus, failed, panicked>>,
         UNCHANGED <<refs, grabbed>> \/ \E c \in Containers : Grabbed(c),
         cnode'.ovp = cnode.ovp, cnode'.ocount = cnode.ocount, cnode'.owrite = cnode.owrite,
         cnode'.unmounting = cnode.unmounting,
         Opener(t)' <=> Opener(t), Writer(t)' <=> Writer(t),
         ~At(t, "vclose"), ~At(t, "vclose")', ~At(t, "close"), ~At(t, "close")', ~At(t, "grab")',
         At(t, "io")' => /\ Opener(t) => pc'[t].got = venus.file /\ cnode.ovp # Null
                         /\ ~Opener(t) /\ "shared" \notin Env => grabbed'[pc'[t].got] > 0
  PROVE  LocalInv' /\ CountInv' /\ HeldInv' /\ PlaceInv'
<1>t. TypeOK /\ LocalInv /\ CountInv /\ HeldInv /\ PlaceInv
  BY DEF Inv
<1>1. /\ Cardinality(Openers') = Cardinality(Openers) /\ Cardinality(Users') = Cardinality(Users)
      /\ Cardinality(Writers') = Cardinality(Writers) /\ Cardinality(Closers') = Cardinality(Closers)
      /\ Cardinality(Grabbers') <= Cardinality(Grabbers) /\ Cardinality(Grabbers') \in Nat
  <2>1. /\ One(Opener(t)') = One(Opener(t)) /\ One(Writer(t)') = One(Writer(t))
        /\ One(At(t, "close")') = One(At(t, "close"))
        /\ One(Opener(t)' /\ ~At(t, "vclose")') = One(Opener(t) /\ ~At(t, "vclose"))
        /\ One(At(t, "grab")') = 0 /\ One(At(t, "grab")) \in {0, 1}
        /\ One(Opener(t)) \in {0, 1} /\ One(Writer(t)) \in {0, 1} /\ One(At(t, "close")) \in {0, 1}
        /\ One(Opener(t) /\ ~At(t, "vclose")) \in {0, 1}
    BY DEF One
  <2> QED
    BY <2>1, Stepped, Sizes
<1>2. LocalInv'
  BY <1>t DEF LocalInv, Local, Own
<1>3. Failures' = Failures
  BY DEF Failures
<1>4. CountInv'
  BY <1>1, <1>3, <1>t, Numbers, Sizes DEF CountInv
<1>5. /\ \A c \in Containers : refs'[c] - grabbed'[c] = refs[c] - grabbed[c]
      /\ \A c \in Containers : refs'[c] \in Nat /\ grabbed'[c] \in Nat /\ grabbed'[c] >= grabbed[c]
  <2>1. CASE UNCHANGED <<refs, grabbed>>
    BY <1>t, <2>1, Numbers
  <2>2. ASSUME NEW d \in Containers, Grabbed(d)
        PROVE  /\ \A c \in Containers : refs'[c] - grabbed'[c] = refs[c] - grabbed[c]
               /\ \A c \in Containers : refs'[c] \in Nat /\ grabbed'[c] \in Nat
                                        /\ grabbed'[c] >= grabbed[c]
    <3>1. grabbed \in [Containers -> Nat]
      BY <1>t DEF TypeOK
    <3> QED
      BY <1>t, <2>2, <3>1, Numbers DEF Grabbed
  <2> QED
    BY <2>1, <2>2
<1>6. HeldInv'
  BY <1>1, <1>5, <1>t, Numbers, Sizes DEF HeldInv
<1>7. PlaceInv'
  <2>1. ASSUME NEW u \in Threads \ {t}
        PROVE  /\ At(u, "grab")' => pc'[u].got = venus'.file
               /\ At(u, "io")' /\ Opener(u)' => pc'[u].got = venus'.file /\ cnode'.ovp # Null
               /\ At(u, "io")' /\ ~Opener(u)' /\ "shared" \notin Env => grabbed'[pc'[u].got] > 0
    <3>1. pc'[u] = pc[u] /\ fd'[u] = fd[u] /\ venus' = venus
      BY DEF Own
    <3>2. At(u, "io") => pc[u].got \in Containers
      BY <1>t DEF LocalInv, Local, At
    <3> QED
      BY <1>5, <1>t, <3>1, <3>2, Numbers DEF PlaceInv, At, Opener
  <2>2. venus' = venus /\ panicked' = panicked
    OBVIOUS
  <2> QED
    BY <1>t, <2>1, <2>2 DEF PlaceInv
<1> QED
  BY <1>2, <1>4, <1>6, <1>7

-----------------------------------------------------------------------------
(* Steps that open and close nothing.                                      *)

LEMMA Moved ==
  ASSUME TypeOK, NEW t \in Threads, NEW e \in Entries, pc' = [pc EXCEPT ![t] = e]
  PROVE  pc' \in [Threads -> Entries] /\ pc'[t] = e /\ \A u \in Threads \ {t} : pc'[u] = pc[u]
  BY DEF TypeOK, Entries

LEMMA Went ==
  ASSUME TypeOK, NEW t \in Threads, Go(t, "io") \/ Go(t, "wrote") \/ Go(t, "close")
           \/ Go(t, "getattr") \/ Go(t, "setattr") \/ Go(t, "set")
  PROVE  /\ pc' \in [Threads -> Entries] /\ \A u \in Threads \ {t} : pc'[u] = pc[u]
         /\ pc'[t].mode = pc[t].mode /\ pc'[t].got = pc[t].got /\ pc'[t].inner = pc[t].inner
         /\ \A s \in {"io", "wrote", "close", "getattr", "setattr", "set"} :
              Go(t, s) => pc'[t].at = s
<1>1. pc \in [Threads -> Entries]
  BY DEF TypeOK, Entries
<1>2. PICK s \in {"io", "wrote", "close", "getattr", "setattr", "set"} :
        pc' = [pc EXCEPT ![t].at = s]
  BY DEF Go
<1>3. /\ pc' \in [Threads -> Entries] /\ \A u \in Threads \ {t} : pc'[u] = pc[u]
      /\ pc'[t].mode = pc[t].mode /\ pc'[t].got = pc[t].got /\ pc'[t].inner = pc[t].inner
      /\ pc'[t].at = s
  BY <1>1, <1>2 DEF Entries
<1>4. \A r \in {"io", "wrote", "close", "getattr", "setattr", "set"} : Go(t, r) => pc'[t].at = r
  BY <1>1 DEF Go, Entries
<1> QED
  BY <1>3, <1>4

LEMMA Attributes ==
  ASSUME TypeOK, NEW v \in Versions \cup {Null}, cnode' = [cnode EXCEPT !.vattr = v]
  PROVE  /\ cnode' \in Cnodes
         /\ cnode'.ovp = cnode.ovp /\ cnode'.ocount = cnode.ocount
         /\ cnode'.owrite = cnode.owrite /\ cnode'.unmounting = cnode.unmounting
<1>1. cnode \in Cnodes
  BY DEF TypeOK, Cnodes
<1> QED
  BY <1>1 DEF Cnodes

LEMMA IdleEntry == Idle \in Entries /\ Idle.at = "idle" /\ ~Idle.inner
  BY DEF Idle, Entries, Modes

\* Who is nowhere and has no descriptor has nothing to do with the counts.
LEMMA StartsOpen ==
  ASSUME Inv, NEW t \in Threads, NEW m \in Modes, coda_open(t, m)
  PROVE  Inv'
<1>t. TypeOK /\ LocalInv
  BY DEF Inv
<1>1. /\ pc' = [pc EXCEPT ![t] = [at |-> "open", mode |-> m, got |-> Null, inner |-> FALSE]]
      /\ pc[t].at = "idle" /\ fd[t] = "no" /\ lock' = t
      /\ UNCHANGED <<kind, cnode, use, refs, opens, fd, venus, data, failed, grabbed, panicked>>
  BY DEF coda_open, Venus_open, At, Lock
<1>2. [at |-> "open", mode |-> m, got |-> Null, inner |-> FALSE] \in Entries
  BY DEF Entries
<1>3. /\ pc' \in [Threads -> Entries]
      /\ pc'[t].at = "open" /\ ~pc'[t].inner /\ \A u \in Threads \ {t} : pc'[u] = pc[u]
  BY <1>t, <1>1, <1>2, Moved
<1>4. Own(t) /\ Local(t)'
  BY <1>1, <1>3 DEF Own, Local
<1>5. ~Opener(t) /\ ~Opener(t)' /\ ~Writer(t) /\ ~Writer(t)'
  BY <1>1, <1>3, <1>t DEF Opener, Writer, LocalInv, Local
<1>6. TypeOK'
  BY <1>t, <1>1, <1>3 DEF TypeOK, Entries
<1>7. LocalInv' /\ CountInv' /\ HeldInv' /\ PlaceInv'
  BY <1>1, <1>3, <1>4, <1>5, Quiet DEF At
<1> QED
  BY <1>6, <1>7 DEF Inv

\* The container a read or a write goes to, or an open of its own.
LEMMA Acquires ==
  ASSUME Inv, NEW t \in Threads, NEW m \in Modes, NEW core, Acquire(t, m, core), Shared(t),
         pc[t].at = "idle", lock' \in Threads \cup {Null},
         UNCHANGED <<kind, cnode, use, opens, fd, venus, data, failed, panicked>>
  PROVE  Inv'
<1>t. TypeOK /\ LocalInv /\ CountInv /\ HeldInv /\ PlaceInv
  BY DEF Inv
<1>0. ~pc[t].inner /\ cnode.ovp \in Containers \cup {Null} /\ cnode.inode \in Containers \cup {Null}
  BY <1>t DEF LocalInv, Local, TypeOK
<1>a. Opener(t) => cnode.ovp # Null
  <2>1. Opener(t) => Cardinality(Openers) > 0
    BY Sizes
  <2> QED
    BY <1>t, <2>1, Sizes, Numbers DEF CountInv
<1>b. (Opener(t) <=> fd[t] # "no") /\ (Writer(t) <=> fd[t] = "w")
  BY <1>0, <1>t DEF Opener, Writer, TypeOK
<1>1. ASSUME NEW c \in Containers, Use(t, m, c), UNCHANGED <<refs, grabbed>> \/ Grabbed(c),
             Opener(t) => c = cnode.ovp,
             ~Opener(t) /\ "shared" \notin Env => grabbed'[c] > 0
      PROVE  Inv'
  <2>1. [at |-> "io", mode |-> m, got |-> c, inner |-> FALSE] \in Entries
    BY DEF Entries
  <2>2. /\ pc' \in [Threads -> Entries] /\ \A u \in Threads \ {t} : pc'[u] = pc[u]
        /\ pc'[t].at = "io" /\ pc'[t].got = c /\ ~pc'[t].inner
    BY <1>t, <1>1, <2>1, Moved DEF Use
  <2>3. Own(t) /\ Local(t)'
    BY <2>2 DEF Own, Local
  <2>4. (Opener(t)' <=> Opener(t)) /\ (Writer(t)' <=> Writer(t))
    BY <1>b, <2>2 DEF Opener, Writer
  <2>5. Opener(t) => c = venus.file /\ cnode.ovp # Null
    BY <1>1, <1>a, <1>t DEF PlaceInv
  <2>6. LocalInv' /\ CountInv' /\ HeldInv' /\ PlaceInv'
    BY <1>1, <2>2, <2>3, <2>4, <2>5, Quiet DEF At
  <2>7. refs' \in [Containers -> Nat] /\ grabbed' \in [Containers -> 0..MaxGrabs]
    BY <1>1, <1>t, FileAssumption DEF TypeOK, Grabbed
  <2>8. TypeOK'
    BY <1>t, <2>2, <2>7 DEF TypeOK, Entries
  <2> QED
    BY <2>6, <2>8 DEF Inv
<1>2. ASSUME cnode.ovp = Null, Venus_open(t, m, TRUE), UNCHANGED <<refs, grabbed>>
      PROVE  Inv'
  <2>1. [at |-> "open", mode |-> m, got |-> Null, inner |-> TRUE] \in Entries
    BY DEF Entries
  <2>2. /\ pc' \in [Threads -> Entries] /\ \A u \in Threads \ {t} : pc'[u] = pc[u]
        /\ pc'[t].at = "open" /\ pc'[t].inner
    BY <1>t, <1>2, <2>1, Moved DEF Venus_open
  <2>3. ~Opener(t) /\ fd[t] = "no"
    BY <1>2, <1>a, <1>b
  <2>4. Own(t) /\ Local(t)' /\ ~Opener(t)' /\ ~Writer(t) /\ ~Writer(t)'
    BY <2>2, <2>3 DEF Own, Local, Opener, Writer
  <2>5. LocalInv' /\ CountInv' /\ HeldInv' /\ PlaceInv'
    BY <1>2, <2>2, <2>3, <2>4, Quiet DEF At
  <2>6. TypeOK'
    BY <1>2, <1>t, <2>2 DEF TypeOK, Entries
  <2> QED
    BY <2>5, <2>6 DEF Inv
<1>3. CASE cnode.ovp # Null /\ Use(t, m, cnode.ovp) /\ UNCHANGED <<refs, grabbed>>
  <2>1. ~Opener(t) => "shared" \in Env
    BY <1>3, <1>b DEF Shared
  <2> QED
    BY <1>0, <1>1, <1>3, <2>1
<1>4. CASE cnode.ovp = Null /\ cnode.inode # Null /\ Use(t, m, cnode.inode) /\ Grabbed(cnode.inode)
  <2>1. PICK c \in Containers : c = cnode.inode
    BY <1>0, <1>4
  <2>2. grabbed'[c] > 0
    BY <1>4, <1>t, <2>1, FileAssumption DEF Grabbed, TypeOK
  <2> QED
    BY <1>a, <1>1, <1>4, <2>1, <2>2
<1> QED
  BY <1>2, <1>3, <1>4 DEF Acquire

LEMMA StartsUse ==
  ASSUME Inv, NEW t \in Threads,
         coda_pagein(t) \/ coda_readdir(t) \/ \E m \in Modes : coda_rdwr(t, m)
  PROVE  Inv'
<1>t. lock \in Threads \cup {Null}
  BY DEF Inv, TypeOK
<1>1. CASE coda_pagein(t)
  <2>1. "r" \in Modes
    BY DEF Modes
  <2> QED
    BY <1>1, <1>t, <2>1, Acquires DEF coda_pagein, At
<1>2. CASE coda_readdir(t)
  <2>1. "r" \in Modes
    BY DEF Modes
  <2> QED
    BY <1>2, <2>1, Acquires DEF coda_readdir, At, Lock
<1>3. ASSUME NEW m \in Modes, coda_rdwr(t, m) PROVE Inv'
  <2>1. PICK core : core = (m = "w")
    OBVIOUS
  <2> QED
    BY <1>3, <2>1, Acquires DEF coda_rdwr, At, Lock
<1> QED
  BY <1>1, <1>2, <1>3

\* The thread is idle again, or goes on with attributes or a write.
LEMMA Ends ==
  ASSUME Inv, NEW t \in Threads,
         OpenFails(t) \/ RdwrDone(t) \/ GetattrDone(t) \/ SetattrDone(t)
  PROVE  Inv'
<1>t. TypeOK /\ LocalInv /\ PlaceInv
  BY DEF Inv
<1>1. /\ pc' = [pc EXCEPT ![t] = Idle]
      /\ UNCHANGED <<kind, use, refs, opens, fd, venus, data, failed, grabbed, panicked>>
      /\ lock' \in {lock, Null}
  BY DEF OpenFails, RdwrDone, GetattrDone, SetattrDone, Unlocked
<1>2. /\ pc' \in [Threads -> Entries] /\ pc'[t].at = "idle" /\ ~pc'[t].inner
      /\ \A u \in Threads \ {t} : pc'[u] = pc[u]
  BY <1>t, <1>1, Moved, IdleEntry
<1>3. Own(t) /\ Local(t)'
  BY <1>1, <1>2 DEF Own, Local
<1>4. /\ pc[t].at \in {"open", "grab", "io", "wrote", "getattr", "answered", "setattr", "set"}
      /\ pc[t].inner => pc[t].at \in {"open", "grab"} /\ fd[t] = "no"
  BY <1>t DEF OpenFails, RdwrDone, GetattrDone, SetattrDone, At, LocalInv, Local
<1>5. (Opener(t)' <=> Opener(t)) /\ (Writer(t)' <=> Writer(t))
  BY <1>1, <1>2, <1>4 DEF Opener, Writer
<1>6. cnode' = cnode \/ \E v \in Versions \cup {Null} : cnode' = [cnode EXCEPT !.vattr = v]
  <2>1. CASE GetattrDone(t)
    <3>1. At(t, "answered") => pc[t].got \in Versions
      BY <1>t DEF LocalInv, Local, At
    <3> QED
      BY <2>1, <3>1 DEF GetattrDone, Kept
  <2>2. CASE OpenFails(t) \/ RdwrDone(t) \/ SetattrDone(t)
    BY <2>2 DEF OpenFails, RdwrDone, SetattrDone
  <2> QED
    BY <2>1, <2>2
<1>7. /\ cnode' \in Cnodes
      /\ cnode'.ovp = cnode.ovp /\ cnode'.ocount = cnode.ocount
      /\ cnode'.owrite = cnode.owrite /\ cnode'.unmounting = cnode.unmounting
  <2>1. cnode \in Cnodes
    BY <1>t DEF TypeOK, Cnodes
  <2> QED
    BY <1>t, <1>6, <2>1, Attributes
<1>8. TypeOK'
  BY <1>t, <1>1, <1>2, <1>7 DEF TypeOK, Entries, Cnodes
<1>9. LocalInv' /\ CountInv' /\ HeldInv' /\ PlaceInv'
  BY <1>1, <1>2, <1>3, <1>4, <1>5, <1>7, Quiet DEF At
<1> QED
  BY <1>8, <1>9 DEF Inv

LEMMA GoesOn ==
  ASSUME Inv, NEW t \in Threads,
         Write(t) \/ coda_getattr(t) \/ GetattrAnswer(t) \/ coda_setattr(t) \/ SetattrAnswer(t)
  PROVE  Inv'
<1>t. TypeOK /\ LocalInv /\ PlaceInv
  BY DEF Inv
<1>1. UNCHANGED <<kind, cnode, use, refs, opens, fd, venus, failed, grabbed, panicked>>
  BY DEF Write, coda_getattr, GetattrAnswer, coda_setattr, SetattrAnswer
<1>2. lock' \in {lock, t}
  BY DEF Write, coda_getattr, GetattrAnswer, coda_setattr, SetattrAnswer, Lock
<1>d. data' \in [Containers -> Versions]
  <2>1. CASE Write(t)
    <3>1. PICK v \in Versions : data' = [data EXCEPT ![pc[t].got] = v]
      BY <2>1 DEF Write
    <3> QED
      BY <1>t, <3>1 DEF TypeOK
  <2>2. CASE SetattrAnswer(t)
    <3>1. data' = [data EXCEPT ![venus.file] = @ + 1] /\ data[venus.file] < MaxVersion
      BY <2>2 DEF SetattrAnswer
    <3>2. venus.file \in Containers /\ data \in [Containers -> Versions]
      BY <1>t DEF TypeOK
    <3>3. data[venus.file] + 1 \in Versions
      BY <3>1, <3>2, FileAssumption DEF Versions
    <3> QED
      BY <3>1, <3>2, <3>3
  <2>3. CASE coda_getattr(t) \/ GetattrAnswer(t) \/ coda_setattr(t)
    BY <1>t, <2>3 DEF coda_getattr, GetattrAnswer, coda_setattr, TypeOK
  <2> QED
    BY <2>1, <2>2, <2>3
<1>3. /\ pc[t].at \in {"idle", "io", "getattr", "setattr"}
      /\ pc[t].inner => pc[t].at = "io"
      /\ pc[t].at = "io" => pc[t].got \in Containers
  BY <1>t DEF Write, coda_getattr, GetattrAnswer, coda_setattr, SetattrAnswer, At, LocalInv, Local
<1>4. /\ pc' \in [Threads -> Entries] /\ \A u \in Threads \ {t} : pc'[u] = pc[u]
      /\ pc'[t].at \in {"wrote", "getattr", "answered", "setattr", "set"}
      /\ pc'[t].inner = pc[t].inner /\ pc'[t].mode = pc[t].mode
      /\ pc'[t].at = "wrote" <=> pc[t].at = "io"
      /\ pc'[t].at = "wrote" => pc'[t].got = pc[t].got
      /\ pc'[t].at = "answered" => pc'[t].got \in Versions
  <2>1. CASE GetattrAnswer(t)
    <3>1. pc \in [Threads -> Entries] /\ data[venus.file] \in Versions
      BY <1>t DEF TypeOK, Entries
    <3>2. PICK v \in Versions : v = data[venus.file]
      BY <3>1
    <3>3. pc' = [pc EXCEPT ![t].at = "answered", ![t].got = v] /\ pc[t].at = "getattr"
      BY <2>1, <3>2 DEF GetattrAnswer, At
    <3> QED
      BY <3>1, <3>3 DEF Entries
  <2>2. CASE Write(t) \/ coda_getattr(t) \/ coda_setattr(t) \/ SetattrAnswer(t)
    <3>1. \/ Go(t, "wrote") /\ pc[t].at = "io"
          \/ Go(t, "getattr") /\ pc[t].at = "idle"
          \/ Go(t, "setattr") /\ pc[t].at = "idle"
          \/ Go(t, "set") /\ pc[t].at = "setattr"
      BY <2>2 DEF Write, coda_getattr, coda_setattr, SetattrAnswer, At
    <3> QED
      BY <1>t, <3>1, Went
  <2> QED
    BY <2>1, <2>2
<1>5. Own(t) /\ Local(t)'
  BY <1>t, <1>1, <1>3, <1>4 DEF Own, Local, LocalInv
<1>6. (Opener(t)' <=> Opener(t)) /\ (Writer(t)' <=> Writer(t))
  BY <1>1, <1>3, <1>4 DEF Opener, Writer
<1>7. TypeOK'
  BY <1>t, <1>1, <1>2, <1>d, <1>4 DEF TypeOK, Entries
<1>8. LocalInv' /\ CountInv' /\ HeldInv' /\ PlaceInv'
  BY <1>1, <1>3, <1>4, <1>5, <1>6, Quiet DEF At
<1> QED
  BY <1>7, <1>8 DEF Inv

-----------------------------------------------------------------------------
(* Opens.                                                                  *)

\* What the other threads have stays, when venus.file and a container in use do.
LEMMA OthersPlace ==
  ASSUME Inv, NEW t \in Threads, Own(t), venus'.file = venus.file,
         \A c \in Containers : grabbed'[c] = grabbed[c],
         NEW u \in Threads \ {t},
         At(u, "io") /\ Opener(u) => cnode'.ovp # Null
  PROVE  /\ At(u, "grab")' => pc'[u].got = venus'.file
         /\ At(u, "io")' /\ Opener(u)' => pc'[u].got = venus'.file /\ cnode'.ovp # Null
         /\ At(u, "io")' /\ ~Opener(u)' /\ "shared" \notin Env => grabbed'[pc'[u].got] > 0
<1>1. pc'[u] = pc[u] /\ fd'[u] = fd[u]
  BY DEF Own
<1>2. At(u, "io") => pc[u].got \in Containers
  BY DEF Inv, LocalInv, Local, At
<1> QED
  BY <1>1, <1>2 DEF Inv, PlaceInv, At, Opener

LEMMA Answers ==
  ASSUME Inv, NEW t \in Threads, OpenAnswer(t)
  PROVE  Inv'
<1>t. TypeOK /\ LocalInv /\ CountInv /\ HeldInv /\ PlaceInv
  BY DEF Inv
<1>1. /\ pc[t].at = "open" /\ venus.opens < MaxOpens
      /\ pc' = [pc EXCEPT ![t].at = "grab", ![t].got = venus.file]
      /\ venus' = [venus EXCEPT !.opens = @ + 1]
      /\ UNCHANGED <<kind, lock, cnode, use, refs, opens, fd, data, failed, grabbed, panicked>>
  BY DEF OpenAnswer, At
<1>2. venus' \in [file : Containers, opens : 0..MaxOpens] /\ venus'.file = venus.file
      /\ venus'.opens = venus.opens + 1
  BY <1>t, <1>1, FileAssumption DEF TypeOK
<1>3. /\ pc' \in [Threads -> Entries] /\ \A u \in Threads \ {t} : pc'[u] = pc[u]
      /\ pc'[t].at = "grab" /\ pc'[t].got = venus.file /\ pc'[t].inner = pc[t].inner
  <2>1. PICK c \in Containers : c = venus.file
    BY <1>t DEF TypeOK
  <2>2. pc \in [Threads -> Entries] /\ pc' = [pc EXCEPT ![t].at = "grab", ![t].got = c]
    BY <1>t, <1>1, <2>1 DEF TypeOK, Entries
  <2> QED
    BY <2>1, <2>2 DEF Entries
<1>4. TypeOK'
  BY <1>t, <1>1, <1>2, <1>3 DEF TypeOK, Entries
<1>5. Own(t) /\ Local(t)' /\ fd[t] = "no"
  BY <1>t, <1>1, <1>3, Numbers DEF Own, Local, LocalInv
<1>6. ~Opener(t) /\ ~Opener(t)' /\ ~Writer(t) /\ ~Writer(t)'
  BY <1>1, <1>3, <1>5 DEF Opener, Writer
<1>7. LocalInv'
  BY <1>t, <1>1, <1>5 DEF LocalInv, Local, Own
<1>8. /\ Cardinality(Openers') = Cardinality(Openers) /\ Cardinality(Users') = Cardinality(Users)
      /\ Cardinality(Writers') = Cardinality(Writers) /\ Cardinality(Closers') = Cardinality(Closers)
      /\ Cardinality(Grabbers') = Cardinality(Grabbers) + 1
  <2>1. ~At(t, "close") /\ ~At(t, "close")' /\ ~At(t, "grab") /\ At(t, "grab")'
    BY <1>1, <1>3 DEF At
  <2> QED
    BY <1>5, <1>6, <2>1, Stepped, Sizes DEF One
<1>9. Failures' = Failures
  BY <1>1 DEF Failures
<1>10. CountInv'
  BY <1>1, <1>2, <1>8, <1>9, <1>t, Numbers, Sizes DEF CountInv
<1>11. HeldInv'
  BY <1>1, <1>8, <1>t DEF HeldInv
<1>12. PlaceInv'
  <2>1. \A u \in Threads \ {t} :
          /\ At(u, "grab")' => pc'[u].got = venus'.file
          /\ At(u, "io")' /\ Opener(u)' => pc'[u].got = venus'.file /\ cnode'.ovp # Null
          /\ At(u, "io")' /\ ~Opener(u)' /\ "shared" \notin Env => grabbed'[pc'[u].got] > 0
    BY <1>1, <1>2, <1>5, <1>t, OthersPlace DEF PlaceInv
  <2> QED
    BY <1>1, <1>2, <1>3, <1>t, <2>1 DEF PlaceInv, At
<1> QED
  BY <1>4, <1>7, <1>10, <1>11, <1>12 DEF Inv

\* The container of an answer is the one the file has, if it has one.
LEMMA Opening ==
  ASSUME Inv, NEW t \in Threads, At(t, "grab"), NEW c, c = pc[t].got, NEW m, m = pc[t].mode,
         cnode' = Opened(c, m), panicked' = (panicked \/ cnode.ovp \notin {Null, c})
  PROVE  /\ c \in Containers /\ c = venus.file /\ m \in Modes
         /\ cnode' \in Cnodes /\ cnode'.ovp = c /\ ~panicked'
         /\ cnode'.ocount = cnode.ocount + 1 /\ cnode'.unmounting = cnode.unmounting
         /\ cnode'.owrite = cnode.owrite + One(m = "w")
         /\ fd[t] = "no" /\ pc[t].inner \in BOOLEAN /\ pc[t].at = "grab"
<1>1. c \in Containers /\ fd[t] = "no" /\ pc[t].at = "grab"
  BY DEF Inv, LocalInv, Local, At
<1>2. c = venus.file /\ cnode.ovp \in {Null, c} /\ ~panicked
  BY DEF Inv, PlaceInv
<1>3. cnode \in Cnodes /\ m \in Modes /\ pc[t].inner \in BOOLEAN
  BY DEF Inv, TypeOK, Cnodes
<1>4. cnode' \in Cnodes /\ cnode'.ovp = c /\ cnode'.ocount = cnode.ocount + 1
      /\ cnode'.unmounting = cnode.unmounting /\ cnode'.owrite = cnode.owrite + One(m = "w")
  <2>1. PICK o \in Nat : o = cnode.ocount + 1
    BY <1>3 DEF Cnodes
  <2>2. PICK w \in Nat : w = cnode.owrite + One(m = "w")
    BY <1>3 DEF Cnodes, One
  <2>3. PICK v \in Versions \cup {Null} : v = IF m = "w" THEN Null ELSE cnode.vattr
    BY <1>3 DEF Cnodes
  <2>4. cnode' = [cnode EXCEPT !.ovp = c, !.ocount = o, !.inode = c, !.owrite = w, !.vattr = v]
    <3>1. (IF cnode.ovp = Null THEN c ELSE cnode.ovp) = c
      BY <1>2
    <3>2. (IF m = "w" THEN cnode.owrite + 1 ELSE cnode.owrite) = w
      BY <1>3, <2>2 DEF One, Cnodes
    <3> QED
      BY <1>3, <2>1, <2>3, <3>1, <3>2 DEF Opened, Cnodes
  <2> QED
    BY <1>1, <1>3, <2>1, <2>2, <2>4 DEF Cnodes
<1> QED
  BY <1>1, <1>2, <1>3, <1>4

LEMMA Open ==
  ASSUME Inv, NEW t \in Threads, OpenDone(t)
  PROVE  Inv'
<1>t. TypeOK /\ LocalInv /\ CountInv /\ HeldInv /\ PlaceInv
  BY DEF Inv
<1>0. PICK c, m : c = pc[t].got /\ m = pc[t].mode
  OBVIOUS
<1>1. /\ At(t, "grab") /\ use < MaxOpens /\ cnode' = Opened(c, m) /\ use' = use + 1
      /\ panicked' = (panicked \/ cnode.ovp \notin {Null, c})
      /\ refs' = [refs EXCEPT ![c] = @ + 1] /\ opens' = [opens EXCEPT ![c] = @ + 1]
      /\ UNCHANGED <<kind, venus, data, failed, grabbed>>
  BY <1>0 DEF OpenDone
<1>2. /\ c \in Containers /\ c = venus.file /\ m \in Modes
      /\ cnode' \in Cnodes /\ cnode'.ovp = c /\ ~panicked'
      /\ cnode'.ocount = cnode.ocount + 1 /\ cnode'.unmounting = cnode.unmounting
      /\ cnode'.owrite = cnode.owrite + One(m = "w")
      /\ fd[t] = "no" /\ pc[t].inner \in BOOLEAN /\ pc[t].at = "grab"
  BY <1>0, <1>1, Opening
<1>3. /\ pc' \in [Threads -> Entries] /\ fd' \in [Threads -> Modes \cup {"no"}]
      /\ lock' \in Threads \cup {Null}
      /\ \A u \in Threads \ {t} : pc'[u] = pc[u] /\ fd'[u] = fd[u]
      /\ \/ pc'[t].at = "io" /\ pc'[t].inner /\ pc'[t].mode = m /\ pc'[t].got = c /\ fd'[t] = "no"
         \/ pc'[t].at = "idle" /\ ~pc'[t].inner /\ fd'[t] = m
  <2>1. CASE pc[t].inner
    <3>1. Go(t, "io") /\ UNCHANGED <<fd, lock>>
      BY <2>1 DEF OpenDone
    <3> QED
      BY <1>0, <1>2, <1>t, <2>1, <3>1, Went DEF TypeOK
  <2>2. CASE ~pc[t].inner
    <3>1. pc' = [pc EXCEPT ![t] = Idle] /\ fd' = [fd EXCEPT ![t] = m] /\ lock' = Unlocked(t)
      BY <1>0, <2>2 DEF OpenDone
    <3>2. lock' \in Threads \cup {Null} /\ fd' \in [Threads -> Modes \cup {"no"}] /\ fd'[t] = m
          /\ \A u \in Threads \ {t} : fd'[u] = fd[u]
      BY <1>2, <1>t, <3>1 DEF Unlocked, TypeOK
    <3> QED
      BY <1>t, <3>1, <3>2, Moved, IdleEntry
  <2> QED
    BY <1>2, <2>1, <2>2
<1>4. refs' \in [Containers -> Nat] /\ opens' \in [Containers -> Nat] /\ use' \in 0..MaxOpens
  <2>1. refs' \in [Containers -> Nat] /\ opens' \in [Containers -> Nat]
    BY <1>1, <1>2, <1>t, Numbers
  <2>2. use' \in 0..MaxOpens
    BY <1>1, <1>t, Numbers, FileAssumption
  <2> QED
    BY <2>1, <2>2
<1>5. TypeOK'
  BY <1>1, <1>2, <1>3, <1>4, <1>t DEF TypeOK, Entries, Cnodes
<1>6. Own(t) /\ Local(t)'
  BY <1>2, <1>3 DEF Own, Local, Modes
<1>7. LocalInv'
  BY <1>t, <1>1, <1>6 DEF LocalInv, Local, Own
<1>8. /\ ~Opener(t) /\ Opener(t)' /\ ~Writer(t) /\ (Writer(t)' <=> m = "w")
      /\ ~At(t, "vclose")' /\ ~At(t, "close")' /\ ~At(t, "grab")' /\ ~At(t, "close")
  BY <1>2, <1>3 DEF Opener, Writer, At, Modes
<1>9. /\ Cardinality(Openers') = Cardinality(Openers) + 1
      /\ Cardinality(Users') = Cardinality(Users) + 1
      /\ Cardinality(Writers') = Cardinality(Writers) + One(m = "w")
      /\ Cardinality(Closers') = Cardinality(Closers)
      /\ Cardinality(Grabbers') = Cardinality(Grabbers) - 1
  BY <1>1, <1>6, <1>8, Stepped, Sizes DEF One
<1>10. Failures' = Failures
  BY <1>1 DEF Failures
<1>11. CountInv'
  <2>1. One(m = "w") \in Nat
    BY DEF One
  <2>2. cnode'.ovp # Null /\ cnode'.ocount # 0
    BY <1>2, <1>t, Numbers
  <2> QED
    BY <1>1, <1>2, <1>9, <1>10, <1>t, <2>1, <2>2, Numbers, Sizes DEF CountInv
<1>12. HeldInv'
  <2>1. cnode.ovp \in {Null, c} /\ (cnode.ovp = Null => Cardinality(Openers) = 0)
    BY <1>2, <1>t, Numbers, Sizes DEF PlaceInv, CountInv
  <2>2. Cardinality(Users) <= Cardinality(Openers)
    <3>1. Users \subseteq Openers /\ Openers \subseteq Threads
      BY DEF Users, Openers
    <3> QED
      BY <3>1, FileAssumption, FS_Subset
  <2>3. \A d \in Containers : refs'[d] = refs[d] + One(d = c) /\ opens'[d] = opens[d] + One(d = c)
    BY <1>1, <1>2, <1>t, Numbers DEF One
  <2>4. /\ refs[c] >= Cardinality(Openers) + grabbed[c] /\ opens[c] >= Cardinality(Users)
        /\ kind = "reg" => /\ refs[c] = Cardinality(Openers) + grabbed[c]
                           /\ opens[c] = Cardinality(Users)
    BY <1>2, <1>t, <2>1, <2>2, Numbers, Sizes DEF HeldInv
  <2> QED
    BY <1>1, <1>2, <1>9, <1>t, <2>1, <2>3, <2>4, Numbers, Sizes DEF HeldInv, One
<1>13. PlaceInv'
  <2>1. \A u \in Threads \ {t} :
          /\ At(u, "grab")' => pc'[u].got = venus'.file
          /\ At(u, "io")' /\ Opener(u)' => pc'[u].got = venus'.file /\ cnode'.ovp # Null
          /\ At(u, "io")' /\ ~Opener(u)' /\ "shared" \notin Env => grabbed'[pc'[u].got] > 0
    BY <1>1, <1>2, <1>6, <1>t, Numbers, OthersPlace
  <2> QED
    BY <1>1, <1>2, <1>3, <1>8, <1>t, <2>1, Numbers DEF PlaceInv, At
<1> QED
  BY <1>5, <1>7, <1>11, <1>12, <1>13 DEF Inv

LEMMA UsersAreOpeners == Cardinality(Users) <= Cardinality(Openers)
<1>1. Users \subseteq Openers /\ Openers \subseteq Threads
  BY DEF Users, Openers
<1> QED
  BY <1>1, FileAssumption, FS_Subset

LEMMA OpenFailsLate ==
  ASSUME Inv, NEW t \in Threads, OpenContainerFails(t)
  PROVE  Inv'
<1>t. TypeOK /\ LocalInv /\ CountInv /\ HeldInv /\ PlaceInv
  BY DEF Inv
<1>0. PICK c, m : c = pc[t].got /\ m = pc[t].mode
  OBVIOUS
<1>1. /\ At(t, "grab") /\ use < MaxOpens /\ cnode' = Opened(c, m) /\ use' = use + 1
      /\ panicked' = (panicked \/ cnode.ovp \notin {Null, c})
      /\ failed[m] < MaxFailed /\ failed' = [failed EXCEPT ![m] = @ + 1]
      /\ pc' = [pc EXCEPT ![t] = Idle] /\ lock' = Unlocked(t)
      /\ UNCHANGED <<kind, refs, opens, fd, venus, data, grabbed>>
  BY <1>0 DEF OpenContainerFails
<1>2. /\ c \in Containers /\ c = venus.file /\ m \in Modes
      /\ cnode' \in Cnodes /\ cnode'.ovp = c /\ ~panicked'
      /\ cnode'.ocount = cnode.ocount + 1 /\ cnode'.unmounting = cnode.unmounting
      /\ cnode'.owrite = cnode.owrite + One(m = "w")
      /\ fd[t] = "no" /\ pc[t].inner \in BOOLEAN /\ pc[t].at = "grab"
  BY <1>0, <1>1, Opening
<1>3. /\ pc' \in [Threads -> Entries] /\ pc'[t].at = "idle" /\ ~pc'[t].inner
      /\ \A u \in Threads \ {t} : pc'[u] = pc[u]
  BY <1>t, <1>1, Moved, IdleEntry
<1>4. /\ failed' \in [Modes -> 0..MaxFailed]
      /\ failed'["w"] = failed["w"] + One(m = "w") /\ Failures' = Failures + 1
  <2>1. failed \in [Modes -> 0..MaxFailed] /\ MaxFailed \in Nat /\ failed[m] + 1 \in 0..MaxFailed
    BY <1>1, <1>2, <1>t, FileAssumption DEF TypeOK
  <2>2. failed' \in [Modes -> 0..MaxFailed]
    BY <1>1, <2>1
  <2>3. m = "r" \/ m = "w"
    BY <1>2 DEF Modes
  <2> QED
    BY <1>1, <1>t, <2>1, <2>2, <2>3, Numbers DEF Failures, One, Modes
<1>5. TypeOK'
  <2>1. use' \in 0..MaxOpens
    BY <1>1, <1>t, Numbers, FileAssumption
  <2>2. lock' \in Threads \cup {Null}
    BY <1>1, <1>t DEF Unlocked, TypeOK
  <2> QED
    BY <1>1, <1>2, <1>3, <1>4, <1>t, <2>1, <2>2 DEF TypeOK, Entries, Cnodes
<1>6. Own(t) /\ Local(t)'
  BY <1>1, <1>3 DEF Own, Local
<1>7. LocalInv'
  BY <1>t, <1>1, <1>6 DEF LocalInv, Local, Own
<1>8. /\ ~Opener(t) /\ ~Opener(t)' /\ ~Writer(t) /\ ~Writer(t)'
      /\ ~At(t, "close")' /\ ~At(t, "grab")' /\ ~At(t, "close")
  BY <1>1, <1>2, <1>3 DEF Opener, Writer, At
<1>9. /\ Cardinality(Openers') = Cardinality(Openers) /\ Cardinality(Users') = Cardinality(Users)
      /\ Cardinality(Writers') = Cardinality(Writers) /\ Cardinality(Closers') = Cardinality(Closers)
      /\ Cardinality(Grabbers') = Cardinality(Grabbers) - 1
  BY <1>1, <1>6, <1>8, Stepped, Sizes DEF One
<1>10. CountInv'
  <2>1. One(m = "w") \in Nat
    BY DEF One
  <2>2. cnode'.ovp # Null /\ cnode'.ocount # 0
    BY <1>2, <1>t, Numbers
  <2> QED
    BY <1>1, <1>2, <1>4, <1>9, <1>t, <2>1, <2>2, Numbers, Sizes DEF CountInv
<1>11. HeldInv'
  <2>1. /\ cnode.ovp \in {Null, c}
        /\ cnode.ovp = Null => Cardinality(Openers) = 0 /\ Cardinality(Users) = 0
    BY <1>2, <1>t, Numbers, Sizes, UsersAreOpeners DEF PlaceInv, CountInv
  <2> QED
    BY <1>1, <1>2, <1>9, <1>t, <2>1, Numbers, Sizes DEF HeldInv
<1>12. PlaceInv'
  <2>1. \A u \in Threads \ {t} :
          /\ At(u, "grab")' => pc'[u].got = venus'.file
          /\ At(u, "io")' /\ Opener(u)' => pc'[u].got = venus'.file /\ cnode'.ovp # Null
          /\ At(u, "io")' /\ ~Opener(u)' /\ "shared" \notin Env => grabbed'[pc'[u].got] > 0
    BY <1>1, <1>2, <1>6, <1>t, Numbers, OthersPlace
  <2> QED
    BY <1>1, <1>2, <1>3, <1>t, <2>1 DEF PlaceInv, At
<1> QED
  BY <1>5, <1>7, <1>10, <1>11, <1>12 DEF Inv

-----------------------------------------------------------------------------
(* Closes.                                                                 *)

\* Who closes has the file open.
LEMMA Closes ==
  ASSUME Inv, NEW t \in Threads, Prompt(t), Closing(t)
  PROVE  /\ Opener(t) /\ ~At(t, "vclose") /\ ~At(t, "close") /\ ~At(t, "grab")
         /\ pc[t].at \in {"idle", "io", "wrote"} /\ pc[t].inner \in BOOLEAN
         /\ pc[t].inner => fd[t] = "no" /\ pc[t].at # "idle"
         /\ ~pc[t].inner => fd[t] \in Modes /\ pc[t].at = "idle"
         /\ cnode.ovp \in Containers /\ cnode.ovp = venus.file
         /\ cnode.ocount > 0 /\ Cardinality(Openers) > 0 /\ Cardinality(Users) > 0
<1>t. TypeOK /\ LocalInv /\ CountInv /\ PlaceInv
  BY DEF Inv
<1>1. /\ pc[t].at \in {"idle", "io", "wrote"} /\ pc[t].inner \in BOOLEAN
      /\ pc[t].inner => fd[t] = "no" /\ pc[t].at # "idle"
      /\ ~pc[t].inner => fd[t] \in Modes /\ pc[t].at = "idle"
  BY <1>t DEF TypeOK, Closing, At, LocalInv, Local, Modes
<1>2. Opener(t) /\ ~At(t, "vclose") /\ ~At(t, "close") /\ ~At(t, "grab")
  BY <1>1 DEF Opener, At, Modes
<1>3. Cardinality(Openers) > 0 /\ Cardinality(Users) > 0
  BY <1>2, Sizes
<1>4. cnode.ocount > 0
  BY <1>t, <1>3, Numbers, Sizes DEF CountInv
<1>5. cnode.ovp \in Containers /\ cnode.ovp = venus.file
  BY <1>t, <1>4, Numbers DEF CountInv, PlaceInv
<1> QED
  BY <1>1, <1>2, <1>3, <1>4, <1>5

LEMMA Returned ==
  ASSUME TypeOK, NEW t \in Threads, Returns(t)
  PROVE  /\ pc' \in [Threads -> Entries] /\ pc'[t].at = "idle" /\ ~pc'[t].inner
         /\ fd' \in [Threads -> Modes \cup {"no"}] /\ lock' \in Threads \cup {Null}
         /\ fd'[t] = IF pc[t].inner THEN fd[t] ELSE "no"
         /\ \A u \in Threads \ {t} : pc'[u] = pc[u] /\ fd'[u] = fd[u]
<1>1. pc' = [pc EXCEPT ![t] = Idle]
  BY DEF Returns
<1>2. /\ pc' \in [Threads -> Entries] /\ pc'[t].at = "idle" /\ ~pc'[t].inner
      /\ \A u \in Threads \ {t} : pc'[u] = pc[u]
  BY <1>1, Moved, IdleEntry
<1>3. /\ fd' \in [Threads -> Modes \cup {"no"}] /\ lock' \in Threads \cup {Null}
      /\ fd'[t] = IF pc[t].inner THEN fd[t] ELSE "no"
      /\ \A u \in Threads \ {t} : fd'[u] = fd[u]
  BY DEF Returns, Unlocked, TypeOK
<1> QED
  BY <1>2, <1>3

\* coda_close returns at once: of a directory, or with the device closed.
LEMMA ClosesAtOnce ==
  ASSUME Inv, NEW t \in Threads, CloseDirectory(t) \/ CloseUnmounting(t)
  PROVE  Inv'
<1>t. TypeOK /\ LocalInv /\ CountInv /\ HeldInv /\ PlaceInv
  BY DEF Inv
<1>1. /\ Prompt(t) /\ Closing(t) /\ Returns(t)
      /\ UNCHANGED <<kind, use, venus, data, failed, grabbed, panicked>>
      /\ \/ kind = "dir" /\ UNCHANGED <<cnode, refs, opens>>
         \/ /\ kind = "reg" /\ cnode.unmounting /\ cnode' = Flushed(t)
            /\ opens' = [opens EXCEPT ![cnode.ovp] = @ - 1] /\ refs' = Released(cnode.ovp)
  BY DEF CloseDirectory, CloseUnmounting
<1>2. /\ Opener(t) /\ ~At(t, "vclose") /\ ~At(t, "close") /\ ~At(t, "grab")
      /\ pc[t].inner \in BOOLEAN /\ cnode.ovp \in Containers /\ cnode.ovp = venus.file
      /\ pc[t].inner => fd[t] = "no"
      /\ Cardinality(Openers) > 0 /\ Cardinality(Users) > 0
  BY <1>1, Closes
<1>3. /\ pc' \in [Threads -> Entries] /\ pc'[t].at = "idle" /\ ~pc'[t].inner
      /\ fd' \in [Threads -> Modes \cup {"no"}] /\ lock' \in Threads \cup {Null}
      /\ fd'[t] = "no"
      /\ \A u \in Threads \ {t} : pc'[u] = pc[u] /\ fd'[u] = fd[u]
  BY <1>1, <1>2, <1>t, Returned
<1>4. /\ cnode' \in Cnodes
      /\ cnode'.ovp = cnode.ovp /\ cnode'.ocount = cnode.ocount
      /\ cnode'.owrite = cnode.owrite /\ cnode'.unmounting = cnode.unmounting
  <2>1. cnode \in Cnodes
    BY <1>t DEF TypeOK, Cnodes
  <2>2. cnode' = cnode \/ \E v \in Versions \cup {Null} : cnode' = [cnode EXCEPT !.vattr = v]
    BY <1>1 DEF Flushed
  <2> QED
    BY <1>t, <2>1, <2>2, Attributes
<1>5. refs[cnode.ovp] >= Cardinality(Openers) + grabbed[cnode.ovp]
      /\ opens[cnode.ovp] >= Cardinality(Users)
  BY <1>2, <1>t DEF HeldInv
<1>6. /\ refs' \in [Containers -> Nat] /\ opens' \in [Containers -> Nat]
      /\ \A c \in Containers : kind = "dir" => refs'[c] = refs[c] /\ opens'[c] = opens[c]
      /\ \A c \in Containers : kind = "reg" => /\ refs'[c] = refs[c] - One(c = cnode.ovp)
                                               /\ opens'[c] = opens[c] - One(c = cnode.ovp)
  <2>1. CASE kind = "dir"
    BY <1>1, <1>t, <2>1, Numbers
  <2>2. CASE kind = "reg"
    <3>1. PICK d \in Containers : d = cnode.ovp
      BY <1>2
    <3>2. PICK r \in Nat, o \in Nat : r = refs[d] - 1 /\ o = opens[d] - 1
      BY <1>2, <1>5, <1>t, <3>1, Numbers, Sizes
    <3>3. refs' = [refs EXCEPT ![d] = r] /\ opens' = [opens EXCEPT ![d] = o]
      BY <1>1, <1>t, <2>2, <3>1, <3>2, Numbers DEF Released
    <3>4. refs' \in [Containers -> Nat] /\ opens' \in [Containers -> Nat]
      BY <1>t, <3>3, Numbers
    <3>5. \A c \in Containers : refs'[c] = refs[c] - One(c = d) /\ opens'[c] = opens[c] - One(c = d)
      BY <1>t, <3>2, <3>3, Numbers DEF One
    <3> QED
      BY <2>2, <3>1, <3>4, <3>5
  <2> QED
    BY <2>1, <2>2, <1>t DEF TypeOK
<1>7. TypeOK'
  BY <1>1, <1>3, <1>4, <1>6, <1>t DEF TypeOK, Entries, Cnodes
<1>8. Own(t) /\ Local(t)'
  BY <1>3 DEF Own, Local
<1>9. LocalInv'
  BY <1>t, <1>1, <1>8 DEF LocalInv, Local, Own
<1>10. /\ ~Opener(t)' /\ ~Writer(t)'
       /\ ~At(t, "close")' /\ ~At(t, "grab")'
  BY <1>3 DEF Opener, Writer, At
<1>11. /\ Cardinality(Openers') = Cardinality(Openers) - 1
       /\ Cardinality(Users') = Cardinality(Users) - 1
       /\ Cardinality(Writers') <= Cardinality(Writers) /\ Cardinality(Writers') \in Nat
       /\ Cardinality(Closers') = Cardinality(Closers)
       /\ Cardinality(Grabbers') = Cardinality(Grabbers)
  BY <1>2, <1>8, <1>10, Stepped, Sizes DEF One
<1>12. Failures' = Failures
  BY <1>1 DEF Failures
<1>13. CountInv'
  BY <1>1, <1>4, <1>11, <1>12, <1>t, Numbers, Sizes DEF CountInv
<1>14. HeldInv'
  <2>1. CASE kind = "dir"
    BY <1>1, <1>4, <1>6, <1>11, <1>t, <2>1, Numbers, Sizes DEF HeldInv
  <2>2. CASE kind = "reg"
    <3>1. ASSUME NEW c \in Containers
          PROVE  /\ refs'[c] = grabbed[c] + (IF c = cnode.ovp THEN Cardinality(Openers') ELSE 0)
                 /\ opens'[c] = IF c = cnode.ovp THEN Cardinality(Users') ELSE 0
                 /\ grabbed[c] \in Nat
      <4>1. /\ refs[c] = grabbed[c] + (IF c = cnode.ovp THEN Cardinality(Openers) ELSE 0)
            /\ opens[c] = IF c = cnode.ovp THEN Cardinality(Users) ELSE 0
        BY <1>t, <2>2 DEF HeldInv
      <4>2. refs'[c] = refs[c] - One(c = cnode.ovp) /\ opens'[c] = opens[c] - One(c = cnode.ovp)
        BY <1>6, <2>2
      <4> QED
        BY <1>11, <1>t, <4>1, <4>2, Numbers, Sizes DEF One
    <3>2. Cardinality(Openers') \in Nat /\ Cardinality(Users') \in Nat
      BY <1>8, Stepped
    <3> QED
      BY <1>1, <1>4, <2>2, <3>1, <3>2, <1>t, Numbers DEF HeldInv
  <2> QED
    BY <2>1, <2>2, <1>t DEF TypeOK
<1>15. PlaceInv'
  <2>1. \A u \in Threads \ {t} :
          /\ At(u, "grab")' => pc'[u].got = venus'.file
          /\ At(u, "io")' /\ Opener(u)' => pc'[u].got = venus'.file /\ cnode'.ovp # Null
          /\ At(u, "io")' /\ ~Opener(u)' /\ "shared" \notin Env => grabbed'[pc'[u].got] > 0
    BY <1>1, <1>2, <1>4, <1>8, <1>t, Numbers, OthersPlace
  <2> QED
    BY <1>1, <1>3, <1>4, <1>t, <2>1 DEF PlaceInv, At
<1> QED
  BY <1>7, <1>9, <1>13, <1>14, <1>15 DEF Inv

\* VOP_CLOSE of the container.
LEMMA ClosesContainer ==
  ASSUME Inv, NEW t \in Threads, coda_close(t)
  PROVE  Inv'
<1>t. TypeOK /\ LocalInv /\ CountInv /\ HeldInv /\ PlaceInv
  BY DEF Inv
<1>0. PICK m : m = IF pc[t].inner THEN pc[t].mode ELSE fd[t]
  OBVIOUS
<1>1. /\ Prompt(t) /\ Closing(t) /\ kind = "reg" /\ ~cnode.unmounting
      /\ opens' = [opens EXCEPT ![cnode.ovp] = @ - 1]
      /\ pc' = [pc EXCEPT ![t].at = "vclose", ![t].mode = m]
      /\ UNCHANGED <<kind, lock, cnode, use, refs, fd, venus, data, failed, grabbed, panicked>>
  <2>1. pc' = [pc EXCEPT ![t].at = "vclose",
                         ![t].mode = IF pc[t].inner THEN @ ELSE fd[t]]
    BY DEF coda_close
  <2>2. pc \in [Threads -> Entries]
    BY <1>t DEF TypeOK, Entries
  <2>3. pc' = [pc EXCEPT ![t].at = "vclose", ![t].mode = m]
    BY <1>0, <2>1, <2>2 DEF Entries
  <2> QED
    BY <2>3 DEF coda_close
<1>2. /\ Opener(t) /\ ~At(t, "vclose") /\ ~At(t, "close") /\ ~At(t, "grab")
      /\ pc[t].inner \in BOOLEAN /\ cnode.ovp \in Containers /\ cnode.ovp = venus.file
      /\ pc[t].inner => fd[t] = "no"
      /\ ~pc[t].inner => fd[t] \in Modes
      /\ Cardinality(Openers) > 0 /\ Cardinality(Users) > 0
  BY <1>1, Closes
<1>m. m \in Modes
  BY <1>0, <1>2, <1>t DEF TypeOK
<1>3. /\ pc' \in [Threads -> Entries] /\ \A u \in Threads \ {t} : pc'[u] = pc[u]
      /\ pc'[t].at = "vclose" /\ pc'[t].mode = m /\ pc'[t].inner = pc[t].inner
  <2>1. pc \in [Threads -> Entries]
    BY <1>t DEF TypeOK, Entries
  <2> QED
    BY <1>1, <1>m, <2>1 DEF Entries
<1>5. refs[cnode.ovp] >= Cardinality(Openers) + grabbed[cnode.ovp]
      /\ opens[cnode.ovp] >= Cardinality(Users)
  BY <1>2, <1>t DEF HeldInv
<1>6. /\ opens' \in [Containers -> Nat]
      /\ \A c \in Containers : opens'[c] = opens[c] - One(c = cnode.ovp)
  <2>1. PICK d \in Containers : d = cnode.ovp
    BY <1>2
  <2>2. PICK o \in Nat : o = opens[d] - 1
    BY <1>2, <1>5, <1>t, <2>1, Numbers, Sizes
  <2>3. opens' = [opens EXCEPT ![d] = o]
    BY <1>1, <1>t, <2>1, <2>2, Numbers
  <2>4. opens' \in [Containers -> Nat]
    BY <1>t, <2>3, Numbers
  <2>5. \A c \in Containers : opens'[c] = opens[c] - One(c = d)
    BY <1>t, <2>2, <2>3, Numbers DEF One
  <2> QED
    BY <2>1, <2>4, <2>5
<1>7. TypeOK'
  BY <1>1, <1>3, <1>6, <1>t DEF TypeOK, Entries
<1>8. Own(t) /\ Local(t)'
  BY <1>0, <1>1, <1>2, <1>3 DEF Own, Local
<1>9. LocalInv'
  BY <1>t, <1>1, <1>8 DEF LocalInv, Local, Own
<1>10. /\ Opener(t)' /\ At(t, "vclose")' /\ (Writer(t)' <=> Writer(t))
       /\ ~At(t, "close")' /\ ~At(t, "grab")'
  BY <1>0, <1>1, <1>2, <1>3 DEF Opener, Writer, At, Modes
<1>11. /\ Cardinality(Openers') = Cardinality(Openers)
       /\ Cardinality(Users') = Cardinality(Users) - 1
       /\ Cardinality(Writers') = Cardinality(Writers)
       /\ Cardinality(Closers') = Cardinality(Closers)
       /\ Cardinality(Grabbers') = Cardinality(Grabbers)
  BY <1>2, <1>8, <1>10, Stepped, Sizes DEF One
<1>12. Failures' = Failures
  BY <1>1 DEF Failures
<1>13. CountInv'
  BY <1>1, <1>11, <1>12, <1>t DEF CountInv
<1>14. HeldInv'
  BY <1>1, <1>6, <1>11, <1>t, Numbers, Sizes DEF HeldInv, One
<1>15. PlaceInv'
  <2>1. \A u \in Threads \ {t} :
          /\ At(u, "grab")' => pc'[u].got = venus'.file
          /\ At(u, "io")' /\ Opener(u)' => pc'[u].got = venus'.file /\ cnode'.ovp # Null
          /\ At(u, "io")' /\ ~Opener(u)' /\ "shared" \notin Env => grabbed'[pc'[u].got] > 0
    BY <1>1, <1>2, <1>8, <1>t, Numbers, OthersPlace
  <2> QED
    BY <1>1, <1>3, <1>t, <2>1 DEF PlaceInv, At
<1> QED
  BY <1>7, <1>9, <1>13, <1>14, <1>15 DEF Inv

\* What coda_close does to the cnode, when the counts allow it.
LEMMA CnodeClosed ==
  ASSUME TypeOK, NEW m \in Modes, cnode.ocount > 0, m = "w" => cnode.owrite > 0,
         cnode' = Closed(m)
  PROVE  /\ cnode' \in Cnodes
         /\ cnode'.ocount = cnode.ocount - 1 /\ cnode'.owrite = cnode.owrite - One(m = "w")
         /\ cnode'.ovp = (IF cnode.ocount = 1 THEN Null ELSE cnode.ovp)
         /\ cnode'.unmounting = cnode.unmounting
<1>1. cnode \in Cnodes
  BY DEF TypeOK, Cnodes
<1>2. PICK o \in Nat : o = cnode.ocount - 1
  BY <1>1 DEF Cnodes
<1>3. PICK w \in Nat : w = cnode.owrite - One(m = "w")
  BY <1>1 DEF Cnodes, One
<1>4. PICK p \in Containers \cup {Null} : p = IF cnode.ocount = 1 THEN Null ELSE cnode.ovp
  BY <1>1 DEF Cnodes
<1>5. cnode' = [cnode EXCEPT !.ocount = o, !.ovp = p, !.owrite = w]
  <2>1. (IF m = "w" THEN cnode.owrite - 1 ELSE cnode.owrite) = w
    BY <1>1, <1>3 DEF One, Cnodes
  <2> QED
    BY <1>1, <1>2, <1>4, <2>1 DEF Closed, Cnodes
<1> QED
  BY <1>1, <1>2, <1>3, <1>4, <1>5 DEF Cnodes

LEMMA Counts ==
  ASSUME Inv, NEW t \in Threads, CloseCounts(t)
  PROVE  Inv'
<1>t. TypeOK /\ LocalInv /\ CountInv /\ HeldInv /\ PlaceInv
  BY DEF Inv
<1>0. PICK m \in Modes : m = pc[t].mode
  BY <1>t DEF TypeOK
<1>1. /\ pc[t].at = "vclose" /\ refs' = Released(cnode.ovp) /\ cnode' = Closed(m)
      /\ Go(t, "close")
      /\ UNCHANGED <<kind, lock, use, opens, fd, venus, data, failed, grabbed, panicked>>
  BY <1>0 DEF CloseCounts, At
<1>2. /\ kind = "reg" /\ pc[t].inner \in BOOLEAN
      /\ pc[t].inner => fd[t] = "no"
      /\ ~pc[t].inner => fd[t] = m
  BY <1>0, <1>1, <1>t DEF LocalInv, Local, TypeOK
<1>3. /\ Opener(t) /\ At(t, "vclose") /\ (Writer(t) <=> m = "w")
      /\ ~At(t, "close") /\ ~At(t, "grab")
  BY <1>0, <1>1, <1>2 DEF Opener, Writer, At, Modes
<1>4. /\ Cardinality(Openers) > 0 /\ cnode.ocount > 0 /\ (m = "w" => cnode.owrite > 0)
      /\ cnode.ovp \in Containers /\ cnode.ovp = venus.file
  <2>1. Cardinality(Openers) > 0 /\ (m = "w" => Cardinality(Writers) > 0)
    BY <1>3, Sizes
  <2>2. cnode.ocount > 0 /\ (m = "w" => cnode.owrite > 0)
    BY <1>t, <2>1, Numbers, Sizes DEF CountInv
  <2> QED
    BY <1>t, <2>1, <2>2, Numbers DEF CountInv, PlaceInv
<1>5. /\ cnode' \in Cnodes
      /\ cnode'.ocount = cnode.ocount - 1 /\ cnode'.owrite = cnode.owrite - One(m = "w")
      /\ cnode'.ovp = (IF cnode.ocount = 1 THEN Null ELSE cnode.ovp)
      /\ cnode'.unmounting = cnode.unmounting
  BY <1>1, <1>4, <1>t, CnodeClosed
<1>6. /\ refs' \in [Containers -> Nat]
      /\ \A c \in Containers : refs'[c] = refs[c] - One(c = cnode.ovp)
  <2>1. PICK d \in Containers : d = cnode.ovp
    BY <1>4
  <2>2. PICK r \in Nat : r = refs[d] - 1
    BY <1>4, <1>t, <2>1, Numbers, Sizes DEF HeldInv
  <2>3. refs' = [refs EXCEPT ![d] = r]
    BY <1>1, <1>t, <2>1, <2>2, Numbers DEF Released
  <2>4. refs' \in [Containers -> Nat]
    BY <1>t, <2>3, Numbers
  <2>5. \A c \in Containers : refs'[c] = refs[c] - One(c = d)
    BY <1>t, <2>2, <2>3, Numbers DEF One
  <2> QED
    BY <2>1, <2>4, <2>5
<1>7. /\ pc' \in [Threads -> Entries] /\ \A u \in Threads \ {t} : pc'[u] = pc[u]
      /\ pc'[t].at = "close" /\ pc'[t].mode = m /\ pc'[t].inner = pc[t].inner
  BY <1>0, <1>1, <1>t, Went
<1>8. TypeOK'
  BY <1>1, <1>5, <1>6, <1>7, <1>t DEF TypeOK, Entries, Cnodes
<1>9. Own(t) /\ Local(t)'
  BY <1>1, <1>2, <1>7 DEF Own, Local, Modes
<1>10. LocalInv'
  BY <1>t, <1>1, <1>9 DEF LocalInv, Local, Own
<1>11. ~Opener(t)' /\ ~Writer(t)' /\ At(t, "close")' /\ ~At(t, "grab")'
  BY <1>7 DEF Opener, Writer, At
<1>12. /\ Cardinality(Openers') = Cardinality(Openers) - 1
       /\ Cardinality(Users') = Cardinality(Users)
       /\ Cardinality(Writers') = Cardinality(Writers) - One(m = "w")
       /\ Cardinality(Closers') = Cardinality(Closers) + 1
       /\ Cardinality(Grabbers') = Cardinality(Grabbers)
       /\ Cardinality(Writers') \in Nat /\ Cardinality(Openers') \in Nat
  BY <1>3, <1>9, <1>11, Stepped, Sizes DEF One
<1>13. Failures' = Failures
  BY <1>1 DEF Failures
<1>14. CountInv'
  <2>1. One(m = "w") \in {0, 1}
    BY DEF One
  <2>2. (cnode'.ovp = Null) <=> (cnode'.ocount = 0)
    BY <1>4, <1>5, <1>t, Numbers
  <2> QED
    BY <1>1, <1>5, <1>12, <1>13, <1>t, <2>1, <2>2, Numbers, Sizes DEF CountInv
<1>15. Cardinality(Users) <= Cardinality(Openers')
  <2>1. Users' \subseteq Openers' /\ Openers' \subseteq Threads
    BY DEF Users, Openers
  <2>2. Cardinality(Users') <= Cardinality(Openers')
    BY <2>1, FileAssumption, FS_Subset
  <2> QED
    BY <1>12, <2>2
<1>16. cnode.ocount = 1 => Cardinality(Openers') = 0 /\ Cardinality(Users) = 0
  BY <1>12, <1>15, <1>t, Numbers, Sizes DEF CountInv
<1>17. HeldInv'
  <2>1. ASSUME NEW c \in Containers
        PROVE  /\ refs'[c] = grabbed[c] + (IF c = cnode'.ovp THEN Cardinality(Openers') ELSE 0)
               /\ opens[c] = IF c = cnode'.ovp THEN Cardinality(Users') ELSE 0
               /\ grabbed[c] \in Nat
    <3>1. /\ refs[c] = grabbed[c] + (IF c = cnode.ovp THEN Cardinality(Openers) ELSE 0)
          /\ opens[c] = IF c = cnode.ovp THEN Cardinality(Users) ELSE 0
      BY <1>2, <1>t DEF HeldInv
    <3>2. refs'[c] = refs[c] - One(c = cnode.ovp)
      BY <1>6
    <3>3. c = cnode'.ovp => c = cnode.ovp
      BY <1>5, <1>t, Numbers
    <3>4. c = cnode.ovp /\ c # cnode'.ovp => Cardinality(Openers') = 0 /\ Cardinality(Users) = 0
      BY <1>5, <1>16
    <3> QED
      BY <1>12, <1>t, <3>1, <3>2, <3>3, <3>4, Numbers, Sizes DEF One
  <2>2. Cardinality(Openers') \in Nat /\ Cardinality(Users') \in Nat
    BY <1>9, Stepped
  <2> QED
    BY <1>1, <1>2, <2>1, <2>2, <1>t, Numbers DEF HeldInv
<1>18. PlaceInv'
  <2>1. ASSUME NEW u \in Threads \ {t}
        PROVE /\ At(u, "grab")' => pc'[u].got = venus'.file
              /\ At(u, "io")' /\ Opener(u)' => pc'[u].got = venus'.file /\ cnode'.ovp # Null
              /\ At(u, "io")' /\ ~Opener(u)' /\ "shared" \notin Env => grabbed'[pc'[u].got] > 0
    <3>1. Opener(u) => Opener(u)'
      BY <1>9 DEF Own, Opener
    <3>2. Openers' \in SUBSET Threads /\ (Opener(u)' => u \in Openers')
      BY DEF Openers
    <3>3. Opener(u) => Cardinality(Openers') > 0
      BY <3>1, <3>2, Counted
    <3>4. At(u, "io") /\ Opener(u) => cnode'.ovp # Null
      BY <1>4, <1>5, <1>16, <1>t, <3>3, Numbers
    <3> QED
      BY <1>1, <1>9, <3>4, OthersPlace
  <2> QED
    BY <1>1, <1>4, <1>5, <1>7, <1>t, <2>1 DEF PlaceInv, At
<1> QED
  BY <1>8, <1>10, <1>14, <1>17, <1>18 DEF Inv

LEMMA CloseEnds ==
  ASSUME Inv, NEW t \in Threads, NEW told \in BOOLEAN, CloseDone(t, told)
  PROVE  Inv'
<1>t. TypeOK /\ LocalInv /\ CountInv /\ HeldInv /\ PlaceInv
  BY DEF Inv
<1>1. /\ pc[t].at = "close" /\ use' = use - 1 /\ cnode' = Flushed(t) /\ Returns(t)
      /\ venus' = IF told THEN [venus EXCEPT !.opens = @ - 1] ELSE venus
      /\ UNCHANGED <<kind, refs, opens, data, failed, grabbed, panicked>>
  BY DEF CloseDone, At
<1>2. /\ pc[t].inner \in BOOLEAN /\ (pc[t].inner => fd[t] = "no")
  BY <1>1, <1>t DEF LocalInv, Local, TypeOK
<1>3. /\ pc' \in [Threads -> Entries] /\ pc'[t].at = "idle" /\ ~pc'[t].inner
      /\ fd' \in [Threads -> Modes \cup {"no"}] /\ lock' \in Threads \cup {Null}
      /\ fd'[t] = "no"
      /\ \A u \in Threads \ {t} : pc'[u] = pc[u] /\ fd'[u] = fd[u]
  BY <1>1, <1>2, <1>t, Returned
<1>4. /\ cnode' \in Cnodes
      /\ cnode'.ovp = cnode.ovp /\ cnode'.ocount = cnode.ocount
      /\ cnode'.owrite = cnode.owrite /\ cnode'.unmounting = cnode.unmounting
  <2>1. cnode \in Cnodes
    BY <1>t DEF TypeOK, Cnodes
  <2>2. cnode' = cnode \/ \E v \in Versions \cup {Null} : cnode' = [cnode EXCEPT !.vattr = v]
    BY <1>1 DEF Flushed
  <2> QED
    BY <1>t, <2>1, <2>2, Attributes
<1>5. /\ ~Opener(t) /\ ~Writer(t) /\ At(t, "close") /\ ~At(t, "grab")
      /\ ~Opener(t)' /\ ~Writer(t)' /\ ~At(t, "close")' /\ ~At(t, "grab")'
  BY <1>1, <1>3 DEF Opener, Writer, At
<1>6. Own(t) /\ Local(t)'
  BY <1>3 DEF Own, Local
<1>7. /\ Cardinality(Openers') = Cardinality(Openers) /\ Cardinality(Users') = Cardinality(Users)
      /\ Cardinality(Writers') = Cardinality(Writers)
      /\ Cardinality(Closers') = Cardinality(Closers) - 1
      /\ Cardinality(Grabbers') = Cardinality(Grabbers)
      /\ Cardinality(Closers) > 0
  BY <1>5, <1>6, Stepped, Sizes DEF One
<1>8. /\ use' \in 0..MaxOpens
      /\ venus' \in [file : Containers, opens : 0..MaxOpens] /\ venus'.file = venus.file
      /\ venus'.opens >= venus.opens - 1
  <2>1. use \in 0..MaxOpens /\ use > 0 /\ MaxOpens \in Nat
    BY <1>7, <1>t, Numbers, Sizes, FileAssumption DEF CountInv, TypeOK
  <2>2. venus \in [file : Containers, opens : 0..MaxOpens] /\ venus.opens > 0
    BY <1>7, <1>t, Numbers, Sizes DEF CountInv, TypeOK
  <2>3. venus.opens - 1 \in 0..MaxOpens
    BY <2>1, <2>2
  <2> QED
    BY <1>1, <2>1, <2>2, <2>3
<1>9. TypeOK'
  BY <1>1, <1>3, <1>4, <1>8, <1>t DEF TypeOK, Entries, Cnodes
<1>10. LocalInv'
  BY <1>t, <1>1, <1>6 DEF LocalInv, Local, Own
<1>11. Failures' = Failures
  BY <1>1 DEF Failures
<1>12. CountInv'
  <2>1. venus'.opens \in Nat
    BY <1>8
  <2> QED
    BY <1>1, <1>4, <1>7, <1>8, <1>11, <1>t, <2>1, Numbers, Sizes DEF CountInv
<1>13. HeldInv'
  BY <1>1, <1>4, <1>7, <1>t DEF HeldInv
<1>14. PlaceInv'
  <2>1. \A u \in Threads \ {t} :
          /\ At(u, "grab")' => pc'[u].got = venus'.file
          /\ At(u, "io")' /\ Opener(u)' => pc'[u].got = venus'.file /\ cnode'.ovp # Null
          /\ At(u, "io")' /\ ~Opener(u)' /\ "shared" \notin Env => grabbed'[pc'[u].got] > 0
    BY <1>1, <1>4, <1>6, <1>8, <1>t, OthersPlace DEF PlaceInv
  <2> QED
    BY <1>1, <1>3, <1>4, <1>8, <1>t, <2>1 DEF PlaceInv, At
<1> QED
  BY <1>9, <1>10, <1>12, <1>13, <1>14 DEF Inv

-----------------------------------------------------------------------------
(* Venus, the device, and the theorems.                                    *)

\* Venus changes the container of a file that nobody has open or is about to open.
LEMMA Replaces ==
  ASSUME Inv, NEW c \in Containers, Replaced(c)
  PROVE  Inv'
<1>t. TypeOK /\ LocalInv /\ CountInv /\ HeldInv /\ PlaceInv
  BY DEF Inv
<1>0. PICK v \in Versions : v = data[venus.file] + 1
  BY DEF Replaced
<1>1. /\ venus.opens = 0 /\ venus' = [venus EXCEPT !.file = c] /\ data' = [data EXCEPT ![c] = v]
      /\ cnode' = [cnode EXCEPT !.vattr = Null]
      /\ UNCHANGED <<kind, lock, use, refs, opens, fd, pc, failed, grabbed, panicked>>
  BY <1>0 DEF Replaced
<1>2. /\ cnode' \in Cnodes
      /\ cnode'.ovp = cnode.ovp /\ cnode'.ocount = cnode.ocount
      /\ cnode'.owrite = cnode.owrite /\ cnode'.unmounting = cnode.unmounting
  BY <1>1, <1>t, Attributes
<1>3. cnode.ovp = Null /\ Cardinality(Openers) = 0 /\ Cardinality(Grabbers) = 0
  BY <1>1, <1>t, Numbers, Sizes DEF CountInv
<1>4. \A t \in Threads : ~Opener(t) /\ ~At(t, "grab")
  <2>1. Openers \in SUBSET Threads /\ Grabbers \in SUBSET Threads
    BY DEF Openers, Grabbers
  <2>2. \A t \in Threads : t \notin Openers /\ t \notin Grabbers
    BY <1>3, <2>1, Counted
  <2> QED
    BY <2>2 DEF Openers, Grabbers
<1>5. /\ venus' \in [file : Containers, opens : 0..MaxOpens] /\ venus'.opens = venus.opens
      /\ data' \in [Containers -> Versions]
  BY <1>1, <1>t DEF TypeOK
<1>6. TypeOK'
  BY <1>1, <1>2, <1>5, <1>t DEF TypeOK, Cnodes
<1>7. LocalInv'
  BY <1>1, <1>t DEF LocalInv, Local
<1>8. /\ Cardinality(Openers') = Cardinality(Openers) /\ Cardinality(Users') = Cardinality(Users)
      /\ Cardinality(Writers') = Cardinality(Writers)
      /\ Cardinality(Closers') = Cardinality(Closers)
      /\ Cardinality(Grabbers') = Cardinality(Grabbers)
      /\ Failures' = Failures
  BY <1>1 DEF Openers, Users, Writers, Closers, Grabbers, Writer, Opener, At, Failures
<1>9. CountInv'
  BY <1>1, <1>2, <1>5, <1>8, <1>t DEF CountInv
<1>10. HeldInv'
  BY <1>1, <1>2, <1>8, <1>t DEF HeldInv
<1>11. PlaceInv'
  BY <1>1, <1>2, <1>3, <1>4, <1>t DEF PlaceInv, At, Opener
<1> QED
  BY <1>6, <1>7, <1>9, <1>10, <1>11 DEF Inv

LEMMA Unmounts ==
  ASSUME Inv, Unmounting \/ UNCHANGED vars
  PROVE  Inv'
<1>t. TypeOK /\ LocalInv /\ CountInv /\ HeldInv /\ PlaceInv
  BY DEF Inv
<1>1. /\ cnode' = [cnode EXCEPT !.unmounting = TRUE] \/ cnode' = cnode
      /\ UNCHANGED <<kind, lock, use, refs, opens, fd, pc, venus, data, failed, grabbed, panicked>>
  BY DEF Unmounting, vars
<1>2. /\ cnode' \in Cnodes
      /\ cnode'.ovp = cnode.ovp /\ cnode'.ocount = cnode.ocount
      /\ cnode'.owrite = cnode.owrite /\ (~cnode'.unmounting => ~cnode.unmounting)
  <2>1. cnode \in Cnodes
    BY <1>t DEF TypeOK, Cnodes
  <2> QED
    BY <1>1, <2>1 DEF Cnodes
<1>3. TypeOK'
  BY <1>1, <1>2, <1>t DEF TypeOK, Cnodes
<1>4. LocalInv'
  BY <1>1, <1>t DEF LocalInv, Local
<1>5. /\ Cardinality(Openers') = Cardinality(Openers) /\ Cardinality(Users') = Cardinality(Users)
      /\ Cardinality(Writers') = Cardinality(Writers)
      /\ Cardinality(Closers') = Cardinality(Closers)
      /\ Cardinality(Grabbers') = Cardinality(Grabbers)
      /\ Failures' = Failures
  BY <1>1 DEF Openers, Users, Writers, Closers, Grabbers, Writer, Opener, At, Failures
<1>6. CountInv'
  BY <1>1, <1>2, <1>5, <1>t DEF CountInv
<1>7. HeldInv'
  BY <1>1, <1>2, <1>5, <1>t DEF HeldInv
<1>8. PlaceInv'
  BY <1>1, <1>2, <1>t DEF PlaceInv, At, Opener
<1> QED
  BY <1>3, <1>4, <1>6, <1>7, <1>8 DEF Inv

LEMMA InvInit == Init => Inv
<1> SUFFICES ASSUME Init PROVE Inv
  OBVIOUS
<1>1. /\ \A t \in Threads : pc[t] = Idle /\ fd[t] = "no"
      /\ Openers = {} /\ Users = {} /\ Writers = {} /\ Closers = {} /\ Grabbers = {}
  BY DEF Init, Openers, Users, Writers, Closers, Grabbers, Writer, Opener, At, Idle
<1>2. /\ Cardinality(Openers) = 0 /\ Cardinality(Users) = 0 /\ Cardinality(Writers) = 0
      /\ Cardinality(Closers) = 0 /\ Cardinality(Grabbers) = 0
  BY <1>1, FS_EmptySet
<1>3. TypeOK
  <2>1. /\ MaxOpens \in Nat /\ MaxFailed \in Nat /\ MaxGrabs \in Nat /\ 0 \in Versions
        /\ kind \in {"reg", "dir"}
    BY FileAssumption DEF Init, Versions
  <2>2. pc \in [Threads -> Entries] /\ fd \in [Threads -> Modes \cup {"no"}]
    BY IdleEntry DEF Init
  <2>3. cnode \in Cnodes /\ data \in [Containers -> Versions]
    BY <2>1 DEF Init, Cnodes
  <2>4. /\ venus \in [file : Containers, opens : 0..MaxOpens]
        /\ failed \in [Modes -> 0..MaxFailed] /\ grabbed \in [Containers -> 0..MaxGrabs]
        /\ refs \in [Containers -> Nat] /\ opens \in [Containers -> Nat]
        /\ use \in 0..MaxOpens /\ lock \in Threads \cup {Null} /\ panicked \in BOOLEAN
    <3>1. 0 \in 0..MaxOpens /\ 0 \in 0..MaxFailed /\ 0 \in 0..MaxGrabs /\ 0 \in Nat
      BY <2>1
    <3>2. venus \in [file : Containers, opens : 0..MaxOpens]
      BY <3>1 DEF Init
    <3>3. failed \in [Modes -> 0..MaxFailed] /\ grabbed \in [Containers -> 0..MaxGrabs]
      BY <3>1 DEF Init
    <3>4. refs \in [Containers -> Nat] /\ opens \in [Containers -> Nat]
      BY <3>1 DEF Init
    <3> QED
      BY <3>1, <3>2, <3>3, <3>4 DEF Init
  <2> QED
    BY <2>1, <2>2, <2>3, <2>4 DEF TypeOK, Entries, Cnodes
<1>4. LocalInv
  BY <1>1 DEF LocalInv, Local, Idle
<1>5. CountInv
  <2>1. Failures = 0
    BY DEF Init, Failures, Modes
  <2> QED
    BY <1>2, <2>1 DEF Init, CountInv, Modes
<1>6. HeldInv
  BY <1>2 DEF Init, HeldInv
<1>7. PlaceInv
  BY <1>1 DEF Init, PlaceInv, At, Idle
<1> QED
  BY <1>3, <1>4, <1>5, <1>6, <1>7 DEF Inv

LEMMA InvNext == Inv /\ [Next]_vars => Inv'
<1> SUFFICES ASSUME Inv, [Next]_vars PROVE Inv'
  OBVIOUS
<1>1. ASSUME NEW t \in Threads, Step(t) PROVE Inv'
  <2>1. CASE \/ OpenFails(t) \/ RdwrDone(t) \/ GetattrDone(t) \/ SetattrDone(t)
             \/ Write(t) \/ coda_getattr(t) \/ GetattrAnswer(t) \/ coda_setattr(t) \/ SetattrAnswer(t)
    BY <2>1, Ends, GoesOn
  <2>2. CASE \/ OpenAnswer(t) \/ OpenDone(t) \/ OpenContainerFails(t)
             \/ CloseDirectory(t) \/ CloseUnmounting(t) \/ coda_close(t) \/ CloseCounts(t)
    BY <2>2, Answers, Open, OpenFailsLate, ClosesAtOnce, ClosesContainer, Counts
  <2>3. ASSUME NEW told \in BOOLEAN, CloseDone(t, told) PROVE Inv'
    BY <2>3, CloseEnds
  <2>4. ASSUME NEW m \in Modes, coda_open(t, m) \/ coda_rdwr(t, m) PROVE Inv'
    BY <2>4, StartsOpen, StartsUse
  <2>5. CASE coda_pagein(t) \/ coda_readdir(t)
    BY <2>5, StartsUse
  <2> QED
    BY <1>1, <2>1, <2>2, <2>3, <2>4, <2>5 DEF Step
<1>2. ASSUME NEW c \in Containers, Replaced(c) PROVE Inv'
  BY <1>2, Replaces
<1>3. CASE Unmounting \/ UNCHANGED vars
  BY <1>3, Unmounts
<1> QED
  BY <1>1, <1>2, <1>3 DEF Next

\* Inv is an inductive invariant of the specification.
THEOREM FileInv == Spec => []Inv
<1> QED
  BY InvInit, InvNext, PTL DEF Spec

\* The variables keep their types; no count falls below zero.
THEOREM FileTypeOK == Spec => []TypeOK
<1>1. Inv => TypeOK
  BY DEF Inv
<1> QED
  BY <1>1, FileInv, PTL

\* The references and opens of the containers are those of the file's users.
THEOREM FileRefsRight == Spec => []RefsRight
<1>1. Inv => RefsRight
  <2> SUFFICES ASSUME Inv, kind = "reg", NEW c \in Containers
               PROVE  /\ refs[c] = (IF c = cnode.ovp THEN Number(Opener) ELSE 0) + grabbed[c]
                      /\ opens[c] = IF c = cnode.ovp
                           THEN Number(LAMBDA t : Opener(t) /\ ~At(t, "vclose")) ELSE 0
    BY DEF RefsRight
  <2>1. Number(Opener) = Cardinality(Openers)
    BY DEF Number, Openers
  <2>2. Number(LAMBDA t : Opener(t) /\ ~At(t, "vclose")) = Cardinality(Users)
    BY DEF Number, Users
  <2>3. /\ refs[c] = grabbed[c] + (IF c = cnode.ovp THEN Cardinality(Openers) ELSE 0)
        /\ opens[c] = IF c = cnode.ovp THEN Cardinality(Users) ELSE 0
    BY DEF Inv, HeldInv
  <2>4. grabbed[c] \in Nat
    BY Numbers DEF Inv
  <2> QED
    BY <2>1, <2>2, <2>3, <2>4, Sizes
<1> QED
  BY <1>1, FileInv, PTL

\* c_ocount and c_owrite count the opens, and the vnode's references the closes as well.
THEOREM FileCountsRight == Spec => []CountsRight
<1>1. Inv => CountsRight
  <2> SUFFICES ASSUME Inv PROVE CountsRight
    OBVIOUS
  <2>1. Number(Opener) = Cardinality(Openers) /\ Number(Writer) = Cardinality(Writers)
    BY DEF Number, Openers, Writers
  <2>2. Number(LAMBDA t : At(t, "close")) = Cardinality(Closers)
    BY DEF Number, Closers
  <2>3. TypeOK /\ CountInv
    BY DEF Inv
  <2> QED
    BY <2>1, <2>2, <2>3 DEF CountInv, CountsRight
<1> QED
  BY <1>1, FileInv, PTL

\* Unless it is used by a thread that does not have the file open, while others may close
\* it, a container that is read or written is referenced.
THEOREM FileUsedIsHeld ==
  ASSUME "shared" \notin Env
  PROVE  Spec => []UsedIsHeld
<1>1. Inv => UsedIsHeld
  <2> SUFFICES ASSUME Inv, NEW t \in Threads, pc[t].at = "io"
               PROVE  refs[pc[t].got] > 0
    BY DEF UsedIsHeld
  <2>1. TypeOK /\ pc[t].got \in Containers
    BY DEF Inv, LocalInv, Local
  <2>2. CASE Opener(t)
    <3>1. pc[t].got = cnode.ovp
      BY <2>2 DEF Inv, PlaceInv, At
    <3> QED
      BY <2>1, <2>2, <3>1, Numbers, Sizes DEF Inv, HeldInv
  <2>3. CASE ~Opener(t)
    BY <2>1, <2>3, Numbers DEF Inv, HeldInv, PlaceInv, At
  <2> QED
    BY <2>2, <2>3
<1> QED
  BY <1>1, FileInv, PTL

\* Whatever happens, an open file has the container Venus has, and coda_open does not panic.
THEOREM FileReadsRight == Spec => []ReadsRight
<1>1. Inv => ReadsRight
  BY DEF Inv, PlaceInv, ReadsRight, At
<1> QED
  BY <1>1, FileInv, PTL
-----------------------------------------------------------------------------
(* Cached attributes.                                                      *)

Ahead == {t \in Threads : pc[t].at \in {"answered", "set"}}

\* Who writes has the file open for writing, and then no attributes are cached; an answer
\* about attributes is acted on before anything else happens.
AttrInv ==
  /\ \A t \in Threads : At(t, "io") /\ pc[t].mode = "w" /\ ~pc[t].inner => fd[t] = "w"
  /\ cnode.vattr # Null => cnode.owrite = 0
  /\ \A t, u \in Ahead : t = u
  /\ \A t \in Threads : At(t, "answered") => pc[t].got = data[venus.file]
  /\ cnode.vattr # Null => cnode.vattr = data[venus.file] \/ \E t \in Threads : At(t, "set")

\* A step moves no other thread.
LEMMA StepsAlone ==
  ASSUME TypeOK, NEW t \in Threads, Step(t)
  PROVE  Own(t)
<1>t. DOMAIN pc = Threads /\ DOMAIN fd = Threads
  BY DEF TypeOK
<1>1. CASE \E m \in Modes : coda_open(t, m)
  BY <1>t, <1>1 DEF coda_open, Venus_open, Own
<1>2. CASE (\E m \in Modes : coda_rdwr(t, m)) \/ coda_pagein(t) \/ coda_readdir(t)
  BY <1>t, <1>2 DEF coda_rdwr, coda_pagein, coda_readdir, Acquire, Use, Venus_open, Own
<1>3. CASE OpenAnswer(t) \/ OpenFails(t) \/ OpenContainerFails(t) \/ RdwrDone(t)
  BY <1>t, <1>3 DEF OpenAnswer, OpenFails, OpenContainerFails, RdwrDone, Own
<1>4. CASE OpenDone(t)
  BY <1>t, <1>4 DEF OpenDone, Go, Own
<1>5. CASE CloseDirectory(t) \/ CloseUnmounting(t) \/ \E told \in BOOLEAN : CloseDone(t, told)
  BY <1>t, <1>5 DEF CloseDirectory, CloseUnmounting, CloseDone, Returns, Own
<1>6. CASE coda_close(t) \/ CloseCounts(t) \/ Write(t)
  BY <1>t, <1>6 DEF coda_close, CloseCounts, Write, Go, Own
<1>7. CASE \/ coda_getattr(t) \/ GetattrAnswer(t) \/ GetattrDone(t)
           \/ coda_setattr(t) \/ SetattrAnswer(t) \/ SetattrDone(t)
  BY <1>t, <1>7 DEF coda_getattr, GetattrAnswer, GetattrDone, coda_setattr, SetattrAnswer,
                    SetattrDone, Go, Own
<1> QED
  BY <1>1, <1>2, <1>3, <1>4, <1>5, <1>6, <1>7 DEF Step

\* Nobody has an answer about attributes while t goes on.
LEMMA NobodyAhead ==
  ASSUME "slow" \notin Env, NEW t \in Threads, Prompt(t), pc[t].at \notin {"answered", "set"}
  PROVE  Ahead = {}
  BY DEF Prompt, Ahead

\* A step that stores no attributes.
LEMMA AttrKept ==
  ASSUME AttrInv, NEW t \in Threads, Own(t), Ahead = {}, pc'[t].at \notin {"answered", "set"},
         At(t, "io")' /\ pc'[t].mode = "w" /\ ~pc'[t].inner => fd'[t] = "w",
         cnode'.vattr # Null => /\ cnode'.vattr = cnode.vattr /\ cnode'.owrite = 0
                                /\ data'[venus'.file] = data[venus.file]
  PROVE  AttrInv'
<1>1. \A u \in Threads : pc[u].at \notin {"answered", "set"} /\ pc'[u].at \notin {"answered", "set"}
  BY DEF Ahead, Own
<1>2. Ahead' = {}
  BY <1>1 DEF Ahead
<1>3. \A u \in Threads : At(u, "io")' /\ pc'[u].mode = "w" /\ ~pc'[u].inner => fd'[u] = "w"
  BY DEF Own, At, AttrInv
<1>4. cnode'.vattr # Null => cnode'.vattr = data'[venus'.file]
  BY <1>1 DEF AttrInv, At
<1> QED
  BY <1>1, <1>2, <1>3, <1>4 DEF AttrInv, At

\* Neither the cnode nor the contents change.
LEMMA AttrSame ==
  ASSUME AttrInv, NEW t \in Threads, Own(t), Ahead = {}, pc'[t].at \notin {"answered", "set"},
         At(t, "io")' /\ pc'[t].mode = "w" /\ ~pc'[t].inner => fd'[t] = "w",
         cnode'.vattr = cnode.vattr /\ cnode'.owrite = cnode.owrite,
         UNCHANGED data, venus'.file = venus.file
  PROVE  AttrInv'
<1>1. cnode'.vattr # Null => /\ cnode'.vattr = cnode.vattr /\ cnode'.owrite = 0
                             /\ data'[venus'.file] = data[venus.file]
  BY DEF AttrInv
<1> QED
  BY <1>1, AttrKept

LEMMA AttrBegins ==
  ASSUME Inv, AttrInv, "slow" \notin Env, "shared" \notin Env, NEW t \in Threads,
         \/ \E m \in Modes : coda_open(t, m) \/ coda_rdwr(t, m)
         \/ coda_pagein(t) \/ coda_readdir(t) \/ coda_getattr(t) \/ coda_setattr(t)
  PROVE  AttrInv'
<1>t. TypeOK /\ Own(t) /\ pc[t] \in Entries
  BY StepsAlone DEF Inv, Step, TypeOK, Entries
<1>1. Prompt(t) /\ pc[t].at = "idle" /\ UNCHANGED <<cnode, data, venus, fd>>
  BY DEF coda_open, coda_rdwr, coda_pagein, coda_readdir, coda_getattr, coda_setattr, At
<1>2. Ahead = {}
  BY <1>1, NobodyAhead
<1>3. /\ pc'[t].at \notin {"answered", "set"}
      /\ At(t, "io")' /\ pc'[t].mode = "w" /\ ~pc'[t].inner => fd'[t] = "w"
  <2>1. CASE \E m \in Modes : coda_open(t, m)
    BY <1>t, <2>1 DEF coda_open, Venus_open, TypeOK, At
  <2>2. CASE coda_getattr(t) \/ coda_setattr(t)
    BY <1>t, <2>2 DEF coda_getattr, coda_setattr, Go, TypeOK, At
  <2>3. CASE coda_pagein(t) \/ coda_readdir(t)
    BY <1>t, <2>3 DEF coda_pagein, coda_readdir, Acquire, Use, Venus_open, TypeOK, At
  <2>4. ASSUME NEW m \in Modes, coda_rdwr(t, m)
        PROVE  /\ pc'[t].at \notin {"answered", "set"}
               /\ At(t, "io")' /\ pc'[t].mode = "w" /\ ~pc'[t].inner => fd'[t] = "w"
    <3>1. /\ Acquire(t, m, m = "w") /\ MayDo(t, m) /\ UNCHANGED fd
          /\ fd[t] # "no" \/ cnode.ovp = Null
      BY <2>4 DEF coda_rdwr, Shared
    <3>2. \/ pc'[t] = [at |-> "open", mode |-> m, got |-> Null, inner |-> TRUE]
          \/ /\ cnode.ovp # Null \/ m # "w"
             /\ \E c \in Containers : pc'[t] = [at |-> "io", mode |-> m, got |-> c, inner |-> FALSE]
      <4>1. DOMAIN pc = Threads /\ cnode.ovp \in Containers \cup {Null}
            /\ cnode.inode \in Containers \cup {Null}
        BY <1>t DEF TypeOK
      <4> QED
        BY <3>1, <4>1 DEF Acquire, Use, Venus_open
    <3>3. m = "w" /\ cnode.ovp # Null => fd'[t] = "w"
      BY <3>1 DEF MayDo
    <3>4. CASE pc'[t] = [at |-> "open", mode |-> m, got |-> Null, inner |-> TRUE]
      BY <3>4 DEF At
    <3>5. ASSUME NEW c \in Containers, cnode.ovp # Null \/ m # "w",
                 pc'[t] = [at |-> "io", mode |-> m, got |-> c, inner |-> FALSE]
          PROVE  pc'[t].at = "io" /\ (pc'[t].mode = "w" => fd'[t] = "w")
      BY <3>3, <3>5
    <3> QED
      BY <3>2, <3>4, <3>5 DEF At
  <2> QED
    BY <2>1, <2>2, <2>3, <2>4
<1> QED
  BY <1>t, <1>1, <1>2, <1>3, AttrSame

LEMMA AttrOpens ==
  ASSUME Inv, TypeOK', AttrInv, "slow" \notin Env, NEW t \in Threads,
         OpenAnswer(t) \/ OpenFails(t) \/ OpenDone(t) \/ OpenContainerFails(t)
  PROVE  AttrInv'
<1>t. TypeOK /\ Own(t) /\ pc[t] \in Entries /\ cnode \in Cnodes /\ pc \in [Threads -> Entries]
  BY StepsAlone DEF Inv, Step, TypeOK, Entries, Cnodes
<1>1. Prompt(t) /\ pc[t].at \in {"open", "grab"} /\ UNCHANGED data
  BY DEF OpenAnswer, OpenFails, OpenDone, OpenContainerFails, At
<1>2. Ahead = {}
  BY <1>1, NobodyAhead
<1>3. venus'.file = venus.file
  BY <1>t DEF OpenAnswer, OpenFails, OpenDone, OpenContainerFails, TypeOK
<1>4. /\ pc'[t].at \notin {"answered", "set"}
      /\ At(t, "io")' => pc'[t].inner
  BY <1>t, <1>1 DEF OpenAnswer, OpenFails, OpenDone, OpenContainerFails, Go, Idle, At, Entries
<1>5. cnode'.vattr # Null => cnode'.vattr = cnode.vattr /\ cnode'.owrite = cnode.owrite
  <2>1. CASE OpenAnswer(t) \/ OpenFails(t)
    BY <2>1 DEF OpenAnswer, OpenFails
  <2>2. CASE cnode' = Opened(pc[t].got, pc[t].mode)
    BY <1>t, <2>2 DEF Opened, Cnodes
  <2> QED
    BY <2>1, <2>2 DEF OpenDone, OpenContainerFails
<1>6. cnode'.vattr # Null => /\ cnode'.vattr = cnode.vattr /\ cnode'.owrite = 0
                             /\ data'[venus'.file] = data[venus.file]
  BY <1>1, <1>3, <1>5 DEF AttrInv
<1> QED
  BY <1>t, <1>2, <1>4, <1>6, AttrKept

LEMMA AttrCloses ==
  ASSUME Inv, TypeOK', AttrInv, "slow" \notin Env, NEW t \in Threads,
         \/ CloseDirectory(t) \/ CloseUnmounting(t) \/ coda_close(t) \/ CloseCounts(t)
         \/ (\E told \in BOOLEAN : CloseDone(t, told)) \/ RdwrDone(t)
  PROVE  AttrInv'
<1>t. TypeOK /\ Own(t) /\ pc[t] \in Entries /\ cnode \in Cnodes /\ pc \in [Threads -> Entries]
  BY StepsAlone DEF Inv, Step, TypeOK, Entries, Cnodes
<1>1. /\ Prompt(t) /\ pc[t].at \in {"idle", "io", "wrote", "vclose", "close"} /\ UNCHANGED data
  BY DEF CloseDirectory, CloseUnmounting, coda_close, CloseCounts, CloseDone, RdwrDone, Closing, At
<1>2. Ahead = {}
  BY <1>1, NobodyAhead
<1>3. venus'.file = venus.file
  BY <1>t DEF CloseDirectory, CloseUnmounting, coda_close, CloseCounts, CloseDone, RdwrDone, TypeOK
<1>4. pc'[t].at \in {"idle", "vclose", "close"}
  BY <1>t DEF CloseDirectory, CloseUnmounting, coda_close, CloseCounts, CloseDone, RdwrDone,
              Returns, Go, Idle, Entries
<1>5. cnode'.vattr # Null => cnode'.vattr = cnode.vattr /\ cnode'.owrite = 0
  <2>1. CASE CloseDirectory(t) \/ coda_close(t)
    BY <2>1 DEF CloseDirectory, coda_close, AttrInv
  <2>2. CASE cnode' = Flushed(t) \/ RdwrDone(t)
    BY <1>t, <2>2 DEF Flushed, RdwrDone, AttrInv, Cnodes
  <2>3. CASE CloseCounts(t)
    <3>1. /\ cnode'.vattr = cnode.vattr
          /\ cnode'.owrite = IF pc[t].mode = "w" THEN cnode.owrite - 1 ELSE cnode.owrite
      BY <1>t, <2>3 DEF CloseCounts, Closed, Cnodes
    <3>2. cnode.owrite \in Nat /\ cnode'.owrite \in Nat
      BY <1>t DEF TypeOK
    <3> QED
      BY <3>1, <3>2 DEF AttrInv
  <2> QED
    BY <2>1, <2>2, <2>3 DEF CloseUnmounting, CloseDone
<1>6. cnode'.vattr # Null => /\ cnode'.vattr = cnode.vattr /\ cnode'.owrite = 0
                             /\ data'[venus'.file] = data[venus.file]
  BY <1>1, <1>3, <1>5
<1> QED
  BY <1>t, <1>2, <1>4, <1>6, AttrKept DEF At

\* Nothing is cached of a file that is written.
LEMMA AttrWrites ==
  ASSUME Inv, TypeOK', AttrInv, "slow" \notin Env, NEW t \in Threads, Write(t)
  PROVE  AttrInv'
<1>t. TypeOK /\ Own(t) /\ pc[t] \in Entries /\ CountInv
  BY StepsAlone DEF Inv, Step, TypeOK, Entries
<1>1. Prompt(t) /\ At(t, "io") /\ pc[t].mode = "w" /\ UNCHANGED <<cnode, venus, fd>>
  BY DEF Write
<1>2. Ahead = {}
  BY <1>1, NobodyAhead DEF At
<1>3. Writer(t)
  BY <1>1 DEF AttrInv, Writer, Opener, At, Modes
<1>4. cnode.owrite > 0
  BY <1>t, <1>3, Sizes, Numbers DEF CountInv
<1>5. cnode'.vattr = Null
  BY <1>1, <1>4 DEF AttrInv
<1>6. pc'[t].at = "wrote"
  BY <1>t DEF Write, Go, TypeOK
<1> QED
  BY <1>t, <1>2, <1>5, <1>6, AttrKept DEF At

\* Answers about attributes, and what is done with them.
LEMMA AttrAnswers ==
  ASSUME Inv, TypeOK', AttrInv, "slow" \notin Env, NEW t \in Threads,
         GetattrAnswer(t) \/ SetattrAnswer(t)
  PROVE  AttrInv'
<1>t. TypeOK /\ Own(t) /\ pc \in [Threads -> Entries]
  BY StepsAlone DEF Inv, Step, TypeOK, Entries
<1>1. Prompt(t) /\ pc[t].at \in {"getattr", "setattr"} /\ UNCHANGED <<cnode, venus, fd>>
  BY DEF GetattrAnswer, SetattrAnswer, At
<1>2. Ahead = {}
  BY <1>1, NobodyAhead
<1>3. \A u \in Threads \ {t} : pc'[u].at \notin {"answered", "set"}
  BY <1>t, <1>2 DEF Ahead, Own
<1>4. \/ pc'[t].at = "answered" /\ pc'[t].got = data[venus.file] /\ data' = data
      \/ pc'[t].at = "set"
  <2>1. CASE GetattrAnswer(t)
    <3>1. pc' = [pc EXCEPT ![t].at = "answered", ![t].got = data[venus.file]] /\ data' = data
      BY <2>1 DEF GetattrAnswer
    <3>2. pc'[t].at = "answered" /\ pc'[t].got = data[venus.file]
      BY <1>t, <3>1 DEF Entries
    <3> QED
      BY <3>1, <3>2
  <2>2. CASE SetattrAnswer(t)
    BY <1>t, <2>2 DEF SetattrAnswer, Go, Entries
  <2> QED
    BY <2>1, <2>2
<1>5. \A u \in Threads : At(u, "io")' => u # t /\ At(u, "io")
  BY <1>t, <1>4 DEF At, Own
<1>6. Ahead' \subseteq {t}
  BY <1>3 DEF Ahead
<1>7. \A u \in Threads : At(u, "io")' /\ pc'[u].mode = "w" /\ ~pc'[u].inner => fd'[u] = "w"
  BY <1>t, <1>5 DEF AttrInv, Own
<1>8. cnode'.vattr # Null => cnode'.vattr = data'[venus'.file] \/ At(t, "set")'
  BY <1>1, <1>2, <1>4 DEF AttrInv, Ahead, At
<1>9. \A u \in Threads : At(u, "answered")' => pc'[u].got = data'[venus'.file]
  BY <1>1, <1>3, <1>4 DEF At
<1> QED
  BY <1>1, <1>6, <1>7, <1>8, <1>9 DEF AttrInv

LEMMA AttrDone ==
  ASSUME Inv, TypeOK', AttrInv, "slow" \notin Env, NEW t \in Threads,
         GetattrDone(t) \/ SetattrDone(t)
  PROVE  AttrInv'
<1>t. TypeOK /\ Own(t) /\ pc \in [Threads -> Entries] /\ cnode \in Cnodes
  BY StepsAlone DEF Inv, Step, TypeOK, Entries, Cnodes
<1>1. UNCHANGED <<data, venus, fd>> /\ pc'[t].at = "idle"
  BY <1>t DEF GetattrDone, SetattrDone, Idle
<1>2. Ahead \subseteq {t} /\ Ahead' = {}
  <2>1. Ahead \subseteq {t}
    BY DEF GetattrDone, SetattrDone, Ahead, At, Prompt, AttrInv
  <2> QED
    BY <1>t, <1>1, <2>1 DEF Ahead, Own
<1>3. /\ cnode'.vattr # Null => cnode'.owrite = 0
      /\ cnode'.vattr # Null => cnode'.vattr = data[venus.file]
  <2>1. CASE GetattrDone(t) /\ At(t, "answered")
    <3>1. ~\E u \in Threads : At(u, "set")
      BY <1>2, <2>1 DEF Ahead, At
    <3> QED
      BY <1>t, <2>1, <3>1 DEF GetattrDone, Kept, AttrInv, Cnodes
  <2>2. CASE SetattrDone(t) /\ At(t, "set")
    BY <1>t, <2>2 DEF SetattrDone, Cnodes
  <2>3. CASE UNCHANGED cnode /\ pc[t].at \notin {"answered", "set"}
    BY <1>2, <2>3 DEF AttrInv, Ahead, At
  <2> QED
    BY <2>1, <2>2, <2>3 DEF GetattrDone, SetattrDone, At
<1>4. \A u \in Threads : At(u, "io")' => u # t
  BY <1>1 DEF At
<1>5. \A u \in Threads : ~At(u, "answered")'
  BY <1>2 DEF Ahead, At
<1>6. \A u \in Threads : At(u, "io")' /\ pc'[u].mode = "w" /\ ~pc'[u].inner => fd'[u] = "w"
  BY <1>t, <1>4 DEF AttrInv, Own, At
<1> QED
  BY <1>1, <1>2, <1>3, <1>5, <1>6 DEF AttrInv

LEMMA AttrNext ==
  ASSUME Inv, Inv', AttrInv, "slow" \notin Env, "shared" \notin Env, [Next]_vars
  PROVE  AttrInv'
<1>t. TypeOK /\ TypeOK'
  BY DEF Inv
<1>1. ASSUME NEW t \in Threads, Step(t) PROVE AttrInv'
  <2>1. CASE \/ \E m \in Modes : coda_open(t, m) \/ coda_rdwr(t, m)
             \/ coda_pagein(t) \/ coda_readdir(t) \/ coda_getattr(t) \/ coda_setattr(t)
    BY <2>1, AttrBegins
  <2>2. CASE OpenAnswer(t) \/ OpenFails(t) \/ OpenDone(t) \/ OpenContainerFails(t)
    BY <1>t, <2>2, AttrOpens
  <2>3. CASE \/ CloseDirectory(t) \/ CloseUnmounting(t) \/ coda_close(t) \/ CloseCounts(t)
             \/ (\E told \in BOOLEAN : CloseDone(t, told)) \/ RdwrDone(t)
    BY <1>t, <2>3, AttrCloses
  <2>4. CASE Write(t) \/ GetattrAnswer(t) \/ SetattrAnswer(t) \/ GetattrDone(t) \/ SetattrDone(t)
    BY <1>t, <2>4, AttrWrites, AttrAnswers, AttrDone
  <2> QED
    BY <1>1, <2>1, <2>2, <2>3, <2>4 DEF Step
<1>2. ASSUME NEW c \in Containers, Replaced(c) PROVE AttrInv'
  <2>1. /\ cnode'.vattr = Null /\ UNCHANGED <<pc, fd>>
        /\ Prompt(Null)
    BY <1>t, <1>2 DEF Replaced, TypeOK
  <2>2. UNCHANGED Ahead
    BY <2>1 DEF Ahead
  <2>3. \A t \in Threads : ~At(t, "answered")
    BY <2>1, FileAssumption DEF Prompt, At
  <2> QED
    BY <2>1, <2>2, <2>3 DEF AttrInv, At
<1>3. CASE Unmounting \/ UNCHANGED vars
  <2>1. UNCHANGED <<pc, fd, data, venus>> /\ cnode'.vattr = cnode.vattr /\ cnode'.owrite = cnode.owrite
    BY <1>t, <1>3 DEF Unmounting, vars, TypeOK
  <2> QED
    BY <2>1 DEF AttrInv, At, Ahead
<1> QED
  BY <1>1, <1>2, <1>3 DEF Next

\* Cached attributes are those of the contents Venus has, but between a change of them by
\* coda_setattr and the end of that call, whatever fails, is interrupted or replaced; as long
\* as answers about attributes are acted on before anything else happens, and nobody writes
\* a file that he does not have open.
THEOREM FileAttrRight ==
  ASSUME "slow" \notin Env, "shared" \notin Env
  PROVE  Spec => []AttrRight
<1>1. Init => AttrInv
  BY DEF Init, AttrInv, Ahead, At, Idle
<1>2. Inv /\ Inv' /\ AttrInv /\ [Next]_vars => AttrInv'
  BY AttrNext
<1>3. AttrInv => AttrRight
  BY DEF AttrInv, AttrRight, At
<1> QED
  BY <1>1, <1>2, <1>3, FileInv, PTL DEF Spec
=============================================================================
