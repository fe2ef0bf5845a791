--------------------------- MODULE CodaCnodeProofs ---------------------------
(***************************************************************************)
(* Proofs about CodaCnode: for any number of cnodes, files, threads and    *)
(* mounts and any hash function, the lists that go through c_next are what *)
(* they should be and use counts are right (Inv), and if nobody sleeps in  *)
(* make_coda_node a file has one cnode (FilesInv), so that the table       *)
(* implements CodaFiles.                                                   *)
(*                                                                         *)
(* What a list has is the least set of cnodes that its pointers do not     *)
(* lead out of; the lemmas about lists need no induction for this reason.  *)
(***************************************************************************)
EXTENDS CodaCnode, FiniteSetTheorems, TLAPS

-----------------------------------------------------------------------------
(* Lists of cnodes.                                                        *)

Lists == [head : [Buckets -> Pointer], free : Pointer, next : [Cnodes -> Pointer]]

\* The cnodes from p on: no other set that has p and whatever follows is smaller.
LEMMA MembersLeast ==
  ASSUME NEW L, NEW p, NEW S \in SUBSET Cnodes, {p} \ {Nil} \subseteq S, Onward(L, S)
  PROVE  Members(L, p) \subseteq S
  BY DEF Members, Following

LEMMA MembersOnward ==
  ASSUME NEW L, NEW p \in Pointer, L.next \in [Cnodes -> Pointer]
  PROVE  /\ Members(L, p) \in SUBSET Cnodes /\ {p} \ {Nil} \subseteq Members(L, p)
         /\ Onward(L, Members(L, p))
<1>1. Members(L, p) \in SUBSET Cnodes /\ {p} \ {Nil} \subseteq Members(L, p)
  BY DEF Members, Following, Pointer
<1>2. ASSUME NEW c \in Members(L, p), L.next[c] # Nil PROVE L.next[c] \in Members(L, p)
  <2>1. c \in Cnodes /\ L.next[c] \in Cnodes
    BY <1>1, <1>2 DEF Pointer
  <2>2. ASSUME NEW S \in Following(L, p) PROVE L.next[c] \in S
    <3>1. c \in S /\ Onward(L, S)
      BY <2>1 DEF Members, Following
    <3> QED
      BY <1>2, <3>1 DEF Onward
  <2> QED
    BY <2>1, <2>2 DEF Members
<1> QED
  BY <1>1, <1>2 DEF Onward

LEMMA NothingAtNil ==
  ASSUME NEW L
  PROVE  Members(L, Nil) = {} /\ Terminates(L, Nil)
<1>1. {} \in SUBSET Cnodes /\ {Nil} \ {Nil} \subseteq {} /\ Onward(L, {})
  BY DEF Onward
<1>2. Members(L, Nil) \subseteq {}
  BY <1>1, MembersLeast
<1> QED
  BY <1>2 DEF Terminates

\* The first, and those from the next on.
LEMMA MembersFirst ==
  ASSUME NEW L, NEW p \in Cnodes, L.next \in [Cnodes -> Pointer]
  PROVE  Members(L, p) = {p} \cup Members(L, L.next[p])
<1>1. p \in Pointer /\ L.next[p] \in Pointer /\ p # Nil
  BY CnodeAssumption DEF Pointer
<1>2. /\ Members(L, p) \in SUBSET Cnodes /\ p \in Members(L, p) /\ Onward(L, Members(L, p))
      /\ Members(L, L.next[p]) \in SUBSET Cnodes /\ {L.next[p]} \ {Nil} \subseteq Members(L, L.next[p])
      /\ Onward(L, Members(L, L.next[p]))
  BY <1>1, MembersOnward
<1>3. Members(L, p) \subseteq {p} \cup Members(L, L.next[p])
  <2> DEFINE S == {p} \cup Members(L, L.next[p])
  <2>1. S \in SUBSET Cnodes /\ {p} \ {Nil} \subseteq S
    BY <1>2
  <2>2. Onward(L, S)
    BY <1>2 DEF Onward
  <2> QED
    BY <2>1, <2>2, MembersLeast
<1>4. Members(L, L.next[p]) \subseteq Members(L, p)
  <2>1. {L.next[p]} \ {Nil} \subseteq Members(L, p)
    BY <1>2 DEF Onward
  <2> QED
    BY <1>2, <2>1, MembersLeast
<1> QED
  BY <1>2, <1>3, <1>4

\* Only the members' own pointers matter.
LEMMA MembersLocal ==
  ASSUME NEW L, NEW M, NEW p \in Pointer,
         L.next \in [Cnodes -> Pointer], M.next \in [Cnodes -> Pointer],
         \A c \in Members(L, p) : M.next[c] = L.next[c]
  PROVE  Members(M, p) = Members(L, p) /\ (Terminates(L, p) => Terminates(M, p))
<1>1. /\ Members(L, p) \in SUBSET Cnodes /\ {p} \ {Nil} \subseteq Members(L, p)
      /\ Onward(L, Members(L, p))
      /\ Members(M, p) \in SUBSET Cnodes /\ {p} \ {Nil} \subseteq Members(M, p)
      /\ Onward(M, Members(M, p))
  BY MembersOnward
<1>2. Members(M, p) \subseteq Members(L, p)
  BY <1>1, MembersLeast DEF Onward
<1>3. Members(L, p) \subseteq Members(M, p)
  <2>1. Onward(L, Members(M, p))
    BY <1>1, <1>2 DEF Onward
  <2> QED
    BY <1>1, <2>1, MembersLeast
<1> QED
  BY <1>2, <1>3 DEF Terminates

\* In a list that ends every member comes to the end, and none comes twice.
LEMMA NoLoop ==
  ASSUME NEW L, NEW p \in Pointer, L.next \in [Cnodes -> Pointer], Terminates(L, p),
         NEW c \in Members(L, p)
  PROVE  Terminates(L, c) /\ Terminates(L, L.next[c]) /\ c \notin Members(L, L.next[c])
<1>1. /\ Members(L, p) \in SUBSET Cnodes /\ {p} \ {Nil} \subseteq Members(L, p)
      /\ Onward(L, Members(L, p))
  BY MembersOnward
<1>2. p # Nil
  BY NothingAtNil
<1>3. PICK e \in Members(L, p) : L.next[e] = Nil
  BY <1>2 DEF Terminates
<1>4. \A d \in Members(L, p) : e \in Members(L, d)
  <2> DEFINE S == {d \in Members(L, p) : e \in Members(L, d)}
  <2>1. S \in SUBSET Cnodes /\ {p} \ {Nil} \subseteq S
    BY <1>1, <1>3
  <2>2. Onward(L, S)
    <3> SUFFICES ASSUME NEW d \in S, L.next[d] # Nil PROVE L.next[d] \in S
      BY DEF Onward
    <3>1. d \in Cnodes /\ L.next[d] \in Members(L, p)
      BY <1>1 DEF Onward
    <3>2. Members(L, d) = {d} \cup Members(L, L.next[d])
      BY <3>1, MembersFirst
    <3> QED
      BY <1>3, <3>1, <3>2
  <2> QED
    BY <2>1, <2>2, MembersLeast
<1>5. c \in Cnodes /\ c # Nil /\ Members(L, c) = {c} \cup Members(L, L.next[c])
  BY <1>1, CnodeAssumption, MembersFirst
<1>6. Terminates(L, c)
  BY <1>3, <1>4 DEF Terminates
<1>7. Terminates(L, L.next[c])
  <2>1. CASE L.next[c] = Nil
    BY <2>1 DEF Terminates
  <2>2. CASE L.next[c] # Nil
    <3>1. L.next[c] \in Members(L, p)
      BY <1>1, <2>2 DEF Onward
    <3> QED
      BY <1>3, <1>4, <3>1 DEF Terminates
  <2> QED
    BY <2>1, <2>2
<1>8. c \notin Members(L, L.next[c])
  <2> SUFFICES ASSUME c \in Members(L, L.next[c]) PROVE FALSE
    OBVIOUS
  <2> DEFINE S == {d \in Members(L, c) : c \in Members(L, d)}
  <2>1. c \in Pointer /\ L.next[c] \in Pointer
    BY <1>5 DEF Pointer
  <2>2. /\ Members(L, c) \in SUBSET Cnodes /\ Onward(L, Members(L, c)) /\ c \in Members(L, c)
    BY <1>5, <2>1, MembersOnward
  <2>3. S \in SUBSET Cnodes /\ {c} \ {Nil} \subseteq S
    BY <2>2
  <2>4. Onward(L, S)
    <3> SUFFICES ASSUME NEW d \in S, L.next[d] # Nil PROVE L.next[d] \in S
      BY DEF Onward
    <3>1. d \in Cnodes /\ L.next[d] \in Members(L, c)
      BY <2>2 DEF Onward
    <3>2. Members(L, d) = {d} \cup Members(L, L.next[d])
      BY <3>1, MembersFirst
    <3> QED
      BY <3>1, <3>2
  <2>5. Members(L, c) \subseteq S
    BY <2>3, <2>4, MembersLeast
  <2>6. e \in Cnodes /\ c \in Members(L, e)
    BY <1>1, <1>3, <1>4, <2>5
  <2>7. Members(L, e) = {e} \cup Members(L, Nil)
    BY <1>3, <2>6, MembersFirst
  <2>8. c = e
    BY <2>6, <2>7, NothingAtNil
  <2> QED
    BY <1>3, <2>8, NothingAtNil
<1> QED
  BY <1>6, <1>7, <1>8

\* Of two members one comes before the other.
LEMMA InOrder ==
  ASSUME NEW L, NEW p \in Pointer, L.next \in [Cnodes -> Pointer],
         NEW a \in Members(L, p), NEW b \in Members(L, p)
  PROVE  a \in Members(L, b) \/ b \in Members(L, a)
<1>1. /\ Members(L, p) \in SUBSET Cnodes /\ {p} \ {Nil} \subseteq Members(L, p)
      /\ Onward(L, Members(L, p))
  BY MembersOnward
<1> DEFINE S == {d \in Members(L, p) : d \in Members(L, b) \/ b \in Members(L, d)}
<1>2. S \in SUBSET Cnodes /\ {p} \ {Nil} \subseteq S
  BY <1>1
<1>3. b \in Pointer /\ b \in Cnodes
  BY <1>1 DEF Pointer
<1>4. Onward(L, Members(L, b)) /\ Members(L, b) \in SUBSET Cnodes /\ {b} \ {Nil} \subseteq Members(L, b)
  BY <1>3, MembersOnward
<1>5. Onward(L, S)
  <2> SUFFICES ASSUME NEW d \in S, L.next[d] # Nil PROVE L.next[d] \in S
    BY DEF Onward
  <2>1. d \in Cnodes /\ L.next[d] \in Members(L, p)
    BY <1>1 DEF Onward
  <2>2. Members(L, d) = {d} \cup Members(L, L.next[d])
    BY <2>1, MembersFirst
  <2>3. CASE d \in Members(L, b)
    BY <1>4, <2>1, <2>3 DEF Onward
  <2>4. CASE b \in Members(L, d) /\ b # d
    BY <2>1, <2>2, <2>4
  <2>5. CASE b = d
    BY <1>3, <1>4, <2>1, <2>5, CnodeAssumption DEF Onward
  <2> QED
    BY <2>3, <2>4, <2>5
<1> QED
  BY <1>2, <1>5, MembersLeast

\* A member but the first has exactly one before it.
LEMMA OneBefore ==
  ASSUME NEW L, NEW p \in Pointer, L.next \in [Cnodes -> Pointer], Terminates(L, p),
         NEW c \in Members(L, p)
  PROVE  /\ c # p => \E q \in Members(L, p) : L.next[q] = c
         /\ \A q, r \in Members(L, p) : L.next[q] = c /\ L.next[r] = c => q = r
<1>1. /\ Members(L, p) \in SUBSET Cnodes /\ {p} \ {Nil} \subseteq Members(L, p)
      /\ Onward(L, Members(L, p)) /\ Nil \notin Cnodes
  BY MembersOnward, CnodeAssumption
<1>2. ASSUME c # p, \A q \in Members(L, p) : L.next[q] # c PROVE FALSE
  <2> DEFINE S == Members(L, p) \ {c}
  <2>1. S \in SUBSET Cnodes /\ {p} \ {Nil} \subseteq S /\ Onward(L, S)
    BY <1>1, <1>2 DEF Onward
  <2>2. Members(L, p) \subseteq S
    BY <2>1, MembersLeast
  <2> QED
    BY <2>2
<1>3. ASSUME NEW q \in Members(L, p), NEW r \in Members(L, p), L.next[q] = c, L.next[r] = c,
             r \in Members(L, q)
      PROVE  q = r
  <2> SUFFICES ASSUME q # r PROVE FALSE
    OBVIOUS
  <2>1. Members(L, q) = {q} \cup Members(L, c) /\ Members(L, c) = {c} \cup Members(L, L.next[c])
    BY <1>1, <1>3, MembersFirst
  <2>2. c \notin Members(L, L.next[c])
    BY NoLoop
  <2>3. r \in Members(L, c)
    BY <1>3, <2>1
  <2>4. c \in Pointer /\ L.next[c] \in Pointer
    BY <1>1 DEF Pointer
  <2>5. CASE r = c
    <3>1. c \in Members(L, L.next[c])
      BY <1>1, <1>3, <2>5, <2>1
    <3> QED
      BY <2>2, <3>1
  <2>6. CASE r # c
    <3>1. r \in Members(L, L.next[c]) /\ Onward(L, Members(L, L.next[c]))
      BY <2>1, <2>3, <2>4, <2>6, MembersOnward
    <3> QED
      BY <1>1, <1>3, <2>2, <3>1 DEF Onward
  <2> QED
    BY <2>5, <2>6
<1>4. \A q, r \in Members(L, p) : L.next[q] = c /\ L.next[r] = c => q = r
  BY <1>3, InOrder
<1> QED
  BY <1>2, <1>4
\* Of some members one comes first.
LEMMA FirstOfSome ==
  ASSUME NEW L, NEW p \in Pointer, L.next \in [Cnodes -> Pointer],
         NEW S \in SUBSET Members(L, p), S # {}
  PROVE  \E c \in S : S \subseteq Members(L, c)
<1> SUFFICES ASSUME \A c \in S : ~(S \subseteq Members(L, c)) PROVE FALSE
  OBVIOUS
<1>1. /\ Members(L, p) \in SUBSET Cnodes /\ {p} \ {Nil} \subseteq Members(L, p)
      /\ Onward(L, Members(L, p))
  BY MembersOnward
<1> DEFINE T == {d \in Members(L, p) : S \subseteq Members(L, d)}
<1>2. T \in SUBSET Cnodes /\ {p} \ {Nil} \subseteq T
  BY <1>1
<1>3. Onward(L, T)
  <2> SUFFICES ASSUME NEW d \in T, L.next[d] # Nil PROVE L.next[d] \in T
    BY DEF Onward
  <2>1. d \in Cnodes /\ L.next[d] \in Members(L, p) /\ d \notin S
    BY <1>1 DEF Onward
  <2>2. Members(L, d) = {d} \cup Members(L, L.next[d])
    BY <2>1, MembersFirst
  <2> QED
    BY <2>1, <2>2
<1>4. Members(L, p) \subseteq T
  BY <1>2, <1>3, MembersLeast
<1> QED
  BY <1>4

\* A cnode that is put before a list.
LEMMA Pushed ==
  ASSUME NEW L, NEW M, NEW p \in Pointer, NEW c \in Cnodes,
         L.next \in [Cnodes -> Pointer], Terminates(L, p), c \notin Members(L, p),
         M.next = [L.next EXCEPT ![c] = p]
  PROVE  Members(M, c) = {c} \cup Members(L, p) /\ Terminates(M, c)
<1>1. M.next \in [Cnodes -> Pointer] /\ M.next[c] = p /\ \A d \in Members(L, p) : M.next[d] = L.next[d]
  BY MembersOnward
<1>2. Members(M, p) = Members(L, p) /\ Terminates(M, p)
  BY <1>1, MembersLocal
<1>3. Members(M, c) = {c} \cup Members(L, p)
  BY <1>1, <1>2, MembersFirst
<1>4. Terminates(M, c)
  BY <1>1, <1>2, <1>3 DEF Terminates
<1> QED
  BY <1>3, <1>4

\* A cnode that is taken out of the middle of a list.
LEMMA Cut ==
  ASSUME NEW L, NEW M, NEW p \in Pointer, L.next \in [Cnodes -> Pointer], Terminates(L, p),
         NEW c \in Members(L, p), c # p, NEW q \in Members(L, p), L.next[q] = c,
         M.next = [[L.next EXCEPT ![q] = L.next[c]] EXCEPT ![c] = Nil]
  PROVE  Members(M, p) = Members(L, p) \ {c} /\ Terminates(M, p)
<1>1. /\ Members(L, p) \in SUBSET Cnodes /\ {p} \ {Nil} \subseteq Members(L, p)
      /\ Onward(L, Members(L, p)) /\ Nil \notin Cnodes
  BY MembersOnward, CnodeAssumption
<1>2. c \in Cnodes /\ q \in Cnodes /\ L.next[c] \in Pointer
  BY <1>1
<1>3. c \notin Members(L, L.next[c]) /\ {L.next[c]} \ {Nil} \subseteq Members(L, L.next[c])
  BY <1>2, NoLoop, MembersOnward
<1>4. L.next[c] # c /\ q # c
  BY <1>1, <1>2, <1>3
<1>5. \A d \in Members(L, p) : L.next[d] = c => d = q
  BY OneBefore
<1>6. /\ M.next \in [Cnodes -> Pointer] /\ M.next[q] = L.next[c] /\ M.next[c] = Nil
      /\ \A d \in Cnodes \ {c, q} : M.next[d] = L.next[d]
  BY <1>2, <1>4 DEF Pointer
<1>7. /\ Members(M, p) \in SUBSET Cnodes /\ {p} \ {Nil} \subseteq Members(M, p)
      /\ Onward(M, Members(M, p))
  BY <1>6, MembersOnward
<1>8. Members(M, p) \subseteq Members(L, p) \ {c}
  <2> DEFINE S == Members(L, p) \ {c}
  <2>1. S \in SUBSET Cnodes /\ {p} \ {Nil} \subseteq S
    BY <1>1
  <2>2. Onward(M, S)
    <3> SUFFICES ASSUME NEW d \in S PROVE M.next[d] \in S \cup {Nil}
      BY DEF Onward
    <3>1. CASE d = q
      BY <1>1, <1>4, <1>6, <3>1 DEF Onward
    <3>2. CASE d # q
      BY <1>1, <1>5, <1>6, <3>2 DEF Onward
    <3> QED
      BY <3>1, <3>2
  <2> QED
    BY <2>1, <2>2, MembersLeast
<1>9. Members(L, p) \subseteq Members(M, p) \cup {c}
  <2> DEFINE S == {d \in Members(L, p) : IF d = c THEN L.next[c] \in Members(M, p) \cup {Nil}
                                         ELSE d \in Members(M, p)}
  <2>1. S \in SUBSET Cnodes /\ {p} \ {Nil} \subseteq S
    BY <1>1, <1>7
  <2>2. Onward(L, S)
    <3> SUFFICES ASSUME NEW d \in S, L.next[d] # Nil PROVE L.next[d] \in S
      BY DEF Onward
    <3>1. d \in Cnodes /\ L.next[d] \in Members(L, p)
      BY <1>1 DEF Onward
    <3>2. CASE d = c
      BY <1>4, <3>1, <3>2
    <3>3. CASE d = q
      BY <1>4, <1>6, <1>7, <3>1, <3>3 DEF Onward
    <3>4. CASE d \notin {c, q}
      BY <1>5, <1>6, <1>7, <3>1, <3>4 DEF Onward
    <3> QED
      BY <3>2, <3>3, <3>4
  <2>3. Members(L, p) \subseteq S
    BY <2>1, <2>2, MembersLeast
  <2> QED
    BY <2>3
<1>10. Terminates(M, p)
  <2>1. p # Nil
    BY NothingAtNil
  <2>2. PICK e \in Members(L, p) : L.next[e] = Nil
    BY <2>1 DEF Terminates
  <2>3. CASE e = c
    BY <1>4, <1>6, <1>9, <2>2, <2>3 DEF Terminates
  <2>4. CASE e # c
    BY <1>1, <1>2, <1>6, <1>9, <2>2, <2>4 DEF Terminates
  <2> QED
    BY <2>3, <2>4
<1> QED
  BY <1>8, <1>9, <1>10

-----------------------------------------------------------------------------
(* The table and the freelist.                                             *)

Chain(L, b) == Members(L, L.head[b])
FreeOnes(L) == Members(L, L.free)

\* Lists that end and have no cnode in common.
Sound(L) ==
  /\ L \in Lists /\ Terminates(L, L.free)
  /\ \A b \in Buckets : Terminates(L, L.head[b]) /\ Chain(L, b) \cap FreeOnes(L) = {}
  /\ \A a, b \in Buckets : a # b => Chain(L, a) \cap Chain(L, b) = {}

Loose(L, c) == c \notin FreeOnes(L) /\ \A b \in Buckets : c \notin Chain(L, b)

LEMMA ListTypes ==
  ASSUME NEW L \in Lists
  PROVE  /\ L.next \in [Cnodes -> Pointer] /\ L.free \in Pointer
         /\ \A b \in Buckets : L.head[b] \in Pointer
         /\ \A b \in Buckets : Chain(L, b) \subseteq Cnodes /\ Onward(L, Chain(L, b))
         /\ FreeOnes(L) \subseteq Cnodes /\ Onward(L, FreeOnes(L))
  BY MembersOnward DEF Lists, Chain, FreeOnes

LEMMA FidBucket == \A f \in Fids : HashOf[f] \in Buckets
  BY DEF Buckets

LEMMA FreedSound ==
  ASSUME NEW L, Sound(L), NEW c \in Cnodes, Loose(L, c)
  PROVE  /\ Sound(Freed(L, c)) /\ FreeOnes(Freed(L, c)) = FreeOnes(L) \cup {c}
         /\ \A b \in Buckets : Chain(Freed(L, c), b) = Chain(L, b)
<1> DEFINE M == Freed(L, c)
<1>1. L \in Lists
  BY DEF Sound
<1>2. /\ M \in Lists /\ M.head = L.head /\ M.free = c
      /\ M.next = [L.next EXCEPT ![c] = L.free]
  BY <1>1 DEF Freed, Lists, Pointer
<1>3. /\ L.next \in [Cnodes -> Pointer] /\ L.free \in Pointer /\ M.next \in [Cnodes -> Pointer]
      /\ \A b \in Buckets : L.head[b] \in Pointer /\ Chain(L, b) \subseteq Cnodes
  BY <1>1, <1>2, ListTypes
<1> HIDE DEF M
<1>4. FreeOnes(M) = FreeOnes(L) \cup {c} /\ Terminates(M, M.free)
  BY <1>2, <1>3, Pushed DEF Sound, Loose, FreeOnes
<1>5. ASSUME NEW b \in Buckets PROVE Chain(M, b) = Chain(L, b) /\ Terminates(M, M.head[b])
  <2>1. \A d \in Members(L, L.head[b]) : M.next[d] = L.next[d]
    BY <1>2, <1>3 DEF Loose, Chain
  <2> QED
    BY <1>2, <1>3, <2>1, MembersLocal DEF Sound, Chain
<1>6. Sound(M)
  BY <1>2, <1>4, <1>5 DEF Sound, Loose
<1> QED
  BY <1>4, <1>5, <1>6 DEF M

LEMMA SavedSound ==
  ASSUME NEW L, Sound(L), NEW c \in Cnodes, Loose(L, c), NEW f \in Fids
  PROVE  /\ Sound(Saved(L, c, f)) /\ FreeOnes(Saved(L, c, f)) = FreeOnes(L)
         /\ \A b \in Buckets : Chain(Saved(L, c, f), b) =
                                 IF b = HashOf[f] THEN Chain(L, b) \cup {c} ELSE Chain(L, b)
<1> DEFINE M == Saved(L, c, f)
<1>1. L \in Lists /\ HashOf[f] \in Buckets
  BY FidBucket DEF Sound
<1>2. /\ M \in Lists /\ M.head = [L.head EXCEPT ![HashOf[f]] = c] /\ M.free = L.free
      /\ M.next = [L.next EXCEPT ![c] = L.head[HashOf[f]]]
  BY <1>1 DEF Saved, Lists, Pointer
<1>3. /\ L.next \in [Cnodes -> Pointer] /\ L.free \in Pointer /\ M.next \in [Cnodes -> Pointer]
      /\ \A b \in Buckets : L.head[b] \in Pointer /\ Chain(L, b) \subseteq Cnodes
      /\ M.head[HashOf[f]] = c /\ \A b \in Buckets \ {HashOf[f]} : M.head[b] = L.head[b]
  BY <1>1, <1>2, ListTypes DEF Lists
<1> HIDE DEF M
<1>4. FreeOnes(M) = FreeOnes(L) /\ Terminates(M, M.free)
  <2>1. \A d \in Members(L, L.free) : M.next[d] = L.next[d]
    BY <1>1, <1>2, ListTypes DEF Loose, FreeOnes, Lists
  <2> QED
    BY <1>2, <1>3, <2>1, MembersLocal DEF Sound, FreeOnes
<1>5. ASSUME NEW b \in Buckets, b # HashOf[f] PROVE Chain(M, b) = Chain(L, b) /\ Terminates(M, M.head[b])
  <2>1. \A d \in Members(L, L.head[b]) : M.next[d] = L.next[d]
    BY <1>2, <1>3 DEF Loose, Chain
  <2> QED
    BY <1>2, <1>3, <1>5, <2>1, MembersLocal DEF Sound, Chain
<1>6. Chain(M, HashOf[f]) = Chain(L, HashOf[f]) \cup {c} /\ Terminates(M, M.head[HashOf[f]])
  BY <1>1, <1>2, <1>3, Pushed DEF Sound, Loose, Chain
<1>7. \A b \in Buckets : Chain(M, b) = IF b = HashOf[f] THEN Chain(L, b) \cup {c} ELSE Chain(L, b)
  BY <1>5, <1>6
<1>8. Sound(M)
  BY <1>2, <1>4, <1>5, <1>6, <1>7 DEF Sound, Loose
<1> QED
  BY <1>4, <1>7, <1>8 DEF M
\* Other lists do not notice that pointers of cnodes they do not have change.
LEMMA OthersSame ==
  ASSUME NEW L, NEW M, Sound(L), M \in Lists, NEW D \in SUBSET Cnodes,
         \A d \in Cnodes \ D : M.next[d] = L.next[d]
  PROVE  /\ M.free = L.free /\ D \cap FreeOnes(L) = {} =>
              FreeOnes(M) = FreeOnes(L) /\ Terminates(M, M.free)
         /\ \A b \in Buckets : M.head[b] = L.head[b] /\ D \cap Chain(L, b) = {} =>
              Chain(M, b) = Chain(L, b) /\ Terminates(M, M.head[b])
<1>1. /\ L.next \in [Cnodes -> Pointer] /\ L.free \in Pointer /\ M.next \in [Cnodes -> Pointer]
      /\ \A b \in Buckets : L.head[b] \in Pointer /\ Chain(L, b) \subseteq Cnodes
      /\ FreeOnes(L) \subseteq Cnodes
  BY ListTypes DEF Sound
<1>2. ASSUME M.free = L.free, D \cap FreeOnes(L) = {}
      PROVE  FreeOnes(M) = FreeOnes(L) /\ Terminates(M, M.free)
  <2>1. \A d \in Members(L, L.free) : M.next[d] = L.next[d]
    BY <1>1, <1>2 DEF FreeOnes
  <2> QED
    BY <1>1, <1>2, <2>1, MembersLocal DEF Sound, FreeOnes
<1>3. ASSUME NEW b \in Buckets, M.head[b] = L.head[b], D \cap Chain(L, b) = {}
      PROVE  Chain(M, b) = Chain(L, b) /\ Terminates(M, M.head[b])
  <2>1. \A d \in Members(L, L.head[b]) : M.next[d] = L.next[d]
    BY <1>1, <1>3 DEF Chain
  <2> QED
    BY <1>1, <1>3, <2>1, MembersLocal DEF Sound, Chain
<1> QED
  BY <1>2, <1>3

\* The first of a list leaves it.
LEMMA Popped ==
  ASSUME NEW L, NEW M, NEW c \in Cnodes, L.next \in [Cnodes -> Pointer], Terminates(L, c),
         M.next = [L.next EXCEPT ![c] = Nil]
  PROVE  /\ Members(M, L.next[c]) = Members(L, c) \ {c} /\ Terminates(M, L.next[c])
<1>1. L.next[c] \in Pointer /\ c \in Pointer /\ Members(L, c) = {c} \cup Members(L, L.next[c])
  BY MembersFirst DEF Pointer
<1>2. Terminates(L, L.next[c]) /\ c \notin Members(L, L.next[c])
  BY <1>1, NoLoop
<1>3. /\ M.next \in [Cnodes -> Pointer] /\ Members(L, L.next[c]) \subseteq Cnodes
      /\ \A d \in Members(L, L.next[c]) : M.next[d] = L.next[d]
  BY <1>1, <1>2, MembersOnward DEF Pointer
<1> QED
  BY <1>1, <1>2, <1>3, MembersLocal

LEMMA AllocSound ==
  ASSUME NEW L, NEW M, Sound(L), NEW c \in Cnodes,
         L.free = c \/ (L.free = Nil /\ Loose(L, c)),
         M.head = L.head, M.next = [L.next EXCEPT ![c] = Nil],
         M.free = IF L.free = Nil THEN Nil ELSE L.next[c], M \in Lists
  PROVE  /\ Sound(M) /\ FreeOnes(M) = FreeOnes(L) \ {c} /\ Loose(M, c)
         /\ \A b \in Buckets : Chain(M, b) = Chain(L, b)
<1>1. L \in Lists /\ Nil \notin Cnodes
  BY CnodeAssumption DEF Sound
<1>2. /\ M \in Lists /\ M.head = L.head /\ M.next = [L.next EXCEPT ![c] = Nil]
      /\ M.free = IF L.free = Nil THEN Nil ELSE L.next[c]
  OBVIOUS
<1>3. L.next \in [Cnodes -> Pointer] /\ \A d \in Cnodes \ {c} : M.next[d] = L.next[d]
  BY <1>1, <1>2 DEF Lists
<1>4. FreeOnes(M) = FreeOnes(L) \ {c} /\ Terminates(M, M.free)
  <2>1. CASE L.free = c
    <3>1. Terminates(L, c) /\ M.free = L.next[c] /\ L.free = c
      BY <1>1, <1>2, <2>1 DEF Sound
    <3>2. Members(M, L.next[c]) = Members(L, c) \ {c} /\ Terminates(M, L.next[c])
      BY <1>2, <1>3, <3>1, Popped
    <3> QED
      BY <3>1, <3>2 DEF FreeOnes
  <2>2. CASE L.free = Nil
    BY <1>2, <2>2, NothingAtNil DEF FreeOnes
  <2> QED
    BY <2>1, <2>2
<1>5. ASSUME NEW b \in Buckets
      PROVE  Chain(M, b) = Chain(L, b) /\ Terminates(M, M.head[b]) /\ c \notin Chain(L, b)
  <2>1. c \notin Chain(L, b)
    <3>1. CASE L.free = c
      <4>1. c \in FreeOnes(L)
        BY <1>1, <3>1, MembersOnward, ListTypes DEF FreeOnes
      <4> QED
        BY <4>1 DEF Sound
    <3> QED
      BY <3>1 DEF Loose
  <2>2. {c} \in SUBSET Cnodes /\ {c} \cap Chain(L, b) = {} /\ M.head[b] = L.head[b] /\ M \in Lists
    BY <1>2, <2>1
  <2>3. Chain(M, b) = Chain(L, b) /\ Terminates(M, M.head[b])
    BY <1>3, <2>2, OthersSame
  <2> QED
    BY <2>1, <2>3
<1>6. Sound(M) /\ Loose(M, c)
  BY <1>2, <1>4, <1>5 DEF Sound, Loose
<1> QED
  BY <1>4, <1>5, <1>6

LEMMA HeadAndNext ==
  ASSUME NEW L \in Lists, NEW M, NEW c \in Cnodes, NEW p \in Pointer, NEW b \in Buckets,
         M = [L EXCEPT !.head[b] = p, !.next[c] = Nil]
  PROVE  /\ M \in Lists /\ M.free = L.free /\ M.next = [L.next EXCEPT ![c] = Nil]
         /\ M.head = [L.head EXCEPT ![b] = p]
  BY DEF Lists, Pointer

LEMMA UnsavedSound ==
  ASSUME NEW L, Sound(L), NEW c \in Cnodes, NEW f \in Fids,
         c \notin FreeOnes(L), \A b \in Buckets \ {HashOf[f]} : c \notin Chain(L, b)
  PROVE  /\ Sound(Unsaved(L, c, f)) /\ FreeOnes(Unsaved(L, c, f)) = FreeOnes(L)
         /\ \A b \in Buckets : Chain(Unsaved(L, c, f), b) = Chain(L, b) \ {c}
         /\ Loose(Unsaved(L, c, f), c)
<1> DEFINE h == HashOf[f]
           M == Unsaved(L, c, f)
           before == {p \in Members(L, L.head[h]) : L.next[p] = c}
<1>1. L \in Lists /\ h \in Buckets /\ Nil \notin Cnodes
  BY FidBucket, CnodeAssumption DEF Sound
<1>2. /\ L.next \in [Cnodes -> Pointer] /\ L.free \in Pointer
      /\ \A b \in Buckets : L.head[b] \in Pointer /\ Chain(L, b) \subseteq Cnodes
      /\ Onward(L, Chain(L, h)) /\ {L.head[h]} \ {Nil} \subseteq Chain(L, h) /\ Terminates(L, L.head[h])
  BY <1>1, ListTypes, MembersOnward DEF Sound, Chain
<1>3. CASE c \notin Chain(L, h)
  <2>1. L.head[h] # c /\ before = {}
    BY <1>1, <1>2, <1>3 DEF Onward, Chain
  <2>2. M = L
    BY <2>1 DEF Unsaved
  <2>3. Loose(L, c) /\ \A b \in Buckets : Chain(L, b) \ {c} = Chain(L, b)
    BY <1>3 DEF Loose
  <2> QED
    BY <2>2, <2>3
<1>4. ASSUME c \in Chain(L, h), M \in Lists, M.free = L.free,
             \E D \in SUBSET Chain(L, h) : \A d \in Cnodes \ D : M.next[d] = L.next[d],
             \A b \in Buckets \ {h} : M.head[b] = L.head[b],
             Chain(M, h) = Chain(L, h) \ {c}, Terminates(M, M.head[h])
      PROVE  /\ Sound(M) /\ FreeOnes(M) = FreeOnes(L)
             /\ \A b \in Buckets : Chain(M, b) = Chain(L, b) \ {c}
             /\ Loose(M, c)
  <2> HIDE DEF M
  <2>1. PICK D \in SUBSET Chain(L, h) : \A d \in Cnodes \ D : M.next[d] = L.next[d]
    BY <1>4
  <2>2. /\ D \in SUBSET Cnodes /\ D \cap FreeOnes(L) = {}
        /\ \A b \in Buckets \ {h} : D \cap Chain(L, b) = {}
    BY <1>1, <1>2 DEF Sound
  <2>3. FreeOnes(M) = FreeOnes(L) /\ Terminates(M, M.free)
    BY <1>4, <2>1, <2>2, OthersSame
  <2>4. \A b \in Buckets \ {h} : Chain(M, b) = Chain(L, b) /\ Terminates(M, M.head[b])
    BY <1>4, <2>1, <2>2, OthersSame
  <2>5. \A b \in Buckets : Chain(M, b) = Chain(L, b) \ {c}
    BY <1>4, <2>4
  <2>6. Sound(M)
    BY <1>4, <2>3, <2>4, <2>5 DEF Sound
  <2> QED
    BY <2>3, <2>5, <2>6 DEF Loose
<1>5. CASE c \in Chain(L, h) /\ L.head[h] = c
  <2>1. M = [L EXCEPT !.head[h] = L.next[c], !.next[c] = Nil]
    BY <1>5 DEF Unsaved
  <2>2. /\ M \in Lists /\ M.free = L.free /\ M.next = [L.next EXCEPT ![c] = Nil]
        /\ M.head = [L.head EXCEPT ![h] = L.next[c]]
    <3>1. L.next[c] \in Pointer /\ Nil \in Pointer
      BY <1>2 DEF Pointer
    <3>2. PICK p \in Pointer : p = L.next[c]
      BY <3>1
    <3>3. PICK b \in Buckets : b = h
      BY <1>1
    <3>4. M = [L EXCEPT !.head[b] = p, !.next[c] = Nil]
      BY <2>1, <3>2, <3>3
    <3> HIDE DEF M, h
    <3>5. /\ M \in Lists /\ M.free = L.free /\ M.next = [L.next EXCEPT ![c] = Nil]
          /\ M.head = [L.head EXCEPT ![b] = p]
      BY <1>1, <3>4, HeadAndNext
    <3> QED
      BY <3>2, <3>3, <3>5
  <2>3. M.head[h] = L.next[c] /\ \A b \in Buckets \ {h} : M.head[b] = L.head[b]
    BY <1>1, <2>2 DEF Lists
  <2>4. \A d \in Cnodes \ {c} : M.next[d] = L.next[d]
    BY <1>2, <2>2
  <2> HIDE DEF M
  <2>5. Chain(M, h) = Chain(L, h) \ {c} /\ Terminates(M, M.head[h])
    BY <1>2, <1>5, <2>2, <2>3, Popped DEF Chain
  <2>6. {c} \in SUBSET Chain(L, h)
    BY <1>5
  <2> QED
    BY <1>4, <1>5, <2>2, <2>3, <2>4, <2>5, <2>6 DEF M
<1>6. CASE c \in Chain(L, h) /\ L.head[h] # c
  <2>1. \E q \in Members(L, L.head[h]) : L.next[q] = c
    BY <1>1, <1>2, <1>6, OneBefore DEF Chain
  <2>2. PICK q : q = (CHOOSE p \in before : TRUE)
    OBVIOUS
  <2>3. q \in before /\ before # {}
    BY <2>1, <2>2
  <2>4. M = [L EXCEPT !.next[q] = L.next[c], !.next[c] = Nil]
    BY <1>6, <2>2, <2>3 DEF Unsaved
  <2>5. q \in Cnodes /\ q \in Chain(L, h) /\ L.next[q] = c
    BY <1>1, <1>2, <2>3 DEF Chain
  <2>6. /\ M \in Lists /\ M.free = L.free /\ M.head = L.head
        /\ M.next = [[L.next EXCEPT ![q] = L.next[c]] EXCEPT ![c] = Nil]
    <3>1. L.next[c] \in Pointer /\ Nil \in Pointer
      BY <1>2 DEF Pointer
    <3>2. PICK p \in Pointer : p = L.next[c]
      BY <3>1
    <3>3. M = [L EXCEPT !.next[q] = p, !.next[c] = Nil]
      BY <2>4, <3>2
    <3> HIDE DEF M
    <3>4. /\ M \in Lists /\ M.free = L.free /\ M.head = L.head
          /\ M.next = [[L.next EXCEPT ![q] = p] EXCEPT ![c] = Nil]
      BY <1>1, <2>5, <3>3 DEF Lists, Pointer
    <3> QED
      BY <3>2, <3>4
  <2>7. \A d \in Cnodes \ {c, q} : M.next[d] = L.next[d]
    BY <1>2, <2>6
  <2> HIDE DEF M
  <2>8. Chain(M, h) = Chain(L, h) \ {c} /\ Terminates(M, M.head[h])
    BY <1>1, <1>2, <1>6, <2>5, <2>6, Cut DEF Chain
  <2>9. {c, q} \in SUBSET Chain(L, h)
    BY <1>6, <2>5
  <2> QED
    BY <1>4, <1>6, <2>6, <2>7, <2>8, <2>9 DEF M
<1> QED
  BY <1>3, <1>5, <1>6
-----------------------------------------------------------------------------
(* The inductive invariant.                                                *)

\* Nobody makes a cnode while the file system goes away.
Orderly == "late" \notin Env \/ Sleeps = {}

Makes(t) == pc[t].at \in {"newvnode", "ubc"}
Live(c) == {t \in Threads : pc[t].cp = c /\ pc[t].live}

Entries == [at : {"idle", "newvnode", "ubc", "has", "getattr", "answered", "failed"},
            cp : Pointer, live : BOOLEAN]

Types ==
  /\ links \in Lists /\ fresh \subseteq Cnodes /\ fid \in [Cnodes -> Fids]
  /\ flags \in [Cnodes -> SUBSET {"vattr", "unmounting"}]
  /\ vnode \in [Cnodes -> {"none", "mount", "nomount"}] /\ use \in [Cnodes -> Nat]
  /\ pc \in [Threads -> Entries] /\ root \in Pointer
  /\ owed \in {NotClosing, Flushing} \cup 0..Cardinality(Threads)
  /\ mounts \in 0..MaxMounts

\* The cnodes on each list.
OnChain(b) == {c \in Cnodes : use[c] > 0 /\ ~Making(c) /\ HashOf[fid[c]] = b}
OnFree == {c \in Cnodes \ fresh : vnode[c] = "none" /\ ~Making(c)}

ListInv ==
  /\ Sound(links) /\ FreeOnes(links) = OnFree
  /\ \A b \in Buckets : Chain(links, b) = OnChain(b)

\* What a thread has while it is somewhere.
PlaceOK(t) ==
  LET c == pc[t].cp IN
  /\ (pc[t].at = "idle") <=> (c = Nil)
  /\ pc[t].at = "idle" => ~pc[t].live
  /\ Makes(t) => c \notin fresh /\ Live(c) = {t} /\ c # root
  /\ pc[t].at = "newvnode" => vnode[c] = "none"
  /\ pc[t].at = "ubc" => vnode[c] = MountOf(fid[c]) /\ use[c] = 1
  /\ pc[t].live /\ ~Makes(t) => vnode[c] = MountOf(fid[c])
  /\ pc[t].live /\ t \in Users => fid[c] # CtlFid

PlaceInv == \A t \in Threads : PlaceOK(t)

MounterInv ==
  pc[Mounter].at # "idle" =>
    /\ pc[Mounter].at \in {"newvnode", "ubc", "has"} /\ pc[Mounter].live
    /\ fid[pc[Mounter].cp] \in {RootFid, CtlFid}
    /\ (root = Nil) <=> (fid[pc[Mounter].cp] = RootFid)
    /\ owed = NotClosing /\ mounts < MaxMounts

UseOK(c) ==
  /\ vnode[c] = "mount" => /\ use[c] = Cardinality(Live(c)) + (IF c = root THEN 1 ELSE 0)
                           /\ use[c] = 0 => Dying(c)
                           /\ fid[c] # CtlFid
  /\ vnode[c] = "nomount" => /\ use[c] <= mounts + (IF pc[Mounter].cp = c THEN 1 ELSE 0)
                             /\ fid[c] = CtlFid
  /\ vnode[c] = "none" => use[c] = 0 /\ \A t \in Live(c) : Makes(t)
  /\ c \in fresh => vnode[c] = "none" /\ Live(c) = {}

UseInv == \A c \in Cnodes : UseOK(c)

RootInv ==
  /\ root # Nil => vnode[root] = "mount"
  /\ owed \in Nat => root # Nil /\ Dying(root)
  /\ owed = Flushing => root = Nil /\ \A t \in Threads : ~Makes(t)

Inv == Types /\ ListInv /\ PlaceInv /\ MounterInv /\ UseInv /\ RootInv

-----------------------------------------------------------------------------
(* Threads.                                                                *)

LEMMA ThreadSets ==
  /\ IsFiniteSet(Threads) /\ Mounter \in Threads /\ Users \subseteq Threads
  /\ Cardinality(Threads) \in Nat
  /\ \A S \in SUBSET Threads :
       IsFiniteSet(S) /\ Cardinality(S) \in Nat /\ Cardinality(S) <= Cardinality(Threads)
<1>1. IsFiniteSet(Threads) /\ Mounter \in Threads /\ Users \subseteq Threads
  <2>1. IsFiniteSet({Mounter}) /\ IsFiniteSet(Users)
    BY CnodeAssumption, FS_Singleton
  <2> QED
    BY <2>1, FS_Union DEF Threads
<1> QED
  BY <1>1, FS_Subset, FS_CardinalityType

LEMMA OneMore ==
  ASSUME NEW S \in SUBSET Threads, NEW t \in Threads
  PROVE  /\ t \notin S => Cardinality(S \cup {t}) = Cardinality(S) + 1
         /\ t \in S => Cardinality(S \ {t}) = Cardinality(S) - 1 /\ Cardinality(S) > 0
<1>1. IsFiniteSet(S) /\ Cardinality(S) \in Nat /\ Cardinality(S \ {t}) \in Nat
  BY ThreadSets
<1>2. t \in S => Cardinality(S \ {t}) = Cardinality(S) - 1
  BY <1>1, FS_RemoveElement
<1>3. t \notin S => Cardinality(S \cup {t}) = Cardinality(S) + 1
  BY <1>1, FS_AddElement
<1> QED
  BY <1>1, <1>2, <1>3

\* A thread goes somewhere else.
LEMMA Moves ==
  ASSUME pc \in [Threads -> Entries], NEW t \in Threads, NEW e \in Entries,
         pc' = [pc EXCEPT ![t] = e]
  PROVE  /\ pc' \in [Threads -> Entries] /\ pc'[t] = e /\ \A u \in Threads \ {t} : pc'[u] = pc[u]
         /\ \A c : Live(c)' = (Live(c) \ {t}) \cup {u \in {t} : e.cp = c /\ e.live}
         /\ \A c : Making(c)' <=> \/ \E u \in Threads \ {t} : pc[u].cp = c /\ Makes(u)
                                  \/ e.cp = c /\ e.at \in {"newvnode", "ubc"}
<1>1. pc' \in [Threads -> Entries] /\ pc'[t] = e /\ \A u \in Threads \ {t} : pc'[u] = pc[u]
  OBVIOUS
<1>2. \A c : Live(c)' = (Live(c) \ {t}) \cup {u \in {t} : e.cp = c /\ e.live}
  BY <1>1 DEF Live
<1>3. ASSUME NEW c
      PROVE  Making(c)' <=> \/ \E u \in Threads \ {t} : pc[u].cp = c /\ Makes(u)
                            \/ e.cp = c /\ e.at \in {"newvnode", "ubc"}
  BY <1>1 DEF Making, Makes
<1> QED
  BY <1>1, <1>2, <1>3

LEMMA LiveThreads == \A c : Live(c) \in SUBSET Threads
  BY DEF Live

\* The use counts are bounded because they are right.
LEMMA TypeFollows ==
  ASSUME Inv
  PROVE  TypeOK
<1> USE DEF Inv
<1>1. ASSUME NEW c \in Cnodes PROVE use[c] \in 0..(Cardinality(Threads) + MaxMounts)
  <2>1. /\ UseOK(c) /\ use[c] \in Nat /\ mounts \in 0..MaxMounts /\ MaxMounts \in Nat \ {0}
        /\ vnode[c] \in {"none", "mount", "nomount"}
    BY CnodeAssumption DEF UseInv, Types
  <2>2. /\ Cardinality(Threads) \in Nat /\ Cardinality(Live(c)) \in Nat
        /\ Cardinality(Live(c)) <= Cardinality(Threads)
    BY ThreadSets, LiveThreads
  <2>3. pc[Mounter].cp = c => mounts < MaxMounts
    BY ThreadSets, CnodeAssumption DEF PlaceInv, PlaceOK, MounterInv
  <2>4. CASE vnode[c] = "mount"
    BY <2>1, <2>2, <2>4 DEF UseOK
  <2>5. CASE vnode[c] = "nomount"
    BY <2>1, <2>2, <2>3, <2>5 DEF UseOK
  <2>6. CASE vnode[c] = "none"
    BY <2>1, <2>2, <2>6 DEF UseOK
  <2> QED
    BY <2>1, <2>4, <2>5, <2>6
<1>2. use \in [Cnodes -> 0..(Cardinality(Threads) + MaxMounts)]
  BY <1>1 DEF Types
<1> QED
  BY <1>2 DEF Types, TypeOK, Lists, Entries

-----------------------------------------------------------------------------
(* make_coda_node.                                                         *)

\* What coda_find finds is used and has a vnode.
LEMMA MakeFound ==
  ASSUME Inv, NEW f \in Fids, Found(f), NEW c, c = Find(f)
  PROVE  /\ c \in Cnodes /\ fid[c] = f /\ use[c] > 0 /\ ~Making(c) /\ ~Dying(c)
         /\ vnode[c] = MountOf(f) /\ c \notin fresh
<1> DEFINE h == links.head[HashOf[f]]
<1>1. h \in Pointer /\ links.next \in [Cnodes -> Pointer] /\ HashOf[f] \in Buckets
  BY FidBucket, ListTypes DEF Inv, Types
<1>2. Matching(f) \in SUBSET Members(links, h) /\ Matching(f) # {}
  BY DEF Matching, Found
<1>3. \E d \in Matching(f) : Matching(f) \subseteq Members(links, d)
  BY <1>1, <1>2, FirstOfSome
<1>4. c \in Matching(f)
  BY <1>3 DEF Find
<1>5. fid[c] = f /\ ~Dying(c) /\ c \in Chain(links, HashOf[f])
  BY <1>4 DEF Matching, Chain
<1>6. c \in Cnodes /\ use[c] > 0 /\ ~Making(c)
  BY <1>1, <1>5 DEF Inv, ListInv, OnChain
<1>7. UseOK(c) /\ use[c] \in Nat /\ vnode[c] \in {"none", "mount", "nomount"}
  BY <1>6 DEF Inv, UseInv, Types
<1>8. vnode[c] # "none" /\ c \notin fresh
  BY <1>6, <1>7 DEF UseOK
<1>9. vnode[c] = MountOf(f)
  BY <1>5, <1>7, <1>8 DEF UseOK, MountOf
<1> QED
  BY <1>5, <1>6, <1>8, <1>9

\* What coda_alloc gives is used for nothing.
LEMMA MakeAlloc ==
  ASSUME Inv, NEW c \in Alloc
  PROVE  /\ c \in Cnodes /\ vnode[c] = "none" /\ use[c] = 0 /\ Live(c) = {} /\ ~Making(c)
         /\ c # root /\ (links.free = c \/ (links.free = Nil /\ Loose(links, c)))
<1>1. links \in Lists /\ links.free \in Pointer
  BY ListTypes DEF Inv, Types
<1>2. ASSUME links.free # Nil
      PROVE  c \in Cnodes /\ c = links.free /\ vnode[c] = "none" /\ ~Making(c)
  <2>1. c = links.free /\ c \in FreeOnes(links)
    BY <1>1, <1>2, MembersOnward, ListTypes DEF Alloc, FreeOnes
  <2> QED
    BY <2>1 DEF Inv, ListInv, OnFree
<1>3. ASSUME links.free = Nil
      PROVE  c \in Cnodes /\ c \in fresh /\ vnode[c] = "none" /\ ~Making(c)
  <2>1. c \in fresh /\ c \in Cnodes
    BY <1>3 DEF Alloc, Inv, Types
  <2> QED
    BY <2>1 DEF Inv, UseInv, UseOK, PlaceInv, PlaceOK, Making, Makes
<1>4. c \in Cnodes /\ vnode[c] = "none" /\ ~Making(c)
  BY <1>2, <1>3
<1>5. use[c] = 0 /\ Live(c) = {}
  BY <1>4 DEF Inv, UseInv, UseOK, Making, Makes, Live
<1>6. c # root
  BY <1>4, CnodeAssumption DEF Inv, RootInv, Types, Pointer
<1>7. links.free = Nil => Loose(links, c)
  <2>1. c \notin OnFree \/ c \notin fresh
    BY DEF OnFree
  <2>2. \A b \in Buckets : c \notin OnChain(b)
    BY <1>5 DEF OnChain
  <2> QED
    BY <1>3, <2>1, <2>2 DEF Inv, ListInv, Loose
<1> QED
  BY <1>2, <1>4, <1>5, <1>6, <1>7

\* The start of make_coda_node: of a user, or of the mounter for the root or, when it has
\* the root, for the control object.
Begins(t, f) ==
  \/ pc[t].at = "idle" /\ root' = root /\ t \in Users /\ f # CtlFid
  \/ /\ pc[t].at = "idle" /\ root' = root /\ t = Mounter /\ f = RootFid
     /\ root = Nil /\ mounts < MaxMounts
  \/ /\ t = Mounter /\ pc[t].at = "has" /\ fid[pc[t].cp] = RootFid /\ f = CtlFid
     /\ root' = pc[t].cp

LEMMA ConstantsRight ==
  /\ Mounter \in Threads /\ Mounter \notin Users /\ Users \subseteq Threads
  /\ Nil \notin Cnodes /\ Nil \notin Threads
  /\ RootFid # CtlFid /\ RootFid \in Fids /\ CtlFid \in Fids /\ Files \subseteq Fids
  /\ RootFid \notin Files /\ CtlFid \notin Files /\ MaxMounts \in Nat
  BY CnodeAssumption DEF Threads, Fids

LEMMA InvTypes ==
  ASSUME Inv
  PROVE  /\ links \in Lists /\ fresh \subseteq Cnodes /\ fid \in [Cnodes -> Fids]
         /\ flags \in [Cnodes -> SUBSET {"vattr", "unmounting"}]
         /\ vnode \in [Cnodes -> {"none", "mount", "nomount"}] /\ use \in [Cnodes -> Nat]
         /\ pc \in [Threads -> Entries] /\ root \in Pointer /\ mounts \in Nat /\ mounts \in 0..MaxMounts
         /\ \A c \in Cnodes : UseOK(c)
         /\ \A t \in Threads : PlaceOK(t) /\ pc[t].cp \in Pointer /\ pc[t].live \in BOOLEAN
         /\ Sound(links)
  BY ConstantsRight DEF Inv, Types, UseInv, PlaceInv, ListInv, Entries

\* What the thread had becomes the root.
LEMMA Beginning ==
  ASSUME Inv, NEW t \in Threads, NEW f \in Fids, Begins(t, f)
  PROVE  /\ ~Makes(t)
         /\ \/ pc[t].cp = Nil /\ ~pc[t].live /\ root' = root
            \/ /\ t = Mounter /\ pc[t].cp \in Cnodes /\ pc[t].live /\ vnode[pc[t].cp] = "mount"
               /\ root = Nil /\ root' = pc[t].cp /\ fid[pc[t].cp] = RootFid /\ f = CtlFid
         /\ t \in Users => f # CtlFid
         /\ t = Mounter =>
              f \in {RootFid, CtlFid} /\ ((root' = Nil) <=> (f = RootFid)) /\ mounts < MaxMounts
         /\ f = CtlFid => t = Mounter
<1>1. PlaceOK(t) /\ pc[t].cp \in Pointer
  BY InvTypes
<1>2. CASE pc[t].at = "idle"
  BY <1>1, <1>2, ConstantsRight DEF Begins, PlaceOK, Makes
<1>3. CASE pc[t].at = "has"
  <2>1. /\ t = Mounter /\ fid[pc[t].cp] = RootFid /\ f = CtlFid /\ root' = pc[t].cp
    BY <1>3 DEF Begins
  <2>2. pc[t].cp \in Cnodes /\ pc[t].live /\ root = Nil /\ mounts < MaxMounts /\ ~Makes(t)
    BY <1>1, <1>3, <2>1, ConstantsRight DEF PlaceOK, Inv, MounterInv, Pointer, Makes
  <2>3. vnode[pc[t].cp] = "mount"
    BY <1>1, <2>1, <2>2, ConstantsRight DEF PlaceOK, MountOf
  <2> QED
    BY <2>1, <2>2, <2>3, ConstantsRight
<1> QED
  BY <1>2, <1>3 DEF Begins

LEMMA StartsFound ==
  ASSUME Inv, NEW t \in Threads, NEW f \in Fids, Begins(t, f), owed = NotClosing \/ t \in Users,
         NEW c \in Cnodes, c = Find(f), Found(f), Goes(t, "has", c),
         use' = Referenced(c), UNCHANGED <<links, fresh, fid, flags, vnode>>,
         UNCHANGED <<owed, mounts>>
  PROVE  Inv'
<1>1. /\ fid[c] = f /\ use[c] > 0 /\ ~Making(c) /\ ~Dying(c) /\ vnode[c] = MountOf(f) /\ c \notin fresh
  BY MakeFound
<1>2. c \in Pointer /\ c # Nil
  BY ConstantsRight DEF Pointer
<1> DEFINE e == [at |-> "has", cp |-> c, live |-> TRUE]
<1>3. e \in Entries /\ pc' = [pc EXCEPT ![t] = e]
  BY <1>2 DEF Goes, Entries
<1>4. /\ pc' \in [Threads -> Entries] /\ pc'[t] = e /\ \A u \in Threads \ {t} : pc'[u] = pc[u]
      /\ \A d : Live(d)' = (Live(d) \ {t}) \cup {u \in {t} : e.cp = d /\ e.live}
      /\ \A d : Making(d)' <=> \/ \E u \in Threads \ {t} : pc[u].cp = d /\ Makes(u)
                               \/ e.cp = d /\ e.at \in {"newvnode", "ubc"}
  <2> HIDE DEF e
  <2> QED
    BY <1>3, Moves, InvTypes
<1>5. \A d : Live(d)' = IF d = c THEN Live(d) \cup {t} ELSE Live(d) \ {t}
  BY <1>4
<1>6. /\ ~Makes(t)
      /\ \/ pc[t].cp = Nil /\ ~pc[t].live /\ root' = root
         \/ /\ t = Mounter /\ pc[t].cp \in Cnodes /\ pc[t].live /\ vnode[pc[t].cp] = "mount"
            /\ root = Nil /\ root' = pc[t].cp /\ fid[pc[t].cp] = RootFid /\ f = CtlFid
      /\ t \in Users => f # CtlFid
      /\ t = Mounter =>
              f \in {RootFid, CtlFid} /\ ((root' = Nil) <=> (f = RootFid)) /\ mounts < MaxMounts
      /\ f = CtlFid => t = Mounter
  BY Beginning
<1>7. \A d : Making(d)' <=> Making(d)
  BY <1>4, <1>6 DEF Making, Makes
<1>8. \A u \in Threads : Makes(u)' => u # t /\ Makes(u)
  BY <1>4 DEF Makes
<1>9. use' \in [Cnodes -> Nat] /\ use'[c] = use[c] + 1 /\ \A d \in Cnodes \ {c} : use'[d] = use[d]
  BY InvTypes DEF Referenced
<1>10. root' \in Pointer
  BY <1>6, InvTypes DEF Pointer
<1>11. Types'
  BY <1>4, <1>9, <1>10 DEF Inv, Types, Pointer
<1>12. ListInv'
  <2>1. \A b \in Buckets : OnChain(b)' = OnChain(b)
    <3>1. \A d \in Cnodes : use'[d] > 0 <=> use[d] > 0
      BY <1>1, <1>9, InvTypes
    <3> QED
      BY <3>1, <1>7 DEF OnChain
  <2>2. OnFree' = OnFree
    BY <1>7 DEF OnFree
  <2> QED
    BY <2>1, <2>2 DEF Inv, ListInv, Sound, FreeOnes, Chain
<1>13. PlaceInv'
  <2> SUFFICES ASSUME NEW u \in Threads PROVE PlaceOK(u)'
    BY DEF PlaceInv
  <2>1. CASE u = t
    BY <1>1, <1>2, <1>4, <1>6, <2>1 DEF PlaceOK, Makes
  <2>2. CASE u # t
    <3>1. PlaceOK(u) /\ pc'[u] = pc[u]
      BY <1>4, <2>2, InvTypes
    <3>2. ASSUME Makes(u) PROVE Live(pc[u].cp)' = {u} /\ pc[u].cp # root'
      <4>1. pc[u].cp # c /\ Live(pc[u].cp) = {u}
        BY <1>1, <3>1, <3>2 DEF Making, Makes, PlaceOK
      <4>2. pc[u].cp # root'
        BY <1>6, <2>2, <3>1, <3>2, <4>1 DEF PlaceOK, Live
      <4>3. PICK d : d = pc[u].cp
        OBVIOUS
      <4>4. Live(d)' = {u}
        BY <1>5, <2>2, <4>1, <4>3
      <4> QED
        BY <3>1, <4>2, <4>3, <4>4 DEF Live
    <3>3. pc[u].at = "ubc" => pc[u].cp # c
      BY <1>1 DEF Making
    <3>4. pc[u].at = "ubc" => use'[pc[u].cp] = use[pc[u].cp]
      BY <1>9, <3>1, <3>2, <3>3, InvTypes DEF PlaceOK, Pointer
    <3> QED
      BY <3>1, <3>2, <3>4 DEF PlaceOK, Makes, MountOf
  <2> QED
    BY <2>1, <2>2
<1>14. MounterInv'
  <2>1. CASE t = Mounter
    BY <1>1, <1>4, <1>6, <2>1, ConstantsRight DEF MounterInv
  <2>2. CASE t # Mounter
    <3>1. pc'[Mounter] = pc[Mounter] /\ root' = root
      BY <1>4, <1>6, <2>2, ConstantsRight
    <3> QED
      BY <3>1 DEF Inv, MounterInv
  <2> QED
    BY <2>1, <2>2
<1>15. UseInv'
  <2> SUFFICES ASSUME NEW d \in Cnodes PROVE UseOK(d)'
    BY DEF UseInv
  <2>1. UseOK(d) /\ use[d] \in Nat /\ use'[d] \in Nat /\ mounts \in Nat /\ Cardinality(Live(d)) \in Nat
    BY <1>9, InvTypes, LiveThreads, ThreadSets
  <2>2. CASE d = c
    <3>1. /\ Live(d)' = Live(d) \cup {t} /\ t \notin Live(d) /\ ((d = root') <=> (d = root))
          /\ pc[t].cp # d
      <4>1. pc[t].cp # c
        BY <1>1, <1>2, <1>6, ConstantsRight
      <4> QED
        BY <1>2, <1>5, <1>6, <2>2, <4>1 DEF Live
    <3>2. Cardinality(Live(d))' = Cardinality(Live(d)) + 1
      BY <3>1, LiveThreads, OneMore
    <3>3. vnode[c] = "mount" \/ (vnode[c] = "nomount" /\ t = Mounter)
      BY <1>1, <1>6 DEF MountOf
    <3>4. pc'[t].cp = c
      BY <1>4
    <3>5. CASE vnode[c] = "mount"
      BY <1>1, <1>9, <2>1, <2>2, <3>1, <3>2, <3>5 DEF UseOK
    <3>6. CASE vnode[c] = "nomount" /\ t = Mounter
      BY <1>1, <1>9, <2>1, <2>2, <3>1, <3>4, <3>6 DEF UseOK
    <3> QED
      BY <3>3, <3>5, <3>6
  <2>3. CASE d # c
    <3>1. Live(d)' = Live(d) \ {t} /\ use'[d] = use[d]
      BY <1>5, <1>9, <2>3
    <3>2. CASE d # pc[t].cp
      <4>1. Live(d)' = Live(d) /\ ((d = root') <=> (d = root))
        BY <1>6, <3>1, <3>2, ConstantsRight DEF Live
      <4>2. vnode[d] = "nomount" => use[d] <= mounts + (IF pc'[Mounter].cp = d THEN 1 ELSE 0)
        BY <1>4, <2>1, <3>2, ConstantsRight DEF UseOK
      <4>3. \A u \in Live(d) : u # t /\ (Makes(u)' <=> Makes(u))
        BY <1>4, <1>6, <3>2, ConstantsRight DEF Live, Makes
      <4> QED
        BY <2>1, <3>1, <4>1, <4>2, <4>3 DEF UseOK, Dying
    <3>3. CASE d = pc[t].cp
      <4>1. t \in Live(d) /\ vnode[d] = "mount" /\ root = Nil /\ root' = d
        BY <1>6, <3>3, ConstantsRight DEF Live
      <4>2. Cardinality(Live(d) \ {t}) = Cardinality(Live(d)) - 1
        BY <4>1, LiveThreads, OneMore
      <4> QED
        BY <2>1, <3>1, <4>1, <4>2, ConstantsRight DEF UseOK, Dying
    <3> QED
      BY <3>2, <3>3
  <2> QED
    BY <2>2, <2>3
<1>16. RootInv'
  <2>1. owed \in Nat => root # Nil
    BY DEF Inv, RootInv
  <2>2. root' # root => root = Nil /\ root' # Nil /\ t = Mounter /\ vnode[root'] = "mount"
    BY <1>6, ConstantsRight
  <2>3. owed = NotClosing => owed \notin Nat /\ owed # Flushing
    BY DEF NotClosing, Flushing
  <2>4. t = Mounter => owed = NotClosing
    BY ConstantsRight
  <2>5. CASE t = Mounter
    BY <2>2, <2>3, <2>4, <2>5 DEF Inv, RootInv
  <2>6. CASE t # Mounter
    BY <1>6, <1>8, <2>6 DEF Inv, RootInv, Dying, Makes
  <2> QED
    BY <2>5, <2>6
<1> QED
  BY <1>11, <1>12, <1>13, <1>14, <1>15, <1>16 DEF Inv

LEMMA StartsAlloc ==
  ASSUME Inv, NEW t \in Threads, NEW f \in Fids, Begins(t, f), owed = NotClosing \/ t \in Users,
         owed # Flushing,
         NEW c \in Alloc,
         links' = [links EXCEPT !.free = IF @ = Nil THEN Nil ELSE links.next[c], !.next[c] = Nil],
         fresh' = fresh \ {c},
         fid' = [fid EXCEPT ![c] = f], flags' = [flags EXCEPT ![c] = {}],
         Goes(t, "newvnode", c), UNCHANGED <<vnode, use>>,
         UNCHANGED <<owed, mounts>>
  PROVE  Inv'
<1>1. /\ c \in Cnodes /\ vnode[c] = "none" /\ use[c] = 0 /\ Live(c) = {} /\ ~Making(c)
      /\ c # root /\ (links.free = c \/ (links.free = Nil /\ Loose(links, c)))
  BY MakeAlloc
<1>2. c \in Pointer /\ c # Nil
  BY <1>1, ConstantsRight DEF Pointer
<1> DEFINE e == [at |-> "newvnode", cp |-> c, live |-> TRUE]
<1>3. e \in Entries /\ pc' = [pc EXCEPT ![t] = e]
  BY <1>2 DEF Goes, Entries
<1>4. /\ pc' \in [Threads -> Entries] /\ pc'[t] = e /\ \A u \in Threads \ {t} : pc'[u] = pc[u]
      /\ \A d : Live(d)' = (Live(d) \ {t}) \cup {u \in {t} : e.cp = d /\ e.live}
      /\ \A d : Making(d)' <=> \/ \E u \in Threads \ {t} : pc[u].cp = d /\ Makes(u)
                               \/ e.cp = d /\ e.at \in {"newvnode", "ubc"}
  <2> HIDE DEF e
  <2> QED
    BY <1>3, Moves, InvTypes
<1>5. \A d : Live(d)' = IF d = c THEN {t} ELSE Live(d) \ {t}
  BY <1>1, <1>4
<1>6. /\ ~Makes(t)
      /\ \/ pc[t].cp = Nil /\ ~pc[t].live /\ root' = root
         \/ /\ t = Mounter /\ pc[t].cp \in Cnodes /\ pc[t].live /\ vnode[pc[t].cp] = "mount"
            /\ root = Nil /\ root' = pc[t].cp /\ fid[pc[t].cp] = RootFid /\ f = CtlFid
      /\ t \in Users => f # CtlFid
      /\ t = Mounter =>
              f \in {RootFid, CtlFid} /\ ((root' = Nil) <=> (f = RootFid)) /\ mounts < MaxMounts
      /\ f = CtlFid => t = Mounter
  BY Beginning
<1>7. \A d : Making(d)' <=> (Making(d) \/ d = c)
  BY <1>4, <1>6 DEF Making, Makes
<1>8. \A u \in Threads \ {t} : Makes(u)' <=> Makes(u)
  BY <1>4 DEF Makes
<1>9. c # root' /\ pc[t].cp # c
  BY <1>1, <1>2, <1>6
<1>10. /\ fid' \in [Cnodes -> Fids] /\ fid'[c] = f /\ \A d \in Cnodes \ {c} : fid'[d] = fid[d]
       /\ flags' \in [Cnodes -> SUBSET {"vattr", "unmounting"}]
       /\ \A d \in Cnodes \ {c} : flags'[d] = flags[d]
       /\ fresh' \subseteq Cnodes /\ root' \in Pointer
  BY <1>1, <1>6, InvTypes DEF Pointer
<1>11. /\ Sound(links') /\ FreeOnes(links') = FreeOnes(links) \ {c}
       /\ \A b \in Buckets : Chain(links', b) = Chain(links, b)
  <2>1. /\ links'.head = links.head /\ links'.next = [links.next EXCEPT ![c] = Nil]
        /\ links'.free = (IF links.free = Nil THEN Nil ELSE links.next[c]) /\ links' \in Lists
    BY <1>1, InvTypes DEF Lists, Pointer
  <2>2. Sound(links)
    BY InvTypes
  <2>3. PICK M : M = links'
    OBVIOUS
  <2>4. /\ M.head = links.head /\ M.next = [links.next EXCEPT ![c] = Nil]
        /\ M.free = (IF links.free = Nil THEN Nil ELSE links.next[c]) /\ M \in Lists
    BY <2>1, <2>3
  <2>5. /\ Sound(M) /\ FreeOnes(M) = FreeOnes(links) \ {c}
        /\ \A b \in Buckets : Chain(M, b) = Chain(links, b)
    BY <1>1, <2>2, <2>4, AllocSound
  <2> QED
    BY <2>3, <2>5
<1>12. Types'
  BY <1>4, <1>10, <1>11 DEF Inv, Types, Sound
<1>13. ListInv'
  <2>1. \A b \in Buckets : OnChain(b)' = OnChain(b)
    BY <1>1, <1>7, <1>10, InvTypes DEF OnChain
  <2>2. OnFree' = OnFree \ {c}
    BY <1>7 DEF OnFree
  <2> QED
    BY <1>11, <2>1, <2>2 DEF Inv, ListInv, FreeOnes, Chain
<1>14. PlaceInv'
  <2> SUFFICES ASSUME NEW u \in Threads PROVE PlaceOK(u)'
    BY DEF PlaceInv
  <2>1. CASE u = t
    <3>1. Live(c)' = {t} /\ c \notin fresh' /\ vnode'[c] = "none" /\ fid'[c] = f
      BY <1>1, <1>5, <1>10
    <3>2. pc'[u] = e
      BY <1>4, <2>1
    <3>3. (Live(pc[u].cp))' = {t}
      BY <3>1, <3>2 DEF Live
    <3> QED
      BY <1>2, <1>6, <1>9, <2>1, <3>1, <3>2, <3>3 DEF PlaceOK, Makes
  <2>2. CASE u # t
    <3>1. PlaceOK(u) /\ pc'[u] = pc[u] /\ pc[u].cp \in Pointer
      BY <1>4, <2>2, InvTypes
    <3>2. PICK d \in Pointer : d = pc[u].cp
      BY <3>1
    <3>3. Makes(u) => d # c /\ Live(d) = {u} /\ d # root'
      BY <1>1, <1>6, <2>2, <3>1, <3>2 DEF Making, Makes, PlaceOK, Live
    <3>4. pc[u].live => d # c
      BY <1>1, <3>2 DEF Live
    <3>5. Makes(u) => (Live(pc[u].cp))' = {u}
      <4>1. Makes(u) => Live(d)' = {u}
        BY <1>5, <2>2, <3>3
      <4> QED
        BY <3>1, <3>2, <4>1 DEF Live
    <3>6. d # Nil /\ d # c => fid'[d] = fid[d]
      BY <1>10 DEF Pointer
    <3>7. pc[u].at # "idle" => d # Nil
      BY <3>1, <3>2 DEF PlaceOK
    <3>8. pc[u].live => pc[u].at # "idle"
      BY <3>1 DEF PlaceOK
    <3> QED
      BY <3>1, <3>2, <3>3, <3>4, <3>5, <3>6, <3>7, <3>8 DEF PlaceOK, Makes, MountOf
  <2> QED
    BY <2>1, <2>2
<1>15. MounterInv'
  <2>1. CASE t = Mounter
    BY <1>1, <1>4, <1>6, <1>10, <2>1, ConstantsRight DEF MounterInv
  <2>2. CASE t # Mounter
    <3>1. pc'[Mounter] = pc[Mounter] /\ root' = root /\ PlaceOK(Mounter) /\ pc[Mounter].cp \in Pointer
      BY <1>4, <1>6, <2>2, ConstantsRight, InvTypes
    <3>2. pc[Mounter].at # "idle" => fid'[pc[Mounter].cp] = fid[pc[Mounter].cp]
      BY <1>1, <1>10, <3>1, ConstantsRight DEF Inv, MounterInv, PlaceOK, Live, Pointer
    <3> QED
      BY <3>1, <3>2 DEF Inv, MounterInv
  <2> QED
    BY <2>1, <2>2
<1>16. UseInv'
  <2> SUFFICES ASSUME NEW d \in Cnodes PROVE UseOK(d)'
    BY DEF UseInv
  <2>1. UseOK(d) /\ use[d] \in Nat /\ mounts \in Nat /\ Cardinality(Live(d)) \in Nat
    BY InvTypes, LiveThreads, ThreadSets
  <2>2. CASE d = c
    <3>1. Live(d)' = {t} /\ vnode'[d] = "none" /\ use'[d] = 0 /\ d \notin fresh'
      BY <1>1, <1>5, <2>2
    <3>2. Makes(t)'
      BY <1>4 DEF Makes
    <3> QED
      BY <3>1, <3>2 DEF UseOK
  <2>3. CASE d # c
    <3>1. Live(d)' = Live(d) \ {t} /\ fid'[d] = fid[d] /\ flags'[d] = flags[d] /\ (d \in fresh' <=> d \in fresh)
      BY <1>5, <1>10, <2>3
    <3>2. CASE d # pc[t].cp
      <4>1. Live(d)' = Live(d) /\ ((d = root') <=> (d = root))
        BY <1>6, <3>1, <3>2, ConstantsRight DEF Live
      <4>2. vnode[d] = "nomount" => use[d] <= mounts + (IF pc'[Mounter].cp = d THEN 1 ELSE 0)
        BY <1>4, <2>1, <3>2, ConstantsRight DEF UseOK
      <4>3. \A u \in Live(d) : u # t /\ (Makes(u)' <=> Makes(u))
        BY <1>4, <1>6, <3>2, ConstantsRight DEF Live, Makes
      <4> QED
        BY <2>1, <3>1, <4>1, <4>2, <4>3 DEF UseOK, Dying
    <3>3. CASE d = pc[t].cp
      <4>1. t \in Live(d) /\ vnode[d] = "mount" /\ root = Nil /\ root' = d
        BY <1>6, <3>3, ConstantsRight DEF Live
      <4>2. Cardinality(Live(d) \ {t}) = Cardinality(Live(d)) - 1
        BY <4>1, LiveThreads, OneMore
      <4> QED
        BY <2>1, <3>1, <4>1, <4>2, ConstantsRight DEF UseOK, Dying
    <3> QED
      BY <3>2, <3>3
  <2> QED
    BY <2>2, <2>3
<1>17. RootInv'
  <2>1. owed \in Nat => root # Nil
    BY DEF Inv, RootInv
  <2>2. root' # root => root = Nil /\ root' # Nil /\ t = Mounter /\ vnode[root'] = "mount"
    BY <1>6, ConstantsRight
  <2>3. owed = NotClosing => owed \notin Nat /\ owed # Flushing
    BY DEF NotClosing, Flushing
  <2>4. t = Mounter => owed = NotClosing
    BY ConstantsRight
  <2>5. CASE t = Mounter
    BY <2>2, <2>3, <2>4, <2>5 DEF Inv, RootInv
  <2>6. CASE t # Mounter
    <3>1. root' = root
      BY <1>6, <2>6
    <3>2. root # Nil => flags'[root] = flags[root]
      BY <1>9, <1>10, <3>1, InvTypes DEF Pointer
    <3> QED
      BY <3>1, <3>2 DEF Inv, RootInv, Dying
  <2> QED
    BY <2>5, <2>6
<1> QED
  BY <1>12, <1>13, <1>14, <1>15, <1>16, <1>17 DEF Inv

LEMMA Starts ==
  ASSUME Inv, NEW t \in Threads, NEW f \in Fids, Begins(t, f), owed = NotClosing \/ t \in Users,
         owed # Flushing, Make(t, f), UNCHANGED <<owed, mounts>>
  PROVE  Inv'
<1>1. CASE Found(f)
  <2>1. PICK c : c = Find(f)
    OBVIOUS
  <2>2. c \in Cnodes
    BY <1>1, <2>1, MakeFound
  <2>3. Goes(t, "has", c) /\ use' = Referenced(c) /\ UNCHANGED <<links, fresh, fid, flags, vnode>>
    BY <1>1, <2>1 DEF Make
  <2> QED
    BY <1>1, <2>1, <2>2, <2>3, StartsFound
<1>2. CASE ~Found(f)
  <2>1. PICK c \in Alloc :
          /\ links' = [links EXCEPT !.free = IF @ = Nil THEN Nil ELSE links.next[c],
                                    !.next[c] = Nil]
          /\ fresh' = fresh \ {c}
          /\ fid' = [fid EXCEPT ![c] = f] /\ flags' = [flags EXCEPT ![c] = {}]
          /\ Goes(t, "newvnode", c)
    BY <1>2 DEF Make
  <2>2. UNCHANGED <<vnode, use>>
    BY <1>2 DEF Make
  <2> QED
    BY <2>1, <2>2, StartsAlloc
<1> QED
  BY <1>1, <1>2

LEMMA Truth == \A x \in BOOLEAN : x => x = TRUE
  BY Zenon

\* Who makes a cnode.
LEMMA Maker ==
  ASSUME Inv, NEW t \in Threads, Makes(t)
  PROVE  /\ pc[t].cp \in Cnodes /\ pc[t].cp \notin fresh /\ Live(pc[t].cp) = {t}
         /\ pc[t].cp # root /\ Making(pc[t].cp) /\ pc[t].live /\ pc[t].live = TRUE
         /\ \A u \in Threads \ {t} : Makes(u) => pc[u].cp # pc[t].cp
<1>1. PlaceOK(t) /\ pc[t].cp \in Pointer /\ pc[t].at # "idle" /\ \A u \in Threads : PlaceOK(u)
  BY InvTypes DEF Makes
<1>2. pc[t].cp \in Cnodes /\ pc[t].cp \notin fresh /\ Live(pc[t].cp) = {t} /\ pc[t].cp # root
  BY <1>1 DEF PlaceOK, Pointer
<1>3. pc[t].live /\ Making(pc[t].cp)
  BY <1>2 DEF Live, Making, Makes
<1>4. pc[t].live = TRUE
  BY <1>3, Truth, InvTypes
<1> QED
  BY <1>1, <1>2, <1>3, <1>4 DEF PlaceOK

LEMMA NewVnodeKeeps ==
  ASSUME Inv, NEW t \in Threads, NewVnode(t)
  PROVE  Inv'
<1>1. PICK c : c = pc[t].cp
  OBVIOUS
<1>2. /\ pc[t].at = "newvnode" /\ Makes(t) /\ pc' = [pc EXCEPT ![t] = [at |-> "ubc", cp |-> c, live |-> TRUE]]
      /\ vnode' = [vnode EXCEPT ![c] = MountOf(fid[c])] /\ use' = [use EXCEPT ![c] = 1]
      /\ UNCHANGED <<links, fresh, fid, flags, root, owed, mounts>>
  BY <1>1 DEF NewVnode, Makes, Goes
<1>3. /\ c \in Cnodes /\ c \notin fresh /\ Live(c) = {t} /\ c # root /\ Making(c) /\ pc[t].live /\ pc[t].live = TRUE
      /\ \A u \in Threads \ {t} : Makes(u) => pc[u].cp # c
  BY <1>1, <1>2, Maker
<1>4. vnode[c] = "none" /\ use[c] = 0 /\ (t \in Users => fid[c] # CtlFid)
  BY <1>1, <1>2, <1>3, InvTypes DEF PlaceOK, UseOK
<1> DEFINE e == [at |-> "ubc", cp |-> c, live |-> TRUE]
<1>5. e \in Entries /\ pc' = [pc EXCEPT ![t] = e]
  BY <1>2, <1>3 DEF Entries, Pointer
<1>6. /\ pc' \in [Threads -> Entries] /\ pc'[t] = e /\ \A u \in Threads \ {t} : pc'[u] = pc[u]
      /\ \A d : Live(d)' = (Live(d) \ {t}) \cup {u \in {t} : e.cp = d /\ e.live}
      /\ \A d : Making(d)' <=> \/ \E u \in Threads \ {t} : pc[u].cp = d /\ Makes(u)
                               \/ e.cp = d /\ e.at \in {"newvnode", "ubc"}
  <2> HIDE DEF e
  <2> QED
    BY <1>5, Moves, InvTypes
<1>7. \A d : Live(d)' = Live(d)
  BY <1>1, <1>3, <1>6 DEF Live
<1>8. (\A d : Making(d)' <=> Making(d)) /\ \A u \in Threads : Makes(u)' <=> Makes(u)
  BY <1>1, <1>2, <1>6 DEF Making, Makes
<1>9. /\ MountOf(fid[c]) \in {"mount", "nomount"} /\ vnode' \in [Cnodes -> {"none", "mount", "nomount"}]
      /\ use' \in [Cnodes -> Nat] /\ vnode'[c] = MountOf(fid[c]) /\ use'[c] = 1
      /\ \A d \in Cnodes \ {c} : vnode'[d] = vnode[d] /\ use'[d] = use[d]
  BY <1>2, <1>3, InvTypes DEF MountOf
<1>10. Types'
  BY <1>2, <1>6, <1>9 DEF Inv, Types
<1>11. ListInv'
  <2>1. \A b \in Buckets : OnChain(b)' = OnChain(b)
    BY <1>2, <1>3, <1>8, <1>9 DEF OnChain
  <2>2. OnFree' = OnFree
    BY <1>2, <1>3, <1>8, <1>9 DEF OnFree
  <2> QED
    BY <1>2, <2>1, <2>2 DEF Inv, ListInv, Sound, FreeOnes, Chain
<1>12. PlaceInv'
  <2> SUFFICES ASSUME NEW u \in Threads PROVE PlaceOK(u)'
    BY DEF PlaceInv
  <2>1. PlaceOK(u) /\ pc[u].cp \in Pointer /\ pc'[u].cp = pc[u].cp /\ (pc'[u].live <=> pc[u].live)
    BY <1>1, <1>3, <1>6, InvTypes
  <2>2. (Live(pc[u].cp))' = Live(pc[u].cp)
    BY <1>7, <2>1 DEF Live
  <2>3. CASE u = t
    BY <1>1, <1>2, <1>3, <1>4, <1>6, <1>9, <2>1, <2>2, <2>3 DEF PlaceOK, Makes, MountOf, Pointer
  <2>4. CASE u # t
    <3>1. pc[u].live => pc[u].cp # c
      BY <1>3, <2>4 DEF Live
    <3>2. Makes(u) => pc[u].cp # c
      BY <1>3, <2>4
    <3>3. pc'[u] = pc[u]
      BY <1>6, <2>4
    <3>4. PICK d \in Pointer : d = pc[u].cp
      BY <2>1
    <3>5. d # Nil /\ d # c => vnode'[d] = vnode[d] /\ use'[d] = use[d]
      BY <1>9 DEF Pointer
    <3> QED
      BY <1>2, <2>1, <2>2, <3>1, <3>2, <3>3, <3>4, <3>5 DEF PlaceOK, Makes, MountOf
  <2> QED
    BY <2>3, <2>4
<1>13. MounterInv'
  BY <1>1, <1>2, <1>6, ConstantsRight DEF Inv, MounterInv
<1>14. UseInv'
  <2> SUFFICES ASSUME NEW d \in Cnodes PROVE UseOK(d)'
    BY DEF UseInv
  <2>1. UseOK(d) /\ use[d] \in Nat /\ mounts \in Nat /\ pc'[Mounter].cp = pc[Mounter].cp
    BY <1>1, <1>6, InvTypes, ConstantsRight
  <2>2. CASE d = c
    <3>1. Cardinality(Live(d))' = 1
      BY <1>3, <1>7, <2>2, FS_Singleton
    <3>2. MountOf(fid[c]) = "nomount" => t = Mounter /\ fid[c] = CtlFid
      BY <1>4 DEF MountOf, Threads
    <3>3. MountOf(fid[c]) = "mount" => fid[c] # CtlFid
      BY DEF MountOf
    <3> QED
      BY <1>1, <1>2, <1>3, <1>9, <2>1, <2>2, <3>1, <3>2, <3>3 DEF UseOK
  <2>3. CASE d # c
    <3>1. \A u \in Live(d) : u \in Threads
      BY DEF Live
    <3>2. vnode'[d] = vnode[d] /\ use'[d] = use[d]
      BY <1>9, <2>3
    <3> QED
      BY <1>2, <1>7, <1>8, <2>1, <3>1, <3>2 DEF UseOK, Dying
  <2> QED
    BY <2>2, <2>3
<1>15. RootInv'
  <2>1. root # Nil => vnode'[root] = vnode[root]
    BY <1>3, <1>9, InvTypes DEF Pointer
  <2> QED
    BY <1>2, <1>8, <2>1 DEF Inv, RootInv, Dying
<1> QED
  BY <1>10, <1>11, <1>12, <1>13, <1>14, <1>15 DEF Inv

LEMMA SaveKeeps ==
  ASSUME Inv, NEW t \in Threads, Save(t)
  PROVE  Inv'
<1>1. PICK c : c = pc[t].cp
  OBVIOUS
<1>2. /\ pc[t].at = "ubc" /\ Makes(t) /\ pc' = [pc EXCEPT ![t].at = "has"]
      /\ links' = Saved(links, c, fid[c])
      /\ UNCHANGED <<fresh, fid, flags, vnode, use, root, owed, mounts>>
  BY <1>1 DEF Save, Makes
<1>3. /\ c \in Cnodes /\ c \notin fresh /\ Live(c) = {t} /\ c # root /\ Making(c) /\ pc[t].live /\ pc[t].live = TRUE
      /\ \A u \in Threads \ {t} : Makes(u) => pc[u].cp # c
  BY <1>1, <1>2, Maker
<1>4. vnode[c] = MountOf(fid[c]) /\ use[c] = 1 /\ (t \in Users => fid[c] # CtlFid)
  BY <1>1, <1>2, <1>3, InvTypes DEF PlaceOK
<1>5. PICK e \in Entries : pc' = [pc EXCEPT ![t] = e] /\ e.at = "has" /\ e.cp = c /\ e.live
  <2>1. [pc[t] EXCEPT !.at = "has"] \in Entries
    BY InvTypes DEF Entries
  <2> QED
    BY <1>1, <1>2, <1>3, <2>1, InvTypes DEF Entries
<1>6. /\ pc' \in [Threads -> Entries] /\ pc'[t] = e /\ \A u \in Threads \ {t} : pc'[u] = pc[u]
      /\ \A d : Live(d)' = (Live(d) \ {t}) \cup {u \in {t} : e.cp = d /\ e.live}
      /\ \A d : Making(d)' <=> \/ \E u \in Threads \ {t} : pc[u].cp = d /\ Makes(u)
                               \/ e.cp = d /\ e.at \in {"newvnode", "ubc"}
  BY <1>5, Moves, InvTypes
<1>7. \A d : Live(d)' = Live(d)
  BY <1>1, <1>3, <1>5, <1>6 DEF Live
<1>8. \A d : Making(d)' <=> (Making(d) /\ d # c)
  BY <1>1, <1>3, <1>5, <1>6 DEF Making, Makes
<1>9. \A u \in Threads : Makes(u)' <=> (Makes(u) /\ u # t)
  BY <1>5, <1>6 DEF Makes
<1>10. /\ Sound(links') /\ FreeOnes(links') = FreeOnes(links)
       /\ \A b \in Buckets : Chain(links', b) =
                               IF b = HashOf[fid[c]] THEN Chain(links, b) \cup {c} ELSE Chain(links, b)
  <2>1. Loose(links, c) /\ Sound(links) /\ fid[c] \in Fids
    BY <1>3, InvTypes DEF Loose, Inv, ListInv, OnChain, OnFree
  <2> QED
    BY <1>2, <1>3, <2>1, SavedSound
<1>11. Types'
  BY <1>2, <1>6, <1>10 DEF Inv, Types, Sound
<1>12. ListInv'
  <2>1. \A b \in Buckets : OnChain(b)' = IF b = HashOf[fid[c]] THEN OnChain(b) \cup {c} ELSE OnChain(b)
    BY <1>2, <1>3, <1>4, <1>8 DEF OnChain
  <2>2. OnFree' = OnFree
    BY <1>2, <1>4, <1>8 DEF OnFree, MountOf
  <2> QED
    BY <1>10, <2>1, <2>2 DEF Inv, ListInv, FreeOnes, Chain
<1>13. PlaceInv'
  <2> SUFFICES ASSUME NEW u \in Threads PROVE PlaceOK(u)'
    BY DEF PlaceInv
  <2>1. PlaceOK(u) /\ pc[u].cp \in Pointer /\ pc'[u].cp = pc[u].cp /\ (pc'[u].live <=> pc[u].live)
    BY <1>1, <1>3, <1>5, <1>6, InvTypes
  <2>2. (Live(pc[u].cp))' = Live(pc[u].cp)
    BY <1>7, <2>1 DEF Live
  <2>3. CASE u = t
    BY <1>1, <1>2, <1>3, <1>4, <1>5, <1>6, <2>1, <2>2, <2>3 DEF PlaceOK, Makes, MountOf, Pointer
  <2>4. CASE u # t
    <3>1. pc'[u] = pc[u]
      BY <1>6, <2>4
    <3> QED
      BY <1>2, <2>1, <2>2, <3>1 DEF PlaceOK, Makes, MountOf
  <2> QED
    BY <2>3, <2>4
<1>14. MounterInv'
  <2>1. pc'[Mounter].cp = pc[Mounter].cp /\ UNCHANGED <<fid, root, owed, mounts>>
    BY <1>1, <1>2, <1>5, <1>6, ConstantsRight
  <2>2. CASE t = Mounter
    BY <1>1, <1>2, <1>5, <1>6, <2>1, <2>2 DEF Inv, MounterInv
  <2>3. CASE t # Mounter
    <3>1. pc'[Mounter] = pc[Mounter]
      BY <1>6, <2>3, ConstantsRight
    <3> QED
      BY <2>1, <3>1 DEF Inv, MounterInv
  <2> QED
    BY <2>2, <2>3
<1>15. UseInv'
  <2> SUFFICES ASSUME NEW d \in Cnodes PROVE UseOK(d)'
    BY DEF UseInv
  <2>1. UseOK(d) /\ use[d] \in Nat /\ mounts \in Nat /\ pc'[Mounter].cp = pc[Mounter].cp
    BY <1>1, <1>5, <1>6, InvTypes, ConstantsRight
  <2>2. vnode[c] # "none"
    BY <1>4 DEF MountOf
  <2>3. vnode[d] = "none" => \A u \in Live(d) : u # t /\ (Makes(u) => Makes(u)')
    BY <1>1, <1>9, <2>2 DEF Live
  <2> QED
    BY <1>2, <1>7, <2>1, <2>3 DEF UseOK, Dying
<1>16. RootInv'
  BY <1>2, <1>9 DEF Inv, RootInv, Dying
<1> QED
  BY <1>11, <1>12, <1>13, <1>14, <1>15, <1>16 DEF Inv

\* Steps that leave cnodes where they are: those of who has one, and of Venus.
LEMMA SameShape ==
  ASSUME Inv, UNCHANGED <<links, fresh, fid, vnode, use, root, mounts>>,
         flags' \in [Cnodes -> SUBSET {"vattr", "unmounting"}],
         \A c \in Cnodes : Dying(c) => Dying(c)',
         pc' \in [Threads -> Entries],
         \A t \in Threads :
           /\ pc'[t].cp = pc[t].cp /\ pc'[t].live = pc[t].live
           /\ \/ pc'[t].at = pc[t].at
              \/ t \in Users /\ ~Makes(t) /\ pc[t].at # "idle" /\ ~Makes(t)' /\ pc'[t].at # "idle",
         \/ owed' = owed
         \/ pc[Mounter].at = "idle" /\ owed' \in 0..Cardinality(Threads) /\ root # Nil /\ Dying(root)'
         \/ owed' = NotClosing
  PROVE  Inv'
<1>1. (\A d : Live(d)' = Live(d)) /\ (\A u \in Threads : Makes(u)' <=> Makes(u))
  BY DEF Live, Makes
<1>2. \A d : Making(d)' <=> Making(d)
  BY <1>1 DEF Making, Makes
<1>3. Types'
  BY DEF Inv, Types
<1>4. ListInv'
  BY <1>2 DEF Inv, ListInv, OnChain, OnFree, Sound, FreeOnes, Chain
<1>5. PlaceInv'
  <2> SUFFICES ASSUME NEW u \in Threads PROVE PlaceOK(u)'
    BY DEF PlaceInv
  <2>1. PlaceOK(u) /\ pc'[u].cp = pc[u].cp /\ pc'[u].live = pc[u].live
    BY InvTypes
  <2>2. (Live(pc[u].cp))' = Live(pc[u].cp)
    BY <1>1, <2>1 DEF Live
  <2> QED
    BY <1>1, <2>1, <2>2 DEF PlaceOK, Makes, MountOf
<1>6. pc'[Mounter].at = pc[Mounter].at
  BY ConstantsRight
<1>7. MounterInv'
  BY <1>6, ConstantsRight DEF Inv, MounterInv
<1>8. UseInv'
  <2> SUFFICES ASSUME NEW d \in Cnodes PROVE UseOK(d)'
    BY DEF UseInv
  <2>1. UseOK(d) /\ pc'[Mounter].cp = pc[Mounter].cp
    BY InvTypes, ConstantsRight
  <2>2. \A u \in Live(d) : u \in Threads
    BY DEF Live
  <2> QED
    BY <1>1, <2>1, <2>2 DEF UseOK
<1>9. RootInv'
  <2>1. owed \in Nat => root \in Cnodes
    BY InvTypes DEF Inv, RootInv, Pointer
  <2>2. NotClosing \notin Nat /\ NotClosing # Flushing /\ Flushing \notin Nat
    BY DEF NotClosing, Flushing
  <2>3. root # Nil => vnode'[root'] = "mount"
    BY DEF Inv, RootInv
  <2>4. owed' \in 0..Cardinality(Threads) => owed' # Flushing
    BY DEF Flushing
  <2> QED
    BY <1>1, <2>1, <2>2, <2>3, <2>4 DEF Inv, RootInv
<1> QED
  BY <1>3, <1>4, <1>5, <1>7, <1>8, <1>9 DEF Inv

LEMMA MountDoneKeeps ==
  ASSUME Inv, MountDone
  PROVE  Inv'
<1> DEFINE t == Mounter
<1>1. PICK c : c = pc[t].cp
  OBVIOUS
<1>2. /\ pc[t].at = "has" /\ fid[c] = CtlFid /\ pc' = [pc EXCEPT ![t] = Idle] /\ mounts' = mounts + 1
      /\ UNCHANGED <<links, fresh, fid, flags, vnode, use, root, owed>>
  BY <1>1 DEF MountDone
<1>3. t \in Threads /\ Idle \in Entries /\ mounts \in Nat /\ MaxMounts \in Nat /\ PlaceOK(t) /\ pc[t].cp \in Pointer
  BY ConstantsRight, InvTypes DEF Idle, Entries, Pointer
<1>4. pc[t].live /\ owed = NotClosing /\ mounts < MaxMounts /\ root # Nil
  BY <1>1, <1>2, ConstantsRight DEF Inv, MounterInv
<1>5. c \in Cnodes /\ vnode[c] = "nomount" /\ t \in Live(c)
  BY <1>1, <1>2, <1>3, <1>4 DEF PlaceOK, Pointer, Makes, MountOf, Live
<1>6. /\ pc' \in [Threads -> Entries] /\ pc'[t] = Idle /\ \A u \in Threads \ {t} : pc'[u] = pc[u]
      /\ \A d : Live(d)' = (Live(d) \ {t}) \cup {u \in {t} : Idle.cp = d /\ Idle.live}
      /\ \A d : Making(d)' <=> \/ \E u \in Threads \ {t} : pc[u].cp = d /\ Makes(u)
                               \/ Idle.cp = d /\ Idle.at \in {"newvnode", "ubc"}
  <2> HIDE DEF t
  <2> QED
    BY <1>2, <1>3, Moves, InvTypes
<1>7. \A d : Live(d)' = Live(d) \ {t}
  BY <1>6 DEF Idle
<1>8. (\A d : Making(d)' <=> Making(d)) /\ \A u \in Threads : Makes(u)' <=> Makes(u)
  BY <1>1, <1>2, <1>6 DEF Making, Makes, Idle
<1>9. Types'
  <2>1. mounts' \in 0..MaxMounts
    BY <1>2, <1>3, <1>4
  <2> QED
    BY <1>2, <1>6, <2>1 DEF Inv, Types
<1>10. ListInv'
  BY <1>2, <1>8 DEF Inv, ListInv, OnChain, OnFree, Sound, FreeOnes, Chain
<1>11. PlaceInv'
  <2> SUFFICES ASSUME NEW u \in Threads PROVE PlaceOK(u)'
    BY DEF PlaceInv
  <2>1. CASE u = t
    BY <1>6, <2>1 DEF PlaceOK, Idle, Makes
  <2>2. CASE u # t
    <3>1. PlaceOK(u) /\ pc'[u] = pc[u]
      BY <1>6, <2>2, InvTypes
    <3>2. Makes(u) => (Live(pc[u].cp))' = {u}
      <4>1. Makes(u) => Live(pc[u].cp) \ {t} = {u}
        BY <2>2, <3>1 DEF PlaceOK
      <4>2. PICK d : d = pc[u].cp
        OBVIOUS
      <4>3. Makes(u) => Live(d)' = {u}
        BY <1>7, <4>1, <4>2
      <4> QED
        BY <3>1, <4>2, <4>3 DEF Live
    <3> QED
      BY <1>2, <3>1, <3>2 DEF PlaceOK, Makes, MountOf
  <2> QED
    BY <2>1, <2>2
<1>12. MounterInv'
  BY <1>6 DEF MounterInv, Idle
<1>13. UseInv'
  <2> SUFFICES ASSUME NEW d \in Cnodes PROVE UseOK(d)'
    BY DEF UseInv
  <2>1. UseOK(d) /\ use[d] \in Nat
    BY InvTypes
  <2>2. d # c => Live(d)' = Live(d)
    BY <1>1, <1>7 DEF Live
  <2>3. pc'[Mounter].cp # d
    BY <1>6, ConstantsRight DEF Idle
  <2>4. Live(d) \subseteq Threads
    BY LiveThreads
  <2>5. CASE d = c
    BY <1>2, <1>3, <1>5, <2>1, <2>3, <2>5 DEF UseOK
  <2>6. CASE d # c
    BY <1>1, <1>2, <1>3, <1>8, <2>1, <2>2, <2>3, <2>4, <2>6 DEF UseOK, Dying
  <2> QED
    BY <2>5, <2>6
<1>14. RootInv'
  BY <1>2, <1>8 DEF Inv, RootInv, Dying
<1> QED
  BY <1>9, <1>10, <1>11, <1>12, <1>13, <1>14 DEF Inv

\* A reference is given back.
LEMMA VreleLists ==
  ASSUME Inv, NEW c \in Cnodes, vnode[c] = "mount", ~Making(c), use[c] > 0, Vrele(c),
         UNCHANGED <<fresh, fid>>, \A d \in Cnodes : Making(d)' <=> Making(d)
  PROVE  /\ ListInv' /\ links' \in Lists /\ use' \in [Cnodes -> Nat]
         /\ vnode' \in [Cnodes -> {"none", "mount", "nomount"}]
         /\ flags' \in [Cnodes -> SUBSET {"vattr", "unmounting"}]
         /\ use'[c] = use[c] - 1
         /\ \A d \in Cnodes \ {c} : use'[d] = use[d] /\ vnode'[d] = vnode[d] /\ flags'[d] = flags[d]
         /\ \/ use'[c] > 0 /\ vnode' = vnode /\ flags' = flags
            \/ use'[c] = 0 /\ ~Dying(c) /\ vnode'[c] = "none"
            \/ use'[c] = 0 /\ Dying(c) /\ vnode' = vnode /\ flags' = flags
<1>1. /\ use[c] \in Nat /\ UseOK(c) /\ fid[c] \in Fids /\ Sound(links)
      /\ \A d \in Cnodes : use[d] \in Nat
  BY InvTypes DEF Inv, Types
<1>2. fid[c] # CtlFid /\ c \notin fresh
  BY <1>1 DEF UseOK
<1>3. /\ use' \in [Cnodes -> Nat] /\ use'[c] = use[c] - 1
      /\ \A d \in Cnodes \ {c} : use'[d] = use[d]
  BY <1>1, InvTypes DEF Vrele, Dropped
<1>4. c \notin FreeOnes(links) /\ \A b \in Buckets \ {HashOf[fid[c]]} : c \notin Chain(links, b)
  BY DEF Inv, ListInv, OnChain, OnFree
<1>5. Inactive(links, c) = Unsaved(links, c, fid[c])
  BY <1>2 DEF Inactive
<1> DEFINE U == Unsaved(links, c, fid[c])
<1>6. /\ Sound(U) /\ FreeOnes(U) = FreeOnes(links) /\ Loose(U, c)
      /\ \A b \in Buckets : Chain(U, b) = Chain(links, b) \ {c}
  BY <1>1, <1>4, UnsavedSound
<1>7. /\ Sound(Freed(U, c)) /\ FreeOnes(Freed(U, c)) = FreeOnes(links) \cup {c}
      /\ \A b \in Buckets : Chain(Freed(U, c), b) = Chain(links, b) \ {c}
  <2> HIDE DEF U
  <2> QED
    BY <1>6, FreedSound
<1> HIDE DEF U
<1>8. CASE use[c] > 1 /\ UNCHANGED <<links, vnode, flags>>
  <2>1. \A b \in Buckets : OnChain(b)' = OnChain(b)
    BY <1>1, <1>3, <1>8 DEF OnChain
  <2>2. OnFree' = OnFree
    BY <1>8 DEF OnFree
  <2>3. ListInv'
    BY <1>8, <2>1, <2>2 DEF Inv, ListInv, Sound, FreeOnes, Chain
  <2> QED
    BY <1>1, <1>3, <1>8, <2>3, InvTypes
<1>9. CASE /\ use[c] = 1 /\ Reclaims(c)
           /\ links' = Freed(Inactive(links, c), c)
           /\ vnode' = [vnode EXCEPT ![c] = "none"]
           /\ flags' = [flags EXCEPT ![c] = {}]
  <2>1. \A b \in Buckets : OnChain(b)' = OnChain(b) \ {c}
    BY <1>1, <1>3, <1>9 DEF OnChain
  <2>2. OnFree' = OnFree \cup {c}
    BY <1>2, <1>9, InvTypes DEF OnFree
  <2>3. links' = Freed(U, c)
    BY <1>5, <1>9 DEF U
  <2>4. ListInv' /\ links' \in Lists
    BY <1>7, <2>1, <2>2, <2>3 DEF Inv, ListInv, Sound, FreeOnes, Chain
  <2>5. ~Dying(c)
    BY <1>9 DEF Reclaims
  <2> QED
    BY <1>1, <1>3, <1>9, <2>4, <2>5, InvTypes
<1>10. CASE use[c] = 1 /\ ~Reclaims(c) /\ links' = Inactive(links, c) /\ UNCHANGED <<vnode, flags>>
  <2>1. \A b \in Buckets : OnChain(b)' = OnChain(b) \ {c}
    BY <1>1, <1>3, <1>10 DEF OnChain
  <2>2. OnFree' = OnFree
    BY <1>10 DEF OnFree
  <2>3. links' = U
    BY <1>5, <1>10 DEF U
  <2>4. ListInv' /\ links' \in Lists
    BY <1>6, <2>1, <2>2, <2>3 DEF Inv, ListInv, Sound, FreeOnes, Chain
  <2>5. Dying(c)
    BY <1>10 DEF Reclaims
  <2> QED
    BY <1>1, <1>3, <1>10, <2>4, <2>5, InvTypes
<1> QED
  BY <1>8, <1>9, <1>10 DEF Vrele

LEMMA PutKeeps ==
  ASSUME Inv, NEW t \in Threads, Put(t)
  PROVE  Inv'
<1>1. PICK c : c = pc[t].cp
  OBVIOUS
<1>2. /\ t \in Users /\ pc[t].at = "has" /\ pc' = [pc EXCEPT ![t] = Idle]
      /\ UNCHANGED <<fresh, fid, root, owed, mounts>>
      /\ \/ pc[t].live /\ Vrele(c)
         \/ ~pc[t].live /\ UNCHANGED <<links, vnode, use, flags>>
  BY <1>1 DEF Put
<1>3. Idle \in Entries /\ mounts \in Nat /\ PlaceOK(t) /\ c \in Cnodes /\ t # Mounter /\ ~Makes(t)
  BY <1>1, <1>2, ConstantsRight, InvTypes DEF Idle, Entries, Pointer, PlaceOK, Makes
<1>4. /\ pc' \in [Threads -> Entries] /\ pc'[t] = Idle /\ \A u \in Threads \ {t} : pc'[u] = pc[u]
      /\ \A d : Live(d)' = (Live(d) \ {t}) \cup {u \in {t} : Idle.cp = d /\ Idle.live}
      /\ \A d : Making(d)' <=> \/ \E u \in Threads \ {t} : pc[u].cp = d /\ Makes(u)
                               \/ Idle.cp = d /\ Idle.at \in {"newvnode", "ubc"}
  BY <1>2, <1>3, Moves, InvTypes
<1>5. \A d : Live(d)' = Live(d) \ {t}
  BY <1>4 DEF Idle
<1>6. (\A d : Making(d)' <=> Making(d)) /\ \A u \in Threads : Makes(u)' <=> Makes(u)
  BY <1>3, <1>4 DEF Making, Makes, Idle
<1>7. pc'[Mounter] = pc[Mounter]
  BY <1>3, <1>4, ConstantsRight
<1>8. MounterInv'
  BY <1>2, <1>7 DEF Inv, MounterInv
<1>9. \A d \in Cnodes : d # c \/ ~pc[t].live => Live(d)' = Live(d)
  BY <1>1, <1>5 DEF Live
\* What is left to show.
<1>10. SUFFICES Types' /\ ListInv' /\ PlaceInv' /\ UseInv' /\ RootInv'
  BY <1>8 DEF Inv
<1>11. CASE pc[t].live /\ Vrele(c)
  <2>1. vnode[c] = "mount" /\ t \in Live(c)
    BY <1>1, <1>2, <1>3, <1>11 DEF PlaceOK, MountOf, Live
  <2>2. ~Making(c)
    <3>1. ASSUME NEW u \in Threads, pc[u].cp = c, Makes(u) PROVE FALSE
      BY <1>3, <2>1, <3>1, Maker
    <3> QED
      BY <3>1 DEF Making, Makes
  <2>3. /\ UseOK(c) /\ use[c] \in Nat /\ Cardinality(Live(c)) \in Nat /\ Cardinality(Live(c) \ {t}) \in Nat
        /\ Cardinality(Live(c) \ {t}) = Cardinality(Live(c)) - 1 /\ Cardinality(Live(c)) > 0
        /\ Live(c) \ {t} \in SUBSET Threads
    <3>1. Live(c) \in SUBSET Threads /\ Live(c) \ {t} \in SUBSET Threads
      BY LiveThreads
    <3>2. Cardinality(Live(c)) \in Nat /\ Cardinality(Live(c) \ {t}) \in Nat
      BY <3>1, ThreadSets
    <3>3. Cardinality(Live(c) \ {t}) = Cardinality(Live(c)) - 1 /\ Cardinality(Live(c)) > 0
      BY <2>1, <3>1, OneMore
    <3> QED
      BY <1>3, <3>1, <3>2, <3>3, InvTypes
  <2>4. use[c] > 0 /\ use[c] = Cardinality(Live(c)) + (IF c = root THEN 1 ELSE 0) /\ fid[c] # CtlFid /\ c \notin fresh
    BY <2>1, <2>3 DEF UseOK
  <2>5. /\ ListInv' /\ links' \in Lists /\ use' \in [Cnodes -> Nat]
        /\ vnode' \in [Cnodes -> {"none", "mount", "nomount"}]
        /\ flags' \in [Cnodes -> SUBSET {"vattr", "unmounting"}]
        /\ use'[c] = use[c] - 1
        /\ \A d \in Cnodes \ {c} : use'[d] = use[d] /\ vnode'[d] = vnode[d] /\ flags'[d] = flags[d]
        /\ \/ use'[c] > 0 /\ vnode' = vnode /\ flags' = flags
           \/ use'[c] = 0 /\ ~Dying(c) /\ vnode'[c] = "none"
           \/ use'[c] = 0 /\ Dying(c) /\ vnode' = vnode /\ flags' = flags
    BY <1>2, <1>3, <1>6, <1>11, <2>1, <2>2, <2>4, VreleLists
  \* Nobody is left with what was reclaimed.
  <2>6. vnode'[c] = "none" => use'[c] = 0 /\ Live(c) \ {t} = {} /\ c # root /\ ~Dying(c)
    <3>1. CASE Cardinality(Live(c) \ {t}) = 0 /\ c # root
      <4>1. Live(c) \ {t} = {}
        BY <3>1, <2>3, FS_EmptySet, ThreadSets
      <4> QED
        BY <2>1, <2>5, <3>1, <4>1
    <3>2. CASE ~(Cardinality(Live(c) \ {t}) = 0 /\ c # root)
      BY <2>1, <2>3, <2>4, <2>5, <3>2
    <3> QED
      BY <3>1, <3>2
  <2>7. Types'
    BY <1>2, <1>4, <2>5 DEF Inv, Types
  <2>8. PlaceInv'
    <3> SUFFICES ASSUME NEW u \in Threads PROVE PlaceOK(u)'
      BY DEF PlaceInv
    <3>1. CASE u = t
      BY <1>4, <3>1 DEF PlaceOK, Idle, Makes
    <3>2. CASE u # t
      <4>1. PlaceOK(u) /\ pc'[u] = pc[u] /\ pc[u].cp \in Pointer
        BY <1>4, <3>2, InvTypes
      <4>2. PICK d \in Pointer : d = pc[u].cp
        BY <4>1
      <4>3. Makes(u) => d # c /\ Live(d)' = {u}
        BY <2>2, <1>5, <3>2, <4>1, <4>2 DEF PlaceOK, Making, Makes
      <4>4. Makes(u) => (Live(pc[u].cp))' = {u}
        BY <4>1, <4>2, <4>3 DEF Live
      <4>5. pc[u].live => u \in Live(d)
        BY <4>2 DEF Live
      <4>6. d # Nil /\ pc[u].live => vnode'[d] = vnode[d]
        BY <2>1, <2>5, <2>6, <3>2, <4>5, InvTypes DEF Pointer
      <4>7. d # Nil /\ d # c => vnode'[d] = vnode[d] /\ use'[d] = use[d]
        BY <2>5 DEF Pointer
      <4>8. pc[u].at # "idle" => d # Nil
        BY <4>1, <4>2 DEF PlaceOK
      <4>9. pc[u].live => d # Nil
        BY <4>1, <4>2 DEF PlaceOK
      <4> QED
        BY <1>2, <4>1, <4>2, <4>3, <4>4, <4>6, <4>7, <4>8, <4>9 DEF PlaceOK, Makes, MountOf
    <3> QED
      BY <3>1, <3>2
  <2>9. UseInv'
    <3> SUFFICES ASSUME NEW d \in Cnodes PROVE UseOK(d)'
      BY DEF UseInv
    <3>1. UseOK(d) /\ Live(d) \subseteq Threads
      BY InvTypes, LiveThreads
    <3>2. CASE d = c
      <4>1. Live(d)' = Live(c) \ {t}
        BY <1>5, <3>2
      <4>2. vnode'[c] \in {"mount", "none"} /\ (use'[c] = 0 /\ vnode'[c] = "mount" => Dying(c)')
        BY <2>1, <2>3, <2>5 DEF Dying
      <4>3. use'[c] = Cardinality(Live(c) \ {t}) + (IF c = root THEN 1 ELSE 0)
        BY <2>3, <2>4, <2>5
      <4> QED
        BY <1>2, <2>4, <2>6, <3>2, <4>1, <4>2, <4>3 DEF UseOK
    <3>3. CASE d # c
      BY <1>2, <1>6, <1>7, <1>9, <2>5, <3>1, <3>3 DEF UseOK, Dying
    <3> QED
      BY <3>2, <3>3
  <2>10. RootInv'
    <3>1. root # Nil => vnode'[root] = vnode[root]
      BY <2>1, <2>5, <2>6, InvTypes DEF Pointer
    <3>2. root # Nil /\ Dying(root) => Dying(root)'
      BY <1>2, <2>5, <2>6, InvTypes DEF Pointer, Dying
    <3> QED
      BY <1>2, <1>6, <3>1, <3>2 DEF Inv, RootInv
  <2> QED
    BY <2>5, <2>7, <2>8, <2>9, <2>10
<1>12. CASE ~pc[t].live /\ UNCHANGED <<links, vnode, use, flags>>
  <2>1. Types'
    BY <1>2, <1>4, <1>12 DEF Inv, Types
  <2>2. ListInv'
    BY <1>2, <1>6, <1>12 DEF Inv, ListInv, OnChain, OnFree, Sound, FreeOnes, Chain
  <2>3. PlaceInv'
    <3> SUFFICES ASSUME NEW u \in Threads PROVE PlaceOK(u)'
      BY DEF PlaceInv
    <3>1. CASE u = t
      BY <1>4, <3>1 DEF PlaceOK, Idle, Makes
    <3>2. CASE u # t
      <4>1. PlaceOK(u) /\ pc'[u] = pc[u]
        BY <1>4, <3>2, InvTypes
      <4>2. Makes(u) => (Live(pc[u].cp))' = {u}
        <5>1. PICK d : d = pc[u].cp
          OBVIOUS
        <5>2. Makes(u) => Live(d)' = {u}
          BY <1>5, <3>2, <4>1, <5>1 DEF PlaceOK
        <5> QED
          BY <4>1, <5>1, <5>2 DEF Live
      <4> QED
        BY <1>2, <1>12, <4>1, <4>2 DEF PlaceOK, Makes, MountOf
    <3> QED
      BY <3>1, <3>2
  <2>4. UseInv'
    <3> SUFFICES ASSUME NEW d \in Cnodes PROVE UseOK(d)'
      BY DEF UseInv
    <3>1. UseOK(d) /\ Live(d)' = Live(d) /\ Live(d) \subseteq Threads
      BY <1>9, <1>12, InvTypes, LiveThreads
    <3> QED
      BY <1>2, <1>6, <1>7, <1>12, <3>1 DEF UseOK, Dying
  <2>5. RootInv'
    BY <1>2, <1>6, <1>12 DEF Inv, RootInv, Dying
  <2> QED
    BY <2>1, <2>2, <2>3, <2>4, <2>5
<1> QED
  BY <1>2, <1>11, <1>12

-----------------------------------------------------------------------------
(* Venus renames, and the file system goes away.                           *)

LEMMA RehashKeeps ==
  ASSUME Inv, NEW c \in Cnodes, vnode[c] = "mount", use[c] > 0, ~Making(c),
         pc[Mounter].cp # c, NEW g \in Fids, g # CtlFid,
         links' = Rehash(c, g), fid' = [fid EXCEPT ![c] = g],
         UNCHANGED <<fresh, flags, vnode, use, pc, root, owed, mounts>>
  PROVE  Inv'
<1> DEFINE U == Unsaved(links, c, fid[c])
<1>1. /\ use[c] \in Nat /\ UseOK(c) /\ fid[c] \in Fids /\ Sound(links) /\ fid[c] # CtlFid
  BY InvTypes DEF UseOK
<1>2. c \notin FreeOnes(links) /\ \A b \in Buckets \ {HashOf[fid[c]]} : c \notin Chain(links, b)
  BY DEF Inv, ListInv, OnChain, OnFree
<1>3. /\ Sound(U) /\ FreeOnes(U) = FreeOnes(links) /\ Loose(U, c)
      /\ \A b \in Buckets : Chain(U, b) = Chain(links, b) \ {c}
  BY <1>1, <1>2, UnsavedSound
<1>4. links' = Saved(U, c, g)
  BY DEF Rehash
<1> HIDE DEF U
<1>5. /\ Sound(links') /\ FreeOnes(links') = FreeOnes(links)
      /\ \A b \in Buckets : Chain(links', b) = IF b = HashOf[g] THEN (Chain(links, b) \ {c}) \cup {c}
                                               ELSE Chain(links, b) \ {c}
  BY <1>3, <1>4, SavedSound
<1>6. fid' \in [Cnodes -> Fids] /\ fid'[c] = g /\ \A d \in Cnodes \ {c} : fid'[d] = fid[d]
  BY InvTypes
<1>7. (\A d : Making(d)' <=> Making(d)) /\ \A u \in Threads : Makes(u)' <=> Makes(u)
  BY DEF Making, Makes
<1>8. \A d : Live(d)' = Live(d)
  BY DEF Live
<1>9. Types'
  BY <1>5, <1>6 DEF Inv, Types, Sound
<1>10. ListInv'
  <2>1. \A b \in Buckets : OnChain(b)' = IF b = HashOf[g] THEN (OnChain(b) \ {c}) \cup {c}
                                         ELSE OnChain(b) \ {c}
    BY <1>6, <1>7 DEF OnChain
  <2>2. OnFree' = OnFree
    BY <1>7 DEF OnFree
  <2> QED
    BY <1>5, <2>1, <2>2 DEF Inv, ListInv, FreeOnes, Chain
<1>11. PlaceInv'
  <2> SUFFICES ASSUME NEW u \in Threads PROVE PlaceOK(u)'
    BY DEF PlaceInv
  <2>1. PlaceOK(u) /\ pc[u].cp \in Pointer
    BY InvTypes
  <2>2. PICK d \in Pointer : d = pc[u].cp
    BY <2>1
  <2>3. Live(pc[u].cp)' = Live(pc[u].cp)
    BY DEF Live
  <2>4. Makes(u) => d # c
    BY <2>2 DEF Making, Makes
  <2>5. d # Nil /\ d # c => fid'[d] = fid[d]
    BY <1>6 DEF Pointer
  <2>6. pc[u].at # "idle" => d # Nil
    BY <2>1, <2>2 DEF PlaceOK
  <2>7. pc[u].live => pc[u].at # "idle"
    BY <2>1, <2>2 DEF PlaceOK
  <2>8. d = c => MountOf(fid'[d]) = vnode[d] /\ fid'[d] # CtlFid
    BY <1>6 DEF MountOf
  <2> QED
    BY <1>7, <2>1, <2>2, <2>3, <2>4, <2>5, <2>6, <2>7, <2>8 DEF PlaceOK, Makes, MountOf
<1>12. MounterInv'
  <2>1. PlaceOK(Mounter) /\ pc[Mounter].cp \in Pointer
    BY InvTypes, ConstantsRight
  <2>2. pc[Mounter].at # "idle" => fid'[pc[Mounter].cp] = fid[pc[Mounter].cp]
    BY <1>6, <2>1 DEF PlaceOK, Pointer
  <2> QED
    BY <2>2 DEF Inv, MounterInv
<1>13. UseInv'
  <2> SUFFICES ASSUME NEW d \in Cnodes PROVE UseOK(d)'
    BY DEF UseInv
  <2>1. UseOK(d) /\ Live(d) \subseteq Threads
    BY InvTypes, LiveThreads
  <2> QED
    BY <1>6, <1>7, <1>8, <2>1 DEF UseOK, Dying
<1>14. RootInv'
  BY <1>7 DEF Inv, RootInv, Dying
<1> QED
  BY <1>9, <1>10, <1>11, <1>12, <1>13, <1>14 DEF Inv

\* The root goes first.  Nobody makes a cnode then.
LEMMA UnmountKeeps ==
  ASSUME Inv, coda_unmount, Orderly
  PROVE  Inv'
<1>1. PICK c : c = root
  OBVIOUS
<1>2. /\ owed = 0 /\ Vrele(c) /\ root' = Nil /\ owed' = Flushing
      /\ UNCHANGED <<fresh, fid, pc, mounts>>
  BY <1>1 DEF coda_unmount
<1>3. \A u \in Threads : ~Makes(u)
  <2>1. CASE "late" \notin Env
    BY <2>1 DEF coda_unmount, Quiet, Makes
  <2>2. CASE Sleeps = {}
    <3>1. \A u \in Threads : u # Nil
      BY ConstantsRight
    <3> QED
      BY <2>2, <3>1 DEF coda_unmount, Funnel, Makes
  <2> QED
    BY <2>1, <2>2 DEF Orderly
<1>4. c \in Cnodes /\ vnode[c] = "mount" /\ Dying(c)
  BY <1>1, <1>2, InvTypes DEF Inv, RootInv, Pointer
<1>5. /\ UseOK(c) /\ use[c] \in Nat /\ Cardinality(Live(c)) \in Nat
  BY <1>4, InvTypes, LiveThreads, ThreadSets
<1>6. use[c] = Cardinality(Live(c)) + 1 /\ use[c] > 0 /\ fid[c] # CtlFid /\ c \notin fresh
  BY <1>1, <1>4, <1>5 DEF UseOK
<1>7. (\A d : Making(d)' <=> Making(d)) /\ (\A d : ~Making(d)) /\ \A u \in Threads : ~Makes(u)'
  BY <1>2, <1>3 DEF Making, Makes
<1>8. /\ ListInv' /\ links' \in Lists /\ use' \in [Cnodes -> Nat]
      /\ vnode' \in [Cnodes -> {"none", "mount", "nomount"}]
      /\ flags' \in [Cnodes -> SUBSET {"vattr", "unmounting"}]
      /\ use'[c] = use[c] - 1
      /\ \A d \in Cnodes \ {c} : use'[d] = use[d] /\ vnode'[d] = vnode[d] /\ flags'[d] = flags[d]
      /\ \/ use'[c] > 0 /\ vnode' = vnode /\ flags' = flags
         \/ use'[c] = 0 /\ ~Dying(c) /\ vnode'[c] = "none"
         \/ use'[c] = 0 /\ Dying(c) /\ vnode' = vnode /\ flags' = flags
  BY <1>2, <1>4, <1>6, <1>7, VreleLists
<1>9. vnode' = vnode /\ flags' = flags
  BY <1>4, <1>8
<1>10. \A d : Live(d)' = Live(d)
  BY <1>2 DEF Live
<1>11. Types'
  BY <1>2, <1>8 DEF Inv, Types, Pointer
<1>12. PlaceInv'
  <2> SUFFICES ASSUME NEW u \in Threads PROVE PlaceOK(u)'
    BY DEF PlaceInv
  <2>1. PlaceOK(u) /\ ~Makes(u) /\ ~Makes(u)'
    BY <1>3, <1>7, InvTypes
  <2> QED
    BY <1>2, <1>9, <2>1 DEF PlaceOK, Makes, MountOf
<1>13. MounterInv'
  BY <1>2 DEF Inv, MounterInv, NotClosing
<1>14. UseInv'
  <2> SUFFICES ASSUME NEW d \in Cnodes PROVE UseOK(d)'
    BY DEF UseInv
  <2>1. UseOK(d) /\ Live(d) \subseteq Threads /\ d # Nil
    BY InvTypes, LiveThreads, ConstantsRight
  <2>2. CASE d = c
    BY <1>1, <1>2, <1>4, <1>5, <1>6, <1>8, <1>9, <1>10, <2>1, <2>2 DEF UseOK, Dying
  <2>3. CASE d # c
    BY <1>1, <1>2, <1>3, <1>8, <1>9, <1>10, <2>1, <2>3 DEF UseOK, Dying
  <2> QED
    BY <2>2, <2>3
<1>15. RootInv'
  BY <1>2, <1>7 DEF RootInv, Flushing
<1> QED
  BY <1>8, <1>11, <1>12, <1>13, <1>14, <1>15 DEF Inv

LEMMA VflushKeeps ==
  ASSUME Inv, NEW c \in Cnodes, Vflush(c)
  PROVE  Inv'
<1>1. /\ owed = Flushing /\ vnode[c] = "mount"
      /\ links' = Freed(IF use[c] > 0 THEN Inactive(links, c) ELSE links, c)
      /\ vnode' = [vnode EXCEPT ![c] = "none"] /\ use' = [use EXCEPT ![c] = 0]
      /\ flags' = [flags EXCEPT ![c] = {}]
      /\ pc' = [t \in Threads |-> IF pc[t].cp = c THEN [pc[t] EXCEPT !.live = FALSE] ELSE pc[t]]
      /\ UNCHANGED <<fresh, fid, root, owed, mounts>>
  BY DEF Vflush
<1>2. root = Nil /\ (\A t \in Threads : ~Makes(t)) /\ owed # NotClosing
  BY <1>1 DEF Inv, RootInv, Flushing, NotClosing
<1>3. UseOK(c) /\ fid[c] \in Fids /\ Sound(links) /\ use[c] \in Nat
  BY InvTypes
<1>4. fid[c] # CtlFid /\ c \notin fresh
  BY <1>1, <1>3 DEF UseOK
<1>5. /\ pc' \in [Threads -> Entries]
      /\ \A u \in Threads : /\ pc'[u].at = pc[u].at /\ pc'[u].cp = pc[u].cp
                            /\ pc[u].cp # c => pc'[u] = pc[u]
                            /\ pc[u].cp = c => ~pc'[u].live
  <2>1. ASSUME NEW u \in Threads
        PROVE  pc[u] \in Entries /\ [pc[u] EXCEPT !.live = FALSE] \in Entries
    BY InvTypes DEF Entries
  <2> QED
    BY <1>1, <2>1 DEF Entries
<1>6. Live(c)' = {} /\ \A d : d # c => Live(d)' = Live(d)
  BY <1>5 DEF Live
<1>7. (\A u \in Threads : ~Makes(u)') /\ (\A d : ~Making(d)) /\ \A d : ~Making(d)'
  BY <1>2, <1>5 DEF Makes, Making
<1>8. /\ vnode' \in [Cnodes -> {"none", "mount", "nomount"}] /\ use' \in [Cnodes -> Nat]
      /\ flags' \in [Cnodes -> SUBSET {"vattr", "unmounting"}] /\ vnode'[c] = "none" /\ use'[c] = 0
      /\ \A d \in Cnodes \ {c} : use'[d] = use[d] /\ vnode'[d] = vnode[d] /\ flags'[d] = flags[d]
  BY <1>1, InvTypes
<1>9. /\ Sound(links') /\ FreeOnes(links') = FreeOnes(links) \cup {c}
      /\ \A b \in Buckets : Chain(links', b) = Chain(links, b) \ {c}
  <2>1. c \notin FreeOnes(links) /\ \A b \in Buckets \ {HashOf[fid[c]]} : c \notin Chain(links, b)
    BY <1>1 DEF Inv, ListInv, OnChain, OnFree
  <2>2. CASE use[c] > 0
    <3> DEFINE U == Unsaved(links, c, fid[c])
    <3>1. /\ Sound(U) /\ FreeOnes(U) = FreeOnes(links) /\ Loose(U, c)
          /\ \A b \in Buckets : Chain(U, b) = Chain(links, b) \ {c}
      BY <1>3, <2>1, UnsavedSound
    <3>2. links' = Freed(U, c)
      BY <1>1, <1>4, <2>2 DEF Inactive
    <3> HIDE DEF U
    <3> QED
      BY <3>1, <3>2, FreedSound
  <2>3. CASE ~(use[c] > 0)
    <3>1. \A b \in Buckets : c \notin Chain(links, b)
      BY <2>3 DEF Inv, ListInv, OnChain
    <3>2. links' = Freed(links, c)
      BY <1>1, <2>3
    <3> QED
      BY <1>3, <2>1, <3>1, <3>2, FreedSound DEF Loose
  <2> QED
    BY <2>2, <2>3
<1>10. Types'
  BY <1>1, <1>5, <1>8, <1>9 DEF Inv, Types, Sound
<1>11. ListInv'
  <2>1. \A b \in Buckets : OnChain(b)' = OnChain(b) \ {c}
    BY <1>1, <1>7, <1>8 DEF OnChain
  <2>2. OnFree' = OnFree \cup {c}
    BY <1>1, <1>4, <1>7, <1>8 DEF OnFree
  <2> QED
    BY <1>9, <2>1, <2>2 DEF Inv, ListInv, FreeOnes, Chain
<1>12. PlaceInv'
  <2> SUFFICES ASSUME NEW u \in Threads PROVE PlaceOK(u)'
    BY DEF PlaceInv
  <2>1. PlaceOK(u) /\ ~Makes(u) /\ ~Makes(u)' /\ pc[u].cp \in Pointer
    BY <1>2, <1>7, InvTypes
  <2>2. CASE pc[u].cp = c
    BY <1>5, <2>1, <2>2 DEF PlaceOK, Makes
  <2>3. CASE pc[u].cp # c
    <3>1. pc'[u] = pc[u]
      BY <1>5, <2>3
    <3>2. pc[u].live => vnode'[pc[u].cp] = vnode[pc[u].cp]
      BY <1>8, <2>1, <2>3 DEF PlaceOK, Pointer
    <3> QED
      BY <1>1, <2>1, <3>1, <3>2 DEF PlaceOK, Makes, MountOf
  <2> QED
    BY <2>2, <2>3
<1>13. MounterInv'
  BY <1>2, <1>5, ConstantsRight DEF Inv, MounterInv
<1>14. UseInv'
  <2> SUFFICES ASSUME NEW d \in Cnodes PROVE UseOK(d)'
    BY DEF UseInv
  <2>1. UseOK(d) /\ Live(d) \subseteq Threads /\ pc'[Mounter].cp = pc[Mounter].cp
    BY <1>5, InvTypes, LiveThreads, ConstantsRight
  <2>2. CASE d = c
    BY <1>1, <1>4, <1>6, <1>8, <2>2 DEF UseOK
  <2>3. CASE d # c
    BY <1>1, <1>2, <1>6, <1>8, <2>1, <2>3 DEF UseOK, Dying
  <2> QED
    BY <2>2, <2>3
<1>15. RootInv'
  BY <1>1, <1>2, <1>7 DEF RootInv, Flushing
<1> QED
  BY <1>10, <1>11, <1>12, <1>13, <1>14, <1>15 DEF Inv

-----------------------------------------------------------------------------
(* The invariant holds.                                                    *)

LEMMA InvInit ==
  ASSUME Init
  PROVE  Inv
<1>1. /\ links.free = Nil /\ links \in Lists /\ \A b \in Buckets : links.head[b] = Nil
  BY DEF Init, Lists, Pointer
<1>2. /\ FreeOnes(links) = {} /\ Terminates(links, links.free)
      /\ \A b \in Buckets : Chain(links, b) = {} /\ Terminates(links, links.head[b])
  BY <1>1, NothingAtNil DEF FreeOnes, Chain
<1>3. (\A t \in Threads : pc[t] = Idle) /\ \A c : Live(c) = {} /\ ~Making(c)
  BY DEF Init, Idle, Live, Making
<1>4. Types
  BY <1>1, ThreadSets, ConstantsRight DEF Init, Types, Idle, Entries, Pointer, Fids
<1>5. ListInv
  BY <1>1, <1>2 DEF ListInv, Sound, OnChain, OnFree, Init
<1>6. PlaceInv /\ MounterInv
  BY <1>3, ConstantsRight DEF PlaceInv, PlaceOK, MounterInv, Idle, Makes
<1>7. UseInv
  BY <1>3, ConstantsRight DEF UseInv, UseOK, Init
<1>8. RootInv
  BY <1>3 DEF RootInv, Init, NotClosing, Flushing
<1> QED
  BY <1>4, <1>5, <1>6, <1>7, <1>8 DEF Inv

\* Found by its fid, a cnode of the file system.
LEMMA FoundFile ==
  ASSUME Inv, NEW f \in Files, Found(f)
  PROVE  /\ Find(f) \in Cnodes /\ fid[Find(f)] = f /\ use[Find(f)] > 0 /\ ~Making(Find(f))
         /\ vnode[Find(f)] = "mount" /\ ~Dying(Find(f)) /\ pc[Mounter].cp # Find(f)
<1>1. PICK c : c = Find(f)
  OBVIOUS
<1>2. f \in Fids /\ f # CtlFid /\ f # RootFid
  BY ConstantsRight
<1>3. /\ c \in Cnodes /\ fid[c] = f /\ use[c] > 0 /\ ~Making(c) /\ ~Dying(c)
      /\ vnode[c] = MountOf(f)
  BY <1>1, <1>2, MakeFound
<1>4. pc[Mounter].cp # c
  BY <1>2, <1>3, ConstantsRight, InvTypes DEF Inv, MounterInv, PlaceOK
<1> QED
  BY <1>1, <1>2, <1>3, <1>4 DEF MountOf

LEMMA Quiets ==
  ASSUME Inv, NEW t \in Threads, Getattr(t) \/ GetattrAnswer(t) \/ GetattrKeep(t) \/ GetattrPass(t)
  PROVE  Inv'
<1>1. /\ pc[t].at \in {"has", "getattr", "answered", "failed"} /\ t \in Users
      /\ \E w \in {"has", "getattr", "answered"} : pc' = [pc EXCEPT ![t].at = w]
  <2>1. pc[t].at \in {"getattr", "answered", "failed"} => t \in Users
    BY ConstantsRight DEF Inv, MounterInv, Threads
  <2> QED
    BY <2>1 DEF Getattr, GetattrAnswer, GetattrKeep, GetattrPass, Returns
<1>2. PICK w \in {"has", "getattr", "answered"} : pc' = [pc EXCEPT ![t].at = w]
  BY <1>1
<1>3. pc' \in [Threads -> Entries]
  <2>1. [pc[t] EXCEPT !.at = w] \in Entries
    BY InvTypes DEF Entries
  <2> QED
    BY <1>2, <2>1, InvTypes
<1>4. \A u \in Threads :
           /\ pc'[u].cp = pc[u].cp /\ pc'[u].live = pc[u].live
           /\ \/ pc'[u].at = pc[u].at
              \/ u \in Users /\ ~Makes(u) /\ pc[u].at # "idle" /\ ~Makes(u)' /\ pc'[u].at # "idle"
  BY <1>1, <1>2, InvTypes DEF Entries, Makes
<1>5. UNCHANGED <<links, fresh, fid, vnode, use, root, mounts>>
  BY DEF Getattr, GetattrAnswer, GetattrKeep, GetattrPass
<1>6. /\ flags' \in [Cnodes -> SUBSET {"vattr", "unmounting"}]
      /\ \A c \in Cnodes : Dying(c) => Dying(c)'
  <2>1. CASE GetattrKeep(t)
    <3>1. pc[t].cp \in Cnodes
      BY <1>1, InvTypes DEF PlaceOK, Pointer
    <3>2. flags' = [flags EXCEPT ![pc[t].cp] = @ \cup {"vattr"}]
      BY <2>1 DEF GetattrKeep
    <3> QED
      BY <3>1, <3>2, InvTypes DEF Inv, Types, Dying
  <2>2. CASE UNCHANGED <<flags>>
    BY <2>2, InvTypes DEF Inv, Types, Dying
  <2> QED
    BY <2>1, <2>2 DEF Getattr, GetattrAnswer, GetattrPass
<1>7. \/ owed' = owed
      \/ pc[Mounter].at = "idle" /\ owed' \in 0..Cardinality(Threads) /\ root # Nil /\ Dying(root)'
      \/ owed' = NotClosing
  <2>1. CASE owed' = owed
    BY <2>1
  <2>2. CASE owed > 0 /\ owed' = owed - 1 /\ owed # NotClosing
    <3>1. Cardinality(Threads) \in Nat
      BY ThreadSets
    <3>2. owed \in 0..Cardinality(Threads)
      BY <2>2 DEF Inv, Types, NotClosing, Flushing
    <3>3. owed' \in 0..Cardinality(Threads) /\ owed \in Nat
      BY <2>2, <3>1, <3>2
    <3>4. root # Nil /\ Dying(root) /\ root \in Cnodes
      BY <3>3, InvTypes DEF Inv, RootInv, Pointer
    <3>5. root' = root
      BY <1>5
    <3>6. pc[Mounter].at = "idle"
      BY <2>2 DEF Inv, MounterInv
    <3> QED
      BY <1>6, <3>3, <3>4, <3>5, <3>6 DEF Dying
  <2> QED
    BY <2>1, <2>2 DEF Getattr, GetattrAnswer, GetattrKeep, GetattrPass, Returns, Closing
<1> QED
  BY <1>3, <1>4, <1>5, <1>6, <1>7, SameShape

LEMMA ZapfileKeeps ==
  ASSUME Inv, NEW f \in Files, Zapfile(f)
  PROVE  Inv'
<1>1. PICK c \in Cnodes : c = Find(f)
  BY FoundFile DEF Zapfile
<1>2. /\ flags' = [flags EXCEPT ![c] = flags[c] \ {"vattr"}]
      /\ UNCHANGED <<links, fresh, fid, vnode, use, pc, root, owed, mounts>>
  BY <1>1 DEF Zapfile, Unattr, Invalid, Inv, Types
<1>3. flags' \in [Cnodes -> SUBSET {"vattr", "unmounting"}] /\ \A d \in Cnodes : Dying(d) => Dying(d)'
  BY <1>2, InvTypes DEF Dying
<1>4. pc' \in [Threads -> Entries]
  BY <1>2, InvTypes
<1> QED
  BY <1>2, <1>3, <1>4, SameShape

LEMMA CloseKeeps ==
  ASSUME Inv, vc_nb_close
  PROVE  Inv'
<1> DEFINE waiting == {t \in Threads : pc[t].at = "getattr"}
<1>1. /\ root # Nil /\ pc[Mounter] = Idle /\ UNCHANGED <<links, fresh, fid, vnode, use, root, mounts>>
      /\ flags' = [c \in Cnodes |-> IF c \in Marked THEN flags[c] \cup {"unmounting"} ELSE flags[c]]
      /\ owed' = Cardinality(waiting)
      /\ pc' = [t \in Threads |-> IF t \in waiting THEN [pc[t] EXCEPT !.at = "failed"] ELSE pc[t]]
  BY DEF vc_nb_close, Mounted
<1>2. flags' \in [Cnodes -> SUBSET {"vattr", "unmounting"}] /\ \A d \in Cnodes : Dying(d) => Dying(d)'
  BY <1>1, InvTypes DEF Dying
<1>3. Dying(root)'
  <2>1. root \in Cnodes /\ root \in Marked
    BY <1>1, InvTypes DEF Pointer, Marked
  <2> QED
    BY <1>1, <2>1 DEF Dying
<1>4. owed' \in 0..Cardinality(Threads)
  <2>1. waiting \in SUBSET Threads
    OBVIOUS
  <2> HIDE DEF waiting
  <2>2. Cardinality(waiting) \in Nat /\ Cardinality(waiting) <= Cardinality(Threads) /\ Cardinality(Threads) \in Nat
    BY <2>1, ThreadSets
  <2> QED
    BY <1>1, <2>2
<1>5. ASSUME NEW t \in waiting
      PROVE  t \in Users /\ ~Makes(t) /\ pc[t].at # "idle" /\ [pc[t] EXCEPT !.at = "failed"] \in Entries
  BY <1>1, InvTypes, ConstantsRight DEF Idle, Makes, Threads, Entries
<1>6. pc' \in [Threads -> Entries]
  BY <1>1, <1>5, InvTypes
<1>7. ASSUME NEW t \in Threads
      PROVE  /\ pc'[t].cp = pc[t].cp /\ pc'[t].live = pc[t].live
             /\ \/ pc'[t].at = pc[t].at
                \/ t \in Users /\ ~Makes(t) /\ pc[t].at # "idle" /\ ~Makes(t)' /\ pc'[t].at # "idle"
  <2>1. CASE t \in waiting
    <3>1. pc'[t] = [pc[t] EXCEPT !.at = "failed"] /\ pc[t] \in Entries
      BY <1>1, <2>1, InvTypes
    <3>2. pc'[t].at = "failed" /\ pc'[t].cp = pc[t].cp /\ pc'[t].live = pc[t].live
      BY <3>1 DEF Entries
    <3>3. t \in Users /\ ~Makes(t) /\ pc[t].at # "idle"
      BY <1>5, <2>1
    <3> QED
      BY <3>2, <3>3 DEF Makes
  <2>2. CASE t \notin waiting
    BY <1>1, <2>2
  <2> QED
    BY <2>1, <2>2
<1>8. pc[Mounter].at = "idle"
  BY <1>1 DEF Idle
<1> QED
  BY <1>1, <1>2, <1>3, <1>4, <1>6, <1>7, <1>8, SameShape

LEMMA UnmountedKeeps ==
  ASSUME Inv, Unmounted
  PROVE  Inv'
<1>1. /\ owed' = NotClosing
      /\ UNCHANGED <<links, fresh, fid, flags, vnode, use, pc, root, mounts>>
  BY DEF Unmounted
<1>2. pc' \in [Threads -> Entries] /\ flags' \in [Cnodes -> SUBSET {"vattr", "unmounting"}]
  BY <1>1 DEF Inv, Types
<1> QED
  BY <1>1, <1>2, SameShape DEF Dying

LEMMA InvStep ==
  ASSUME Inv, Orderly, [Next]_vars
  PROVE  Inv'
<1>1. ASSUME NEW t \in Users, NEW f \in Files, Get(t, f)
      PROVE  Inv'
  <2>1. /\ t \in Threads /\ f \in Fids /\ f # CtlFid /\ pc[t].at = "idle" /\ root' = root
        /\ owed # Flushing /\ Make(t, f) /\ UNCHANGED <<owed, mounts>>
    BY <1>1, ConstantsRight DEF Get, Closing, NotClosing, Flushing
  <2>2. Begins(t, f)
    BY <2>1 DEF Begins
  <2> QED
    BY <2>1, <2>2, Starts
<1>2. ASSUME NEW t \in Threads,
             \/ NewVnode(t) \/ Save(t) \/ Put(t)
             \/ Getattr(t) \/ GetattrAnswer(t) \/ GetattrKeep(t) \/ GetattrPass(t)
      PROVE  Inv'
  BY <1>2, NewVnodeKeeps, SaveKeeps, PutKeeps, Quiets
<1>3. ASSUME NEW f \in Files, Zapfile(f)
      PROVE  Inv'
  BY <1>3, ZapfileKeeps
<1>4. ASSUME NEW f \in Files, coda_root(f)
      PROVE  Inv'
  <2>1. PICK c : c = root
    OBVIOUS
  <2>2. /\ c # Nil /\ pc[Mounter] = Idle /\ links' = Rehash(c, f) /\ fid' = [fid EXCEPT ![c] = f]
        /\ UNCHANGED <<fresh, flags, vnode, use, pc, root, owed, mounts>>
    BY <1>4, <2>1 DEF coda_root, Mounted
  <2>3. c \in Cnodes /\ vnode[c] = "mount" /\ pc[Mounter].cp # c
    BY <2>1, <2>2, InvTypes, ConstantsRight DEF Inv, RootInv, Pointer, Idle
  <2>4. use[c] > 0
    BY <2>1, <2>3, InvTypes, LiveThreads, ThreadSets DEF UseOK
  <2>5. ~Making(c)
    BY <2>1, InvTypes DEF PlaceOK, Making, Makes
  <2>6. f \in Fids /\ f # CtlFid
    BY ConstantsRight
  <2> QED
    BY <2>2, <2>3, <2>4, <2>5, <2>6, RehashKeeps
<1>5. ASSUME NEW f \in Files, NEW g \in Files, Replace(f, g)
      PROVE  Inv'
  <2>1. PICK c : c = Find(f)
    OBVIOUS
  <2>2. /\ Found(f) /\ links' = Rehash(c, g) /\ fid' = [fid EXCEPT ![c] = g]
        /\ UNCHANGED <<fresh, flags, vnode, use, pc, root, owed, mounts>>
    BY <1>5, <2>1 DEF Replace
  <2>3. /\ c \in Cnodes /\ use[c] > 0 /\ ~Making(c) /\ vnode[c] = "mount" /\ pc[Mounter].cp # c
    BY <2>1, <2>2, FoundFile
  <2>4. g \in Fids /\ g # CtlFid
    BY ConstantsRight
  <2> QED
    BY <2>2, <2>3, <2>4, RehashKeeps
<1>6. CASE coda_mount
  <2>1. /\ root = Nil /\ pc[Mounter] = Idle /\ mounts < MaxMounts /\ Make(Mounter, RootFid)
        /\ UNCHANGED <<root, owed, mounts>> /\ owed # Flushing
    BY <1>6 DEF coda_mount, Mounted, Kernel, Funnel
  <2>2. owed = NotClosing
    BY <2>1 DEF Inv, RootInv, Types
  <2>3. Begins(Mounter, RootFid)
    BY <2>1 DEF Begins, Idle
  <2> QED
    BY <2>1, <2>2, <2>3, Starts, ConstantsRight
<1>7. CASE MountCtl
  <2>1. /\ pc[Mounter].at = "has" /\ fid[pc[Mounter].cp] = RootFid /\ root' = pc[Mounter].cp
        /\ Make(Mounter, CtlFid) /\ UNCHANGED <<owed, mounts>>
    BY <1>7 DEF MountCtl
  <2>2. owed = NotClosing /\ owed # Flushing
    BY <2>1 DEF Inv, MounterInv, NotClosing, Flushing
  <2>3. Begins(Mounter, CtlFid)
    BY <2>1 DEF Begins
  <2> QED
    BY <2>1, <2>2, <2>3, Starts, ConstantsRight
<1>8. CASE MountDone \/ vc_nb_close \/ coda_unmount \/ Unmounted
  BY <1>8, MountDoneKeeps, CloseKeeps, UnmountKeeps, UnmountedKeeps
<1>9. CASE UNCHANGED vars
  <2> USE <1>9 DEF vars
  <2>1. ListInv' /\ Types'
    BY DEF Inv, Types, ListInv, OnChain, OnFree, Sound, FreeOnes, Chain, Making
  <2>2. (\A d : Live(d)' = Live(d)) /\ \A u : Makes(u)' <=> Makes(u)
    BY DEF Live, Makes
  <2>3. PlaceInv'
    BY DEF Inv, PlaceInv, PlaceOK, Makes, Live, MountOf
  <2>4. UseInv'
    BY <2>2 DEF Inv, UseInv, UseOK, Dying
  <2>5. MounterInv' /\ RootInv'
    BY <2>2 DEF Inv, MounterInv, RootInv, Dying
  <2> QED
    BY <2>1, <2>3, <2>4, <2>5 DEF Inv
<1> QED
  BY <1>1, <1>2, <1>3, <1>4, <1>5, <1>6, <1>7, <1>8, <1>9, VflushKeeps DEF Next

\* Unless a file system goes away while one of its cnodes is being made, the lists, the
\* uses and what the threads have agree.
LEMMA InvAlways ==
  ASSUME Orderly
  PROVE  Spec => []Inv
<1>1. Inv /\ [Next]_vars => Inv'
  BY InvStep
<1> QED
  BY <1>1, InvInit, PTL DEF Spec

\* The table, the freelist, the use counts and the threads always have values of their types.
THEOREM CnodeTypeOK ==
  ASSUME Orderly
  PROVE  Spec => []TypeOK
<1>1. Inv => TypeOK
  BY TypeFollows
<1> QED
  BY <1>1, InvAlways, PTL

\* Hash chains and freelist are lists that end and never meet, though both go through
\* c_next: coda_find meets the cnodes in use of its bucket, coda_alloc those nobody has,
\* after any number of fids given by Venus, reclaims, forced unmounts and new mounts.
THEOREM CnodeListsRight ==
  ASSUME Orderly
  PROVE  Spec => []ListsRight
<1>1. Inv => ListsRight
  BY TypeFollows DEF Inv, ListInv, Sound, ListsRight, OnChain, OnFree, Chain, FreeOnes
<1> QED
  BY <1>1, InvAlways, PTL

\* A vnode of the mount has a reference for every thread that uses it and one for
\* mi_rootvp: coda_inactive and vflush neither reclaim it under a user nor leave it over.
THEOREM CnodeUseRight ==
  ASSUME Orderly
  PROVE  Spec => []UseRight
<1>1. Inv => UseRight
  BY DEF Inv, UseInv, UseOK, UseRight, Live
<1> QED
  BY <1>1, InvAlways, PTL

-----------------------------------------------------------------------------
(* The files and what is cached, if nobody sleeps in make_coda_node.       *)

Calling(t) == pc[t].at \in {"getattr", "answered"}
Used(c) == use[c] > 0 \/ Making(c)

\* Upcalls are made by those who use a file, and none is under way once the device is closed.
CallInv ==
  \A t \in Threads : Calling(t) => t \in Users /\ pc[t].live /\ owed = NotClosing

\* A file has one cnode.
OneCnode ==
  \A c, d \in Cnodes :
    Used(c) /\ Used(d) /\ ~Dying(c) /\ ~Dying(d) /\ fid[c] = fid[d] => c = d

\* What a file system that goes away has is dying, and nothing else.
FlagsInv ==
  \A c \in Cnodes : /\ Dying(c) => owed # NotClosing /\ vnode[c] = "mount"
                    /\ owed # NotClosing /\ vnode[c] = "mount" => Dying(c)
                    /\ "vattr" \in flags[c] => vnode[c] = "mount" /\ ~Making(c)

\* Before Venus has told the root nobody uses a file.
RootAlone ==
  /\ ~Rooted /\ owed = NotClosing =>
       \A c \in Cnodes : vnode[c] = "mount" => c = root \/ c = pc[Mounter].cp
  /\ \A t \in Users : Makes(t) => Rooted /\ owed = NotClosing

FilesInv == CallInv /\ OneCnode /\ FlagsInv /\ RootAlone

LEMMA OneStill ==
  ASSUME OneCnode,
         \A c \in Cnodes : Used(c)' /\ ~Dying(c)' => Used(c) /\ ~Dying(c) /\ fid'[c] = fid[c]
  PROVE  OneCnode'
<1> SUFFICES ASSUME NEW c \in Cnodes, NEW d \in Cnodes,
                    Used(c)', Used(d)', ~Dying(c)', ~Dying(d)', fid'[c] = fid'[d]
             PROVE  c = d
  BY DEF OneCnode
<1> QED
  BY DEF OneCnode

\* Nobody makes a cnode while somebody else runs.
LEMMA NobodyMakes ==
  ASSUME Sleeps = {}, NEW t, Funnel(t)
  PROVE  \A u \in Threads : u # t => ~Makes(u)
  BY DEF Funnel, Makes

LEMMA FilesAlloc ==
  ASSUME Inv, FilesInv, NEW t \in Threads, NEW f \in Fids, Begins(t, f),
         \A u \in Threads : ~Makes(u), t \in Users => Rooted /\ owed = NotClosing,
         ~Found(f), NEW c \in Alloc,
         fid' = [fid EXCEPT ![c] = f], flags' = [flags EXCEPT ![c] = {}],
         Goes(t, "newvnode", c), UNCHANGED <<vnode, use>>,
         UNCHANGED <<owed, mounts>>
  PROVE  FilesInv'
<1>1. /\ c \in Cnodes /\ vnode[c] = "none" /\ use[c] = 0 /\ Live(c) = {} /\ ~Making(c) /\ c # root
  BY MakeAlloc
<1>2. /\ ~Makes(t)
      /\ \/ pc[t].cp = Nil /\ ~pc[t].live /\ root' = root
         \/ /\ t = Mounter /\ pc[t].cp \in Cnodes /\ pc[t].live /\ vnode[pc[t].cp] = "mount"
            /\ root = Nil /\ root' = pc[t].cp /\ fid[pc[t].cp] = RootFid /\ f = CtlFid
  BY Beginning
<1>3. /\ pc'[t].cp = c /\ pc'[t].at = "newvnode" /\ \A u \in Threads \ {t} : pc'[u] = pc[u]
  BY InvTypes DEF Goes
<1>4. /\ fid'[c] = f /\ \A d \in Cnodes \ {c} : fid'[d] = fid[d]
      /\ flags'[c] = {} /\ \A d \in Cnodes \ {c} : flags'[d] = flags[d]
  BY <1>1, InvTypes
<1>5. CallInv'
  <2> SUFFICES ASSUME NEW u \in Threads, Calling(u)' PROVE u \in Users /\ pc'[u].live /\ owed' = NotClosing
    BY DEF CallInv
  <2>1. u # t /\ pc'[u] = pc[u]
    BY <1>3 DEF Calling
  <2> QED
    BY <2>1 DEF FilesInv, CallInv, Calling
<1>6. \A d \in Cnodes : ~Making(d)
  BY DEF Making, Makes
<1>7. \A d \in Cnodes \ {c} : ~Making(d)'
  BY <1>3 DEF Making, Makes
<1>8. \A d \in Cnodes \ {c} : Used(d)' /\ ~Dying(d)' => fid'[d] # f /\ Used(d) /\ ~Dying(d)
  <2> SUFFICES ASSUME NEW d \in Cnodes \ {c}, Used(d)', ~Dying(d)'
               PROVE  fid'[d] # f /\ Used(d) /\ ~Dying(d)
    OBVIOUS
  <2>1. use[d] > 0 /\ ~Dying(d) /\ ~Making(d) /\ fid'[d] = fid[d]
    BY <1>4, <1>6, <1>7 DEF Used, Dying
  <2>2. fid[d] = f => d \in Chain(links, HashOf[f])
    BY <2>1, FidBucket DEF Inv, ListInv, OnChain
  <2> QED
    BY <2>1, <2>2 DEF Used, Found, Matching, Chain
<1>9. OneCnode'
  <2> SUFFICES ASSUME NEW d \in Cnodes, NEW e \in Cnodes,
                      Used(d)', Used(e)', ~Dying(d)', ~Dying(e)', fid'[d] = fid'[e]
               PROVE  d = e
    BY DEF OneCnode
  <2>1. CASE d # c /\ e # c
    BY <1>4, <1>8, <2>1 DEF FilesInv, OneCnode
  <2>2. CASE d = c \/ e = c
    BY <1>4, <1>8, <2>2
  <2> QED
    BY <2>1, <2>2
<1>10. FlagsInv'
  BY <1>1, <1>4, <1>7 DEF FilesInv, FlagsInv, Dying
<1>11. RootAlone'
  <2>1. CASE t \in Users
    <3>1. root' = root /\ pc'[Mounter] = pc[Mounter] /\ Rooted /\ owed = NotClosing /\ root \in Cnodes
      BY <1>2, <1>3, <2>1, ConstantsRight, InvTypes DEF Rooted, Mounted, Pointer
    <3>2. Rooted'
      BY <1>1, <1>4, <3>1 DEF Rooted, Mounted
    <3> QED
      BY <3>1, <3>2 DEF RootAlone
  <2>2. CASE t = Mounter
    <3>1. \A u \in Users : ~Makes(u)'
      BY <1>3, <2>2, ConstantsRight DEF Makes
    <3>2. CASE pc[t].cp = Nil /\ root' = root
      <4>1. Rooted' => Rooted
        BY <1>1, <1>2, <1>4, <2>2, <3>2, InvTypes, ConstantsRight DEF Rooted, Mounted, Begins, Pointer
      <4>2. Rooted => Rooted'
        BY <1>1, <1>4, <3>2, InvTypes DEF Rooted, Mounted, Pointer
      <4> QED
        BY <2>2, <3>1, <3>2, <4>1, <4>2, ConstantsRight DEF FilesInv, RootAlone
    <3>3. CASE pc[t].cp \in Cnodes /\ root = Nil /\ root' = pc[t].cp
      <4>1. ~Rooted
        BY <3>3 DEF Rooted, Mounted
      <4> QED
        BY <2>2, <3>1, <3>3, <4>1, ConstantsRight DEF FilesInv, RootAlone
    <3> QED
      BY <1>2, <3>2, <3>3
  <2> QED
    BY <2>1, <2>2 DEF Threads
<1> QED
  BY <1>5, <1>9, <1>10, <1>11 DEF FilesInv

LEMMA FilesFound ==
  ASSUME Inv, FilesInv, NEW t \in Threads, NEW f \in Fids, Begins(t, f),
         t \in Users => Rooted /\ owed = NotClosing, \A u \in Threads : ~Makes(u),
         Found(f), NEW c, c = Find(f), Goes(t, "has", c),
         use' = Referenced(c), UNCHANGED <<links, fresh, fid, flags, vnode>>,
         UNCHANGED <<owed, mounts>>
  PROVE  FilesInv'
<1>1. /\ c \in Cnodes /\ fid[c] = f /\ use[c] > 0 /\ ~Making(c) /\ ~Dying(c) /\ vnode[c] = MountOf(f)
  BY MakeFound
<1>2. /\ ~Makes(t)
      /\ \/ pc[t].cp = Nil /\ ~pc[t].live /\ root' = root
         \/ /\ t = Mounter /\ pc[t].cp \in Cnodes /\ pc[t].live /\ vnode[pc[t].cp] = "mount"
            /\ root = Nil /\ root' = pc[t].cp /\ fid[pc[t].cp] = RootFid /\ f = CtlFid
  BY Beginning
<1>3. /\ pc'[t].cp = c /\ pc'[t].at = "has" /\ \A u \in Threads \ {t} : pc'[u] = pc[u]
  BY InvTypes DEF Goes
<1>4. CallInv'
  <2> SUFFICES ASSUME NEW u \in Threads, Calling(u)' PROVE u \in Users /\ pc'[u].live /\ owed' = NotClosing
    BY DEF CallInv
  <2>1. u # t /\ pc'[u] = pc[u]
    BY <1>3 DEF Calling
  <2> QED
    BY <2>1 DEF FilesInv, CallInv, Calling
<1>5. (\A d \in Cnodes : ~Making(d)') /\ \A u \in Threads : ~Makes(u)'
  BY <1>3 DEF Making, Makes
<1>6. OneCnode'
  <2>1. \A d \in Cnodes : use'[d] > 0 => use[d] > 0
    BY <1>1, InvTypes DEF Referenced
  <2> QED
    BY <1>5, <2>1, OneStill DEF FilesInv, Used, Dying
<1>7. FlagsInv'
  BY <1>5 DEF FilesInv, FlagsInv, Dying
<1>8. RootAlone'
  <2>1. CASE t \in Users
    <3>1. root' = root /\ pc'[Mounter] = pc[Mounter] /\ Rooted
      BY <1>2, <1>3, <2>1, ConstantsRight
    <3> QED
      BY <1>5, <3>1, ConstantsRight DEF FilesInv, RootAlone, Rooted, Mounted
  <2>2. CASE t = Mounter
    <3>1. CASE pc[t].cp = Nil /\ root' = root
      BY <1>5, <2>2, <3>1, ConstantsRight DEF FilesInv, RootAlone, Rooted, Mounted
    <3>2. CASE pc[t].cp \in Cnodes /\ root = Nil /\ root' = pc[t].cp
      BY <1>5, <2>2, <3>2, ConstantsRight DEF FilesInv, RootAlone, Rooted, Mounted
    <3> QED
      BY <1>2, <3>1, <3>2
  <2> QED
    BY <2>1, <2>2 DEF Threads
<1> QED
  BY <1>4, <1>6, <1>7, <1>8 DEF FilesInv

LEMMA FilesStarts ==
  ASSUME Inv, FilesInv, NEW t \in Threads, NEW f \in Fids, Begins(t, f),
         \A u \in Threads : ~Makes(u), t \in Users => Rooted /\ owed = NotClosing,
         Make(t, f), UNCHANGED <<owed, mounts>>
  PROVE  FilesInv'
<1>1. CASE Found(f)
  <2>1. PICK c : c = Find(f)
    OBVIOUS
  <2>2. Goes(t, "has", c) /\ use' = Referenced(c) /\ UNCHANGED <<links, fresh, fid, flags, vnode>>
    BY <1>1, <2>1 DEF Make
  <2> QED
    BY <1>1, <2>1, <2>2, FilesFound
<1>2. CASE ~Found(f)
  <2>1. PICK c \in Alloc :
          /\ fid' = [fid EXCEPT ![c] = f] /\ flags' = [flags EXCEPT ![c] = {}]
          /\ Goes(t, "newvnode", c)
    BY <1>2 DEF Make
  <2>2. UNCHANGED <<vnode, use>>
    BY <1>2 DEF Make
  <2> QED
    BY <1>2, <2>1, <2>2, FilesAlloc
<1> QED
  BY <1>1, <1>2

LEMMA FilesNewVnode ==
  ASSUME Inv, FilesInv, NEW t \in Threads, NewVnode(t)
  PROVE  FilesInv'
<1>1. PICK c : c = pc[t].cp
  OBVIOUS
<1>2. /\ pc[t].at = "newvnode" /\ Makes(t)
      /\ pc' = [pc EXCEPT ![t] = [at |-> "ubc", cp |-> c, live |-> TRUE]]
      /\ vnode' = [vnode EXCEPT ![c] = MountOf(fid[c])] /\ use' = [use EXCEPT ![c] = 1]
      /\ UNCHANGED <<links, fresh, fid, flags, root, owed, mounts>>
  BY <1>1 DEF NewVnode, Makes, Goes
<1>3. c \in Cnodes /\ Making(c)
  BY <1>1, <1>2, Maker
<1>4. vnode[c] = "none"
  BY <1>1, <1>2, InvTypes DEF PlaceOK
<1>5. /\ pc'[t].cp = c /\ pc'[t].at = "ubc" /\ \A u \in Threads \ {t} : pc'[u] = pc[u]
  BY <1>2, InvTypes
<1>6. CallInv'
  <2> SUFFICES ASSUME NEW u \in Threads, Calling(u)' PROVE u \in Users /\ pc'[u].live /\ owed' = NotClosing
    BY DEF CallInv
  <2>1. u # t /\ pc'[u] = pc[u]
    BY <1>5 DEF Calling
  <2> QED
    BY <1>2, <2>1 DEF FilesInv, CallInv, Calling
<1>7. (\A d : Making(d)' <=> Making(d)) /\ \A u \in Threads : Makes(u)' <=> Makes(u)
  BY <1>1, <1>2, <1>5 DEF Making, Makes
<1>8. OneCnode'
  <2>1. \A d \in Cnodes : use'[d] > 0 => Used(d)
    BY <1>2, <1>3, InvTypes DEF Used
  <2> QED
    BY <1>2, <1>7, <2>1, OneStill DEF FilesInv, Used, Dying
<1>9. FlagsInv'
  <2>1. owed = NotClosing
    BY <1>2 DEF FilesInv, RootAlone, Inv, MounterInv, Threads
  <2> QED
    BY <1>2, <1>3, <1>4, <1>7, <2>1, InvTypes DEF FilesInv, FlagsInv, Dying
<1>10. RootAlone'
  <2>1. pc'[Mounter].cp = pc[Mounter].cp /\ (Rooted' <=> Rooted)
    BY <1>1, <1>2, <1>5, ConstantsRight DEF Rooted, Mounted
  <2>2. t \in Users => Rooted
    BY <1>2 DEF FilesInv, RootAlone
  <2>3. t = Mounter => c = pc'[Mounter].cp
    BY <1>5
  <2>4. \A d \in Cnodes \ {c} : vnode'[d] = vnode[d]
    BY <1>2, InvTypes
  <2> QED
    BY <1>2, <1>7, <2>1, <2>2, <2>3, <2>4, ConstantsRight DEF FilesInv, RootAlone, Threads
<1> QED
  BY <1>2, <1>6, <1>8, <1>9, <1>10 DEF FilesInv

LEMMA FilesSave ==
  ASSUME Inv, FilesInv, NEW t \in Threads, Save(t)
  PROVE  FilesInv'
<1>1. /\ pc[t].at = "ubc" /\ Makes(t) /\ pc' = [pc EXCEPT ![t].at = "has"]
      /\ UNCHANGED <<fresh, fid, flags, vnode, use, root, owed, mounts>>
  BY DEF Save, Makes
<1>2. /\ pc'[t].cp = pc[t].cp /\ pc'[t].at = "has" /\ \A u \in Threads \ {t} : pc'[u] = pc[u]
  BY <1>1, InvTypes DEF Entries
<1>3. CallInv'
  <2> SUFFICES ASSUME NEW u \in Threads, Calling(u)' PROVE u \in Users /\ pc'[u].live /\ owed' = NotClosing
    BY DEF CallInv
  <2>1. u # t /\ pc'[u] = pc[u]
    BY <1>2 DEF Calling
  <2> QED
    BY <1>1, <2>1 DEF FilesInv, CallInv, Calling
<1>4. (\A d : Making(d)' => Making(d)) /\ \A u \in Threads : Makes(u)' => Makes(u)
  BY <1>1, <1>2 DEF Making, Makes
<1>5. OneCnode'
  BY <1>1, <1>4, OneStill DEF FilesInv, Used, Dying
<1>6. FlagsInv'
  BY <1>1, <1>4 DEF FilesInv, FlagsInv, Dying
<1>7. RootAlone'
  <2>1. pc'[Mounter].cp = pc[Mounter].cp /\ (Rooted' <=> Rooted)
    BY <1>1, <1>2, ConstantsRight DEF Rooted, Mounted
  <2> QED
    BY <1>1, <1>4, <2>1, ConstantsRight DEF FilesInv, RootAlone
<1> QED
  BY <1>1, <1>3, <1>5, <1>6, <1>7 DEF FilesInv

\* A reference is given back: what is reclaimed has no flags.
LEMMA FilesVrele ==
  ASSUME Inv, FilesInv, NEW c \in Cnodes, vnode[c] = "mount", ~Making(c), use[c] > 0, Vrele(c),
         UNCHANGED <<fresh, fid, mounts>>, \A d \in Cnodes : Making(d)' <=> Making(d),
         \/ root' = root /\ owed' = owed
         \/ Dying(c) /\ owed # NotClosing /\ owed' # NotClosing /\ \A u \in Users : ~Makes(u)',
         \A t \in Threads : /\ Calling(t)' => Calling(t) /\ pc'[t].live = pc[t].live /\ owed' = owed
                            /\ Makes(t)' => Makes(t),
         pc'[Mounter].cp = pc[Mounter].cp
  PROVE  FilesInv'
<1>1. /\ use'[c] = use[c] - 1 /\ use[c] \in Nat
      /\ \A d \in Cnodes \ {c} : use'[d] = use[d] /\ vnode'[d] = vnode[d] /\ flags'[d] = flags[d]
      /\ \/ use'[c] > 0 /\ vnode' = vnode /\ flags' = flags
         \/ use'[c] = 0 /\ ~Dying(c) /\ vnode'[c] = "none"
         \/ use'[c] = 0 /\ Dying(c) /\ vnode' = vnode /\ flags' = flags
  BY VreleLists, InvTypes
<1>2. vnode'[c] = "none" => flags'[c] = {}
  BY InvTypes DEF Vrele, FilesInv
<1>3. CallInv'
  BY DEF FilesInv, CallInv
<1>4. OneCnode'
  <2>1. ASSUME NEW d \in Cnodes, Used(d)', ~Dying(d)'
        PROVE  Used(d) /\ ~Dying(d) /\ fid'[d] = fid[d]
    <3>1. CASE d = c
      BY <1>1, <2>1, <3>1 DEF Used, Dying
    <3>2. CASE d # c
      BY <1>1, <2>1, <3>2 DEF Used, Dying
    <3> QED
      BY <3>1, <3>2
  <2> QED
    BY <2>1, OneStill DEF FilesInv
<1>5. FlagsInv'
  <2> SUFFICES ASSUME NEW d \in Cnodes
               PROVE  /\ Dying(d)' => owed' # NotClosing /\ vnode'[d] = "mount"
                      /\ owed' # NotClosing /\ vnode'[d] = "mount" => Dying(d)'
                      /\ "vattr" \in flags'[d] => vnode'[d] = "mount" /\ ~Making(d)'
    BY DEF FlagsInv
  <2>1. CASE vnode'[d] = vnode[d] /\ flags'[d] = flags[d]
    BY <2>1 DEF FilesInv, FlagsInv, Dying
  <2>2. CASE vnode'[d] = "none" /\ flags'[d] = {}
    BY <2>2 DEF Dying
  <2> QED
    BY <1>1, <1>2, <2>1, <2>2
<1>6. RootAlone'
  <2>1. \A d \in Cnodes : vnode'[d] = "mount" => vnode[d] = "mount"
    BY <1>1
  <2>2. CASE root' = root /\ owed' = owed
    BY <2>1, <2>2, ConstantsRight DEF FilesInv, RootAlone, Rooted, Mounted
  <2>3. CASE owed' # NotClosing /\ \A u \in Users : ~Makes(u)'
    BY <2>3 DEF RootAlone
  <2> QED
    BY <2>2, <2>3
<1> QED
  BY <1>2, <1>3, <1>4, <1>5, <1>6 DEF FilesInv

LEMMA FilesPut ==
  ASSUME Inv, FilesInv, NEW t \in Threads, Put(t)
  PROVE  FilesInv'
<1>1. PICK c : c = pc[t].cp
  OBVIOUS
<1>2. /\ t \in Users /\ pc[t].at = "has" /\ pc' = [pc EXCEPT ![t] = Idle]
      /\ UNCHANGED <<fresh, fid, root, owed, mounts>>
      /\ \/ pc[t].live /\ Vrele(c)
         \/ ~pc[t].live /\ UNCHANGED <<links, vnode, use, flags>>
  BY <1>1 DEF Put
<1>3. PlaceOK(t) /\ c \in Cnodes /\ t # Mounter /\ ~Makes(t)
  BY <1>1, <1>2, ConstantsRight, InvTypes DEF Pointer, PlaceOK, Makes
<1>4. pc'[t].at = "idle" /\ \A u \in Threads \ {t} : pc'[u] = pc[u]
  BY <1>2, InvTypes DEF Idle
<1>5. /\ (\A d : Making(d)' <=> Making(d))
      /\ \A u \in Threads : (Makes(u)' <=> Makes(u)) /\ (Calling(u)' => Calling(u) /\ pc'[u].live = pc[u].live)
  BY <1>3, <1>4 DEF Making, Makes, Calling
<1>6. pc'[Mounter] = pc[Mounter]
  BY <1>3, <1>4, ConstantsRight
<1>7. CASE pc[t].live /\ Vrele(c)
  <2>1. vnode[c] = "mount" /\ t \in Live(c)
    BY <1>1, <1>2, <1>3, <1>7 DEF PlaceOK, MountOf, Live
  <2>2. ~Making(c)
    <3>1. ASSUME NEW u \in Threads, pc[u].cp = c, Makes(u) PROVE FALSE
      BY <1>3, <2>1, <3>1, Maker
    <3> QED
      BY <3>1 DEF Making, Makes
  <2>3. use[c] > 0
    <3>1. UseOK(c) /\ Live(c) \in SUBSET Threads
      BY <1>3, InvTypes, LiveThreads
    <3>2. Cardinality(Live(c)) > 0 /\ Cardinality(Live(c)) \in Nat
      BY <2>1, <3>1, OneMore, ThreadSets
    <3> QED
      BY <2>1, <3>1, <3>2 DEF UseOK
  <2> QED
    BY <1>2, <1>3, <1>5, <1>6, <1>7, <2>1, <2>2, <2>3, FilesVrele
<1>8. CASE ~pc[t].live /\ UNCHANGED <<links, vnode, use, flags>>
  <2>1. CallInv'
    BY <1>2, <1>5 DEF FilesInv, CallInv
  <2>2. OneCnode'
    BY <1>2, <1>5, <1>8, OneStill DEF FilesInv, Used, Dying
  <2>3. FlagsInv'
    BY <1>2, <1>5, <1>8 DEF FilesInv, FlagsInv, Dying
  <2>4. RootAlone'
    BY <1>2, <1>5, <1>6, <1>8, ConstantsRight DEF FilesInv, RootAlone, Rooted, Mounted
  <2> QED
    BY <1>2, <1>8, <2>1, <2>2, <2>3, <2>4 DEF FilesInv
<1> QED
  BY <1>2, <1>7, <1>8

\* Attributes that are kept are those of a live vnode of the mount.
LEMMA FilesQuiets ==
  ASSUME Inv, FilesInv, NEW t \in Threads,
         Getattr(t) \/ GetattrAnswer(t) \/ GetattrKeep(t) \/ GetattrPass(t)
  PROVE  FilesInv'
<1>1. /\ UNCHANGED <<links, fresh, fid, vnode, use, root, mounts>>
      /\ \E w \in {"has", "getattr", "answered"} :
           /\ pc' = [pc EXCEPT ![t].at = w]
           /\ w = "getattr" => t \in Users /\ pc[t].live /\ owed = NotClosing
           /\ w = "answered" => Calling(t)
           /\ w \in {"getattr", "answered"} => owed' = owed
  BY DEF FilesInv, Getattr, GetattrAnswer, GetattrKeep, GetattrPass, Returns, Calling, Closing
<1>2. PICK w \in {"has", "getattr", "answered"} :
           /\ pc' = [pc EXCEPT ![t].at = w]
           /\ w = "getattr" => t \in Users /\ pc[t].live /\ owed = NotClosing
           /\ w = "answered" => Calling(t)
           /\ w \in {"getattr", "answered"} => owed' = owed
  BY <1>1
<1>3. /\ pc'[t].cp = pc[t].cp /\ pc'[t].live = pc[t].live /\ pc'[t].at = w
      /\ \A u \in Threads \ {t} : pc'[u] = pc[u]
  BY <1>2, InvTypes DEF Entries
<1>4. owed' = owed \/ (owed # NotClosing /\ owed > 0 /\ owed' = owed - 1)
  BY DEF Getattr, GetattrAnswer, GetattrKeep, GetattrPass, Returns, Closing
<1>5. owed' = NotClosing <=> owed = NotClosing
  <2>1. owed \in Nat \/ owed \in {NotClosing, Flushing}
    BY ThreadSets DEF Inv, Types
  <2> QED
    BY <1>4, <2>1 DEF NotClosing, Flushing
<1>6. ~Makes(t)
  BY DEF Getattr, GetattrAnswer, GetattrKeep, GetattrPass, Makes
<1>7. (\A d : Making(d)' <=> Making(d)) /\ \A u \in Threads : Makes(u)' <=> Makes(u)
  BY <1>3, <1>6 DEF Making, Makes
<1>8. CallInv'
  <2> SUFFICES ASSUME NEW u \in Threads, Calling(u)' PROVE u \in Users /\ pc'[u].live /\ owed' = NotClosing
    BY DEF CallInv
  <2>1. CASE u = t
    BY <1>2, <1>3, <2>1 DEF FilesInv, CallInv, Calling
  <2>2. CASE u # t
    <3>1. Calling(u) /\ pc'[u] = pc[u]
      BY <1>3, <2>2 DEF Calling
    <3> QED
      BY <1>5, <3>1 DEF FilesInv, CallInv
  <2> QED
    BY <2>1, <2>2
<1>9. /\ \A d \in Cnodes : Dying(d)' <=> Dying(d)
      /\ \A d \in Cnodes : "vattr" \in flags'[d] =>
                            "vattr" \in flags[d] \/ (vnode[d] = "mount" /\ ~Making(d))
  <2>1. CASE GetattrKeep(t)
    <3>1. pc[t].at = "answered" /\ flags' = [flags EXCEPT ![pc[t].cp] = @ \cup {"vattr"}]
      BY <2>1 DEF GetattrKeep
    <3>2. t \in Users /\ pc[t].live /\ PlaceOK(t) /\ pc[t].cp \in Pointer
      BY <3>1, InvTypes DEF FilesInv, CallInv, Calling
    <3>3. pc[t].cp \in Cnodes /\ vnode[pc[t].cp] = "mount"
      BY <1>6, <3>1, <3>2 DEF PlaceOK, MountOf, Pointer
    <3>4. ~Making(pc[t].cp)
      <4>1. ASSUME NEW u \in Threads, pc[u].cp = pc[t].cp, Makes(u) PROVE FALSE
        <5>1. Live(pc[u].cp) = {u} /\ t \in Live(pc[u].cp)
          BY <3>2, <4>1, Maker DEF Live
        <5> QED
          BY <1>6, <4>1, <5>1
      <4> QED
        BY <4>1 DEF Making, Makes
    <3> QED
      BY <3>1, <3>3, <3>4, InvTypes DEF Dying
  <2>2. CASE UNCHANGED flags
    BY <2>2 DEF Dying
  <2> QED
    BY <2>1, <2>2 DEF Getattr, GetattrAnswer, GetattrPass
<1>10. OneCnode'
  BY <1>1, <1>7, <1>9, OneStill DEF FilesInv, Used
<1>11. FlagsInv'
  BY <1>1, <1>5, <1>7, <1>9 DEF FilesInv, FlagsInv
<1>12. RootAlone'
  <2>1. pc'[Mounter].cp = pc[Mounter].cp
    BY <1>3, ConstantsRight
  <2> QED
    BY <1>1, <1>5, <1>7, <2>1, ConstantsRight DEF FilesInv, RootAlone, Rooted, Mounted
<1> QED
  BY <1>1, <1>8, <1>10, <1>11, <1>12 DEF FilesInv

LEMMA FilesZapfile ==
  ASSUME Inv, FilesInv, NEW f \in Files, Zapfile(f)
  PROVE  FilesInv'
<1>1. PICK c \in Cnodes : c = Find(f)
  BY FoundFile DEF Zapfile
<1>2. /\ flags' = [flags EXCEPT ![c] = flags[c] \ {"vattr"}]
      /\ UNCHANGED <<links, fresh, fid, vnode, use, pc, root, owed, mounts>>
  BY <1>1 DEF Zapfile, Unattr, Invalid
<1>3. \A d \in Cnodes : flags'[d] \subseteq flags[d] /\ (Dying(d)' <=> Dying(d))
  BY <1>2, InvTypes DEF Dying
<1>4. (\A d : Making(d)' <=> Making(d)) /\ (\A u : Makes(u)' <=> Makes(u)) /\ \A u : Calling(u)' <=> Calling(u)
  BY <1>2 DEF Making, Makes, Calling
<1>5. CallInv'
  BY <1>2, <1>4 DEF FilesInv, CallInv
<1>6. OneCnode'
  BY <1>2, <1>3, <1>4, OneStill DEF FilesInv, Used
<1>7. FlagsInv'
  BY <1>2, <1>3, <1>4 DEF FilesInv, FlagsInv
<1>8. RootAlone'
  BY <1>2, <1>4 DEF FilesInv, RootAlone, Rooted, Mounted
<1> QED
  BY <1>5, <1>6, <1>7, <1>8 DEF FilesInv

\* A fid is given only to a cnode when no other has it.
LEMMA FilesRehash ==
  ASSUME Inv, FilesInv, NEW c \in Cnodes, NEW g \in Files,
         \A d \in Cnodes \ {c} : fid[d] = g => ~Used(d) \/ Dying(d),
         fid' = [fid EXCEPT ![c] = g],
         \A t \in Users : Makes(t) => fid[c] # RootFid, c = root \/ Rooted, Used(c), ~Dying(c),
         UNCHANGED <<fresh, flags, vnode, use, pc, root, owed, mounts>>
  PROVE  FilesInv'
<1>1. fid'[c] = g /\ \A d \in Cnodes \ {c} : fid'[d] = fid[d]
  BY InvTypes
<1>2. (\A d : Making(d)' <=> Making(d)) /\ (\A u : Makes(u)' <=> Makes(u)) /\ \A u : Calling(u)' <=> Calling(u)
  BY DEF Making, Makes, Calling
<1>3. CallInv'
  BY <1>2 DEF FilesInv, CallInv
<1>4. OneCnode'
  <2> SUFFICES ASSUME NEW d \in Cnodes, NEW e \in Cnodes,
                      Used(d)', Used(e)', ~Dying(d)', ~Dying(e)', fid'[d] = fid'[e]
               PROVE  d = e
    BY DEF OneCnode
  <2>1. Used(d) /\ Used(e) /\ ~Dying(d) /\ ~Dying(e)
    BY <1>2 DEF Used, Dying
  <2>2. CASE d # c /\ e # c
    BY <1>1, <2>1, <2>2 DEF FilesInv, OneCnode
  <2>3. CASE d = c \/ e = c
    BY <1>1, <2>1, <2>3
  <2> QED
    BY <2>2, <2>3
<1>5. FlagsInv'
  BY <1>2 DEF FilesInv, FlagsInv, Dying
<1>6. RootAlone'
  <2>1. Rooted'
    BY <1>1, ConstantsRight, InvTypes DEF Rooted, Mounted, Pointer
  <2>2. \A t \in Users : Makes(t) => owed = NotClosing
    BY DEF FilesInv, RootAlone
  <2> QED
    BY <1>2, <2>1, <2>2 DEF RootAlone
<1> QED
  BY <1>3, <1>4, <1>5, <1>6 DEF FilesInv

LEMMA FilesReplace ==
  ASSUME Inv, FilesInv, NEW f \in Files, NEW g \in Files, Replace(f, g)
  PROVE  FilesInv'
<1>1. PICK c : c = Find(f)
  OBVIOUS
<1>2. /\ fid' = [fid EXCEPT ![c] = g] /\ Found(f)
      /\ \A d \in Cnodes : fid[d] = g => vnode[d] = "none" /\ \A t \in Threads : pc[t].cp # d
      /\ UNCHANGED <<fresh, flags, vnode, use, pc, root, owed, mounts>> /\ owed = NotClosing
  BY <1>1 DEF Replace, Closing
<1>3. /\ c \in Cnodes /\ fid[c] = f /\ use[c] > 0 /\ vnode[c] = "mount" /\ ~Dying(c) /\ pc[Mounter].cp # c
  BY <1>1, <1>2, FoundFile
<1>4. \A d \in Cnodes : fid[d] = g => ~Used(d)
  BY <1>2, InvTypes DEF Used, Making, UseOK
<1>5. c = root \/ Rooted
  BY <1>2, <1>3 DEF FilesInv, RootAlone
<1>6. fid[c] # RootFid
  BY <1>3, ConstantsRight
<1> QED
  BY <1>2, <1>3, <1>4, <1>5, <1>6, FilesRehash DEF Used

LEMMA FilesRoot ==
  ASSUME Inv, FilesInv, NEW f \in Files, coda_root(f), Sleeps = {}
  PROVE  FilesInv'
<1>1. PICK c : c = root
  OBVIOUS
<1>2. /\ c # Nil /\ pc[Mounter] = Idle /\ fid' = [fid EXCEPT ![c] = f] /\ ~Rooted /\ owed = NotClosing
      /\ UNCHANGED <<fresh, flags, vnode, use, pc, root, owed, mounts>>
  BY <1>1 DEF coda_root, Mounted, Closing
<1>3. c \in Cnodes /\ vnode[c] = "mount"
  BY <1>1, <1>2, InvTypes DEF Inv, RootInv, Pointer
<1>4. use[c] > 0
  BY <1>1, <1>3, InvTypes, LiveThreads, ThreadSets DEF UseOK
<1>5. ~Dying(c)
  BY <1>2, <1>3 DEF FilesInv, FlagsInv
<1>6. \A u \in Threads : ~Makes(u)
  BY <1>2, ConstantsRight DEF FilesInv, RootAlone, Threads, Makes, Idle
<1>7. ASSUME NEW d \in Cnodes \ {c}, fid[d] = f PROVE ~Used(d)
  <2>1. vnode[d] # "mount"
    BY <1>1, <1>2, <1>7, ConstantsRight DEF FilesInv, RootAlone, Idle
  <2>2. vnode[d] # "nomount"
    BY <1>7, InvTypes, ConstantsRight DEF UseOK
  <2>3. use[d] = 0
    BY <2>1, <2>2, InvTypes DEF UseOK
  <2> QED
    BY <1>6, <2>3 DEF Used, Making, Makes
<1> QED
  BY <1>1, <1>2, <1>3, <1>4, <1>5, <1>6, <1>7, FilesRehash, ConstantsRight DEF Used

LEMMA FilesMountDone ==
  ASSUME Inv, FilesInv, MountDone
  PROVE  FilesInv'
<1>1. PICK c : c = pc[Mounter].cp
  OBVIOUS
<1>2. /\ pc[Mounter].at = "has" /\ fid[c] = CtlFid /\ pc' = [pc EXCEPT ![Mounter] = Idle]
      /\ UNCHANGED <<links, fresh, fid, flags, vnode, use, root, owed>>
  BY <1>1 DEF MountDone
<1>3. pc'[Mounter] = Idle /\ \A u \in Threads \ {Mounter} : pc'[u] = pc[u]
  BY <1>2, InvTypes, ConstantsRight
<1>4. /\ \A u \in Threads : (Makes(u)' => Makes(u)) /\ (Calling(u)' => Calling(u) /\ pc'[u] = pc[u])
      /\ \A d : Making(d)' => Making(d)
  BY <1>3 DEF Makes, Calling, Making, Idle
<1>5. CallInv'
  BY <1>2, <1>4 DEF FilesInv, CallInv
<1>6. OneCnode'
  BY <1>2, <1>4, OneStill DEF FilesInv, Used, Dying
<1>7. FlagsInv'
  BY <1>2, <1>4 DEF FilesInv, FlagsInv, Dying
<1>8. RootAlone'
  <2>1. \A d \in Cnodes : vnode[d] = "mount" => d # c
    BY <1>2, InvTypes DEF UseOK
  <2> QED
    BY <1>1, <1>2, <1>4, <2>1, ConstantsRight DEF FilesInv, RootAlone, Rooted, Mounted
<1> QED
  BY <1>2, <1>5, <1>6, <1>7, <1>8 DEF FilesInv

LEMMA FilesClose ==
  ASSUME Inv, FilesInv, vc_nb_close, Sleeps = {}
  PROVE  FilesInv'
<1> DEFINE waiting == {t \in Threads : pc[t].at = "getattr"}
<1>1. /\ root # Nil /\ UNCHANGED <<links, fresh, fid, vnode, use, root, mounts>>
      /\ flags' = [c \in Cnodes |-> IF c \in Marked THEN flags[c] \cup {"unmounting"} ELSE flags[c]]
      /\ owed' = Cardinality(waiting)
      /\ pc' = [t \in Threads |-> IF t \in waiting THEN [pc[t] EXCEPT !.at = "failed"] ELSE pc[t]]
      /\ \A t \in Threads : pc[t].at # "answered"
  BY DEF vc_nb_close, Mounted
<1>2. owed' # NotClosing
  <2>1. waiting \in SUBSET Threads
    OBVIOUS
  <2> HIDE DEF waiting
  <2> QED
    BY <1>1, <2>1, ThreadSets DEF NotClosing
<1>3. \A u \in Threads : ~Makes(u)
  BY NobodyMakes, ConstantsRight DEF vc_nb_close, Venus
<1>4. ASSUME NEW u \in Threads PROVE ~Calling(u)' /\ ~Makes(u)'
  <2>1. CASE u \in waiting
    <3>1. pc'[u] = [pc[u] EXCEPT !.at = "failed"] /\ pc[u] \in Entries
      BY <1>1, <2>1, InvTypes
    <3>2. pc'[u].at = "failed"
      BY <3>1 DEF Entries
    <3> QED
      BY <3>2 DEF Calling, Makes
  <2>2. CASE u \notin waiting
    <3>1. pc'[u] = pc[u]
      BY <1>1, <2>2
    <3> QED
      BY <1>1, <1>3, <2>2, <3>1 DEF Calling, Makes
  <2> QED
    BY <2>1, <2>2
<1>5. \A d : ~Making(d)'
  BY <1>4 DEF Making, Makes
<1>6. CallInv' /\ RootAlone'
  BY <1>2, <1>4, ConstantsRight DEF CallInv, RootAlone
<1>7. \A d \in Cnodes : ~Dying(d)' => ~Dying(d)
  BY <1>1, InvTypes DEF Dying
<1>8. OneCnode'
  BY <1>1, <1>5, <1>7, OneStill DEF FilesInv, Used
<1>9. FlagsInv'
  <2>1. \A c \in Marked : vnode[c] = "mount"
    BY <1>1 DEF Marked, Inv, RootInv
  <2>2. ASSUME NEW c \in Cnodes, vnode[c] = "mount", ~Dying(c) PROVE c \in Marked
    <3>1. use[c] # 0 /\ use[c] \in Nat /\ ~Making(c) /\ fid[c] \in Fids
      BY <1>3, <2>2, InvTypes DEF UseOK, Making, Makes
    <3>2. c \in Chain(links, HashOf[fid[c]]) /\ HashOf[fid[c]] \in Buckets
      BY <3>1, FidBucket DEF Inv, ListInv, OnChain
    <3> QED
      BY <2>2, <3>2 DEF Marked, Chain
  <2>3. ASSUME NEW c \in Cnodes
        PROVE  /\ Dying(c)' <=> Dying(c) \/ c \in Marked
               /\ "vattr" \in flags'[c] => "vattr" \in flags[c]
    BY <1>1, InvTypes DEF Dying
  <2> QED
    BY <1>1, <1>2, <1>5, <2>1, <2>2, <2>3 DEF FilesInv, FlagsInv
<1> QED
  BY <1>1, <1>6, <1>8, <1>9 DEF FilesInv

LEMMA FilesUnmount ==
  ASSUME Inv, FilesInv, coda_unmount, Sleeps = {}
  PROVE  FilesInv'
<1>1. PICK c : c = root
  OBVIOUS
<1>2. /\ owed = 0 /\ Vrele(c) /\ root' = Nil /\ owed' = Flushing
      /\ UNCHANGED <<fresh, fid, pc, mounts>>
  BY <1>1 DEF coda_unmount
<1>3. \A u \in Threads : ~Makes(u)
  BY NobodyMakes, ConstantsRight DEF coda_unmount
<1>4. c \in Cnodes /\ vnode[c] = "mount" /\ Dying(c)
  BY <1>1, <1>2, InvTypes DEF Inv, RootInv, Pointer
<1>5. use[c] > 0
  BY <1>1, <1>4, InvTypes, LiveThreads, ThreadSets DEF UseOK
<1>6. (\A d : ~Making(d)) /\ (\A d : ~Making(d)') /\ \A u \in Threads : ~Makes(u)'
  BY <1>2, <1>3 DEF Making, Makes
<1>7. \A u \in Threads : ~Calling(u)'
  BY <1>2 DEF FilesInv, CallInv, Calling, NotClosing
<1>8. owed' # NotClosing
  BY <1>2 DEF NotClosing, Flushing
<1>9. pc'[Mounter].cp = pc[Mounter].cp
  BY <1>2
<1> QED
  BY <1>2, <1>4, <1>5, <1>6, <1>7, <1>8, <1>9, FilesVrele, ConstantsRight DEF NotClosing

LEMMA FilesVflush ==
  ASSUME Inv, FilesInv, NEW c \in Cnodes, Vflush(c)
  PROVE  FilesInv'
<1>1. /\ owed = Flushing /\ vnode[c] = "mount"
      /\ vnode' = [vnode EXCEPT ![c] = "none"] /\ use' = [use EXCEPT ![c] = 0]
      /\ flags' = [flags EXCEPT ![c] = {}]
      /\ pc' = [t \in Threads |-> IF pc[t].cp = c THEN [pc[t] EXCEPT !.live = FALSE] ELSE pc[t]]
      /\ UNCHANGED <<fresh, fid, root, owed, mounts>>
  BY DEF Vflush
<1>2. owed # NotClosing /\ \A t \in Threads : ~Makes(t)
  BY <1>1 DEF Flushing, NotClosing, Inv, RootInv
<1>3. \A u \in Threads : pc'[u].at = pc[u].at
  BY <1>1, InvTypes DEF Entries
<1>4. (\A u \in Threads : ~Calling(u)' /\ ~Makes(u)') /\ \A d : ~Making(d)'
  BY <1>2, <1>3 DEF FilesInv, CallInv, Calling, Makes, Making
<1>5. CallInv' /\ RootAlone'
  BY <1>1, <1>2, <1>4, ConstantsRight DEF CallInv, RootAlone
<1>6. /\ use'[c] = 0 /\ vnode'[c] = "none" /\ flags'[c] = {}
      /\ \A d \in Cnodes \ {c} : use'[d] = use[d] /\ vnode'[d] = vnode[d] /\ flags'[d] = flags[d]
  BY <1>1, InvTypes
<1>7. OneCnode'
  <2>1. \A d \in Cnodes : Used(d)' /\ ~Dying(d)' => Used(d) /\ ~Dying(d) /\ fid'[d] = fid[d]
    BY <1>1, <1>4, <1>6 DEF Used, Dying
  <2> QED
    BY <2>1, OneStill DEF FilesInv
<1>8. FlagsInv'
  BY <1>1, <1>4, <1>6 DEF FilesInv, FlagsInv, Dying
<1> QED
  BY <1>1, <1>5, <1>7, <1>8 DEF FilesInv

LEMMA FilesUnmounted ==
  ASSUME Inv, FilesInv, Unmounted
  PROVE  FilesInv'
<1>1. /\ owed = Flushing /\ owed' = NotClosing /\ \A c \in Cnodes : vnode[c] # "mount"
      /\ UNCHANGED <<links, fresh, fid, flags, vnode, use, pc, root, mounts>>
  BY DEF Unmounted
<1>2. owed # NotClosing /\ \A t \in Threads : ~Makes(t)
  BY <1>1 DEF Flushing, NotClosing, Inv, RootInv
<1>3. (\A u \in Threads : ~Calling(u)' /\ ~Makes(u)') /\ \A d : ~Making(d)'
  BY <1>1, <1>2 DEF FilesInv, CallInv, Calling, Makes, Making
<1>4. CallInv' /\ RootAlone'
  BY <1>1, <1>3, ConstantsRight DEF CallInv, RootAlone
<1>5. OneCnode'
  BY <1>1, <1>3, OneStill DEF FilesInv, Used, Dying
<1>6. FlagsInv'
  BY <1>1, <1>3 DEF FilesInv, FlagsInv, Dying
<1> QED
  BY <1>1, <1>4, <1>5, <1>6 DEF FilesInv

LEMMA FilesStep ==
  ASSUME Inv, FilesInv, Sleeps = {}, [Next]_vars
  PROVE  FilesInv'
<1>1. ASSUME NEW t \in Users, NEW f \in Files, Get(t, f)
      PROVE  FilesInv'
  <2>1. /\ t \in Threads /\ f \in Fids /\ f # CtlFid /\ pc[t].at = "idle" /\ root' = root
        /\ Make(t, f) /\ UNCHANGED <<owed, mounts>> /\ Rooted /\ owed = NotClosing
        /\ Funnel(t)
    BY <1>1, ConstantsRight DEF Get, Closing, Kernel
  <2>2. Begins(t, f) /\ \A u \in Threads : ~Makes(u)
    BY <2>1, NobodyMakes DEF Begins, Makes
  <2> QED
    BY <2>1, <2>2, FilesStarts
<1>2. ASSUME NEW t \in Threads,
             \/ NewVnode(t) \/ Save(t) \/ Put(t)
             \/ Getattr(t) \/ GetattrAnswer(t) \/ GetattrKeep(t) \/ GetattrPass(t)
      PROVE  FilesInv'
  BY <1>2, FilesNewVnode, FilesSave, FilesPut, FilesQuiets
<1>3. ASSUME NEW f \in Files, Zapfile(f) \/ coda_root(f)
      PROVE  FilesInv'
  BY <1>3, FilesZapfile, FilesRoot
<1>4. ASSUME NEW f \in Files, NEW g \in Files, Replace(f, g)
      PROVE  FilesInv'
  BY <1>4, FilesReplace
<1>5. CASE coda_mount
  <2>1. /\ root = Nil /\ pc[Mounter] = Idle /\ mounts < MaxMounts /\ Make(Mounter, RootFid)
        /\ UNCHANGED <<root, owed, mounts>> /\ Funnel(Mounter)
    BY <1>5 DEF coda_mount, Mounted, Kernel
  <2>2. Begins(Mounter, RootFid) /\ \A u \in Threads : ~Makes(u)
    BY <2>1, NobodyMakes DEF Begins, Makes, Idle
  <2> QED
    BY <2>1, <2>2, FilesStarts, ConstantsRight
<1>6. CASE MountCtl
  <2>1. /\ pc[Mounter].at = "has" /\ fid[pc[Mounter].cp] = RootFid /\ root' = pc[Mounter].cp
        /\ Make(Mounter, CtlFid) /\ UNCHANGED <<owed, mounts>>
    BY <1>6 DEF MountCtl
  <2>2. root = Nil
    BY <2>1 DEF Inv, MounterInv
  <2>3. Begins(Mounter, CtlFid) /\ \A u \in Threads : ~Makes(u)
    BY <2>1, <2>2 DEF Begins, Makes, FilesInv, RootAlone, Rooted, Mounted, Threads
  <2> QED
    BY <2>1, <2>3, FilesStarts, ConstantsRight
<1>7. CASE MountDone \/ vc_nb_close \/ coda_unmount \/ Unmounted
  BY <1>7, FilesMountDone, FilesClose, FilesUnmount, FilesUnmounted
<1>8. CASE UNCHANGED vars
  BY <1>8 DEF vars, FilesInv, CallInv, Calling, OneCnode, Used, Making, FlagsInv, Dying, RootAlone,
              Rooted, Mounted, Makes
<1> QED
  BY <1>1, <1>2, <1>3, <1>4, <1>5, <1>6, <1>7, <1>8, FilesVflush DEF Next

LEMMA FilesInit ==
  ASSUME Init
  PROVE  FilesInv
<1>1. (\A t \in Threads : pc[t] = Idle) /\ \A c \in Cnodes : ~Used(c)
  BY DEF Init, Idle, Used, Making
<1> QED
  BY <1>1, ConstantsRight DEF Init, FilesInv, CallInv, Calling, OneCnode, FlagsInv, Dying,
                              RootAlone, Makes, Idle

LEMMA FilesAlways ==
  ASSUME Sleeps = {}
  PROVE  Spec => []Inv /\ []FilesInv
<1>1. Init => FilesInv
  BY FilesInit
<1>2. Inv /\ FilesInv /\ [Next]_vars => FilesInv'
  BY FilesStep
<1>3. Spec => []Inv
  BY InvAlways DEF Orderly
<1> QED
  BY <1>1, <1>2, <1>3, PTL DEF Spec

-----------------------------------------------------------------------------
(* The refinement of CodaFiles.                                            *)

\* The cnodes of a file that are found: those in use, with their vnode, on no dying mount.
Serves(f) == {c \in Cnodes : fid[c] = f /\ ~Dying(c) /\ use[c] > 0 /\ ~Making(c)}

Seen ==
  /\ \A f \in Fids : \A c \in Serves(f) :
       UsersOf[f] = use[c] /\ ((f \in AttrsOf) <=> ("vattr" \in flags[c]))
  /\ \A f \in Fids : Serves(f) = {} => UsersOf[f] = 0 /\ f \notin AttrsOf

LEMMA TotalOfNone == ASSUME NEW u PROVE Total(u, {}) = 0
  BY DEF Total, MapThenSumSet, MapThenFoldSet

LEMMA TotalOfOne ==
  ASSUME NEW u, NEW d, u[d] \in Nat
  PROVE  Total(u, {d}) = u[d]
<1> DEFINE
           G(g) == g = [s \in SUBSET {d} |->
                          IF s = {} THEN 0
                          ELSE u[CHOOSE x \in s : TRUE] + g[s \ {CHOOSE x \in s : TRUE}]]
           h == [s \in SUBSET {d} |-> IF s = {} THEN 0 ELSE u[d]]
           k == CHOOSE g : G(g)
<1>1. SUBSET {d} = {{}, {d}} /\ (CHOOSE x \in {d} : TRUE) = d /\ {d} \ {d} = {}
  OBVIOUS
<1>2. G(h)
  BY <1>1
<1>3. G(k)
  <2> HIDE DEF G, h
  <2> QED
    BY <1>2
<1>4. k[{d}] = u[d]
  <2> HIDE DEF k
  <2>1. k[{}] = 0
    BY <1>1, <1>3
  <2>2. k[{d}] = u[d] + k[{d} \ {d}]
    BY <1>1, <1>3
  <2> QED
    BY <1>1, <2>1, <2>2
<1> QED
  BY <1>4 DEF Total, MapThenSumSet, MapThenFoldSet

LEMMA SeenNow == Inv /\ FilesInv => Seen
<1> SUFFICES ASSUME Inv, FilesInv PROVE Seen
  OBVIOUS
<1>1. ASSUME NEW f \in Fids PROVE LiveAs(f) = Serves(f)
  <2>1. ASSUME NEW c \in Cnodes PROVE InTable(c) <=> use[c] > 0 /\ ~Making(c)
    <3>1. InTable(c) <=> \E b \in Buckets : c \in OnChain(b)
      BY DEF Inv, ListInv, Chain, InTable
    <3>2. fid[c] \in Fids /\ HashOf[fid[c]] \in Buckets
      BY InvTypes, FidBucket
    <3> QED
      BY <3>1, <3>2 DEF OnChain
  <2> QED
    BY <2>1 DEF LiveAs, Serves
<1>2. ASSUME NEW f \in Fids, NEW c \in Serves(f)
      PROVE  UsersOf[f] = use[c] /\ ((f \in AttrsOf) <=> ("vattr" \in flags[c]))
  <2>1. \A d \in Serves(f) : d = c
    BY DEF FilesInv, OneCnode, Used, Serves
  <2>2. LiveAs(f) = {c}
    BY <1>1, <2>1
  <2>3. use[c] \in Nat
    BY InvTypes DEF Serves
  <2>4. Total(use, {c}) = use[c]
    BY <2>3, TotalOfOne
  <2> QED
    BY <2>2, <2>4 DEF UsersOf, AttrsOf
<1>3. ASSUME NEW f \in Fids, Serves(f) = {} PROVE UsersOf[f] = 0 /\ f \notin AttrsOf
  BY <1>1, <1>3, TotalOfNone DEF UsersOf, AttrsOf
<1> QED
  BY <1>2, <1>3 DEF Seen

LEMMA SeenNext == Inv' /\ FilesInv' => Seen'
<1>1. Inv /\ FilesInv => Seen
  BY SeenNow
<1> QED
  BY <1>1, PTL

\* A file a step does nothing to.
LEMMA SeenSame ==
  ASSUME Seen, Seen', NEW f \in Fids, Serves(f)' = Serves(f),
         \A c \in Serves(f) : use'[c] = use[c] /\ (("vattr" \in flags'[c]) <=> ("vattr" \in flags[c]))
  PROVE  UsersOf'[f] = UsersOf[f] /\ ((f \in AttrsOf') <=> (f \in AttrsOf))
<1>1. CASE Serves(f) = {}
  BY <1>1 DEF Seen
<1>2. CASE Serves(f) # {}
  <2>1. PICK c : c \in Serves(f) /\ c \in Serves(f)'
    BY <1>2
  <2>2. UsersOf[f] = use[c] /\ ((f \in AttrsOf) <=> ("vattr" \in flags[c]))
    BY <2>1 DEF Seen
  <2>3. UsersOf'[f] = use'[c] /\ ((f \in AttrsOf') <=> ("vattr" \in flags'[c]))
    BY <2>1 DEF Seen
  <2> QED
    BY <2>1, <2>2, <2>3
<1> QED
  BY <1>1, <1>2

LEMMA SeenShape ==
  /\ UsersOf = [f \in Fids |-> UsersOf[f]] /\ AttrsOf \subseteq Fids
  /\ UsersOf' = [f \in Fids |-> UsersOf'[f]] /\ AttrsOf' \subseteq Fids
  BY DEF UsersOf, AttrsOf

LEMMA SeenStill ==
  ASSUME Seen, Seen',
         \A f \in Fids : Serves(f)' = Serves(f),
         \A f \in Fids : \A c \in Serves(f) :
           use'[c] = use[c] /\ (("vattr" \in flags'[c]) <=> ("vattr" \in flags[c]))
  PROVE  UNCHANGED <<UsersOf, AttrsOf>>
<1>1. \A f \in Fids : UsersOf'[f] = UsersOf[f] /\ ((f \in AttrsOf') <=> (f \in AttrsOf))
  BY SeenSame
<1> QED
  BY <1>1, SeenShape

\* What is found of a cnode.
Serving(c) == ~Dying(c) /\ use[c] > 0 /\ ~Making(c)
Alike(c) ==
  /\ fid'[c] = fid[c] /\ use'[c] = use[c] /\ (Serving(c)' <=> Serving(c))
  /\ ("vattr" \in flags'[c]) <=> ("vattr" \in flags[c])

\* A file that a step does nothing to: G is what is left of the files.
Same(f) == UsersOf'[f] = UsersOf[f] /\ ((f \in AttrsOf') <=> (f \in AttrsOf))

\* A step that touches the cnodes C changes the files F they serve, and no others.
LEMMA SeenUnless ==
  ASSUME Seen, Seen', NEW C, NEW F,
         \A d \in Cnodes \ C : Alike(d),
         \A c \in Cnodes \cap C : (Serving(c) => fid[c] \in F) /\ (Serving(c)' => fid'[c] \in F)
  PROVE  \A g \in Fids \ F : Same(g)
<1> SUFFICES ASSUME NEW g \in Fids \ F PROVE Same(g)
  OBVIOUS
<1>1. Serves(g)' = Serves(g)
  BY DEF Serves, Serving, Alike
<1>2. \A c \in Serves(g) : c \in Cnodes \ C
  BY DEF Serves, Serving
<1> QED
  BY <1>1, <1>2, SeenSame DEF Alike, Same

LEMMA SeenQuiet ==
  ASSUME \A g \in Fids : Same(g)
  PROVE  UNCHANGED <<UsersOf, AttrsOf>>
  BY SeenShape DEF Same

LEMMA ServesOne ==
  ASSUME FilesInv, NEW f, NEW c \in Serves(f)
  PROVE  Serves(f) = {c}
  BY DEF FilesInv, OneCnode, Used, Serves

\* The steps of CodaFiles, from what they do to each file.
LEMMA AsGet ==
  ASSUME NEW f \in Fids, \A g \in Fids \ {f} : Same(g),
         UsersOf'[f] = UsersOf[f] + 1, (f \in AttrsOf') <=> (f \in AttrsOf)
  PROVE  FilesSpec!Get(f)
<1>1. UsersOf' = [UsersOf EXCEPT ![f] = @ + 1]
  BY SeenShape DEF Same
<1>2. AttrsOf' = AttrsOf
  BY SeenShape DEF Same
<1> QED
  BY <1>1, <1>2 DEF FilesSpec!Get

LEMMA AsPut ==
  ASSUME NEW f \in Fids, \A g \in Fids \ {f} : Same(g), UsersOf[f] > 0,
         UsersOf'[f] = UsersOf[f] - 1,
         (f \in AttrsOf') <=> (f \in AttrsOf /\ UsersOf[f] # 1)
  PROVE  FilesSpec!Put(f)
<1>1. UsersOf' = [UsersOf EXCEPT ![f] = @ - 1]
  BY SeenShape DEF Same
<1>2. AttrsOf' = AttrsOf \ {g \in {f} : UsersOf[f] = 1}
  BY SeenShape DEF Same
<1> QED
  BY <1>1, <1>2 DEF FilesSpec!Put

LEMMA AsLearn ==
  ASSUME NEW f \in Fids, \A g \in Fids \ {f} : Same(g), UsersOf[f] > 0,
         UsersOf'[f] = UsersOf[f], f \in AttrsOf'
  PROVE  FilesSpec!Learn(f)
<1>1. UsersOf' = UsersOf
  BY SeenShape DEF Same
<1>2. AttrsOf' = AttrsOf \cup {f}
  BY SeenShape DEF Same
<1> QED
  BY <1>1, <1>2 DEF FilesSpec!Learn

LEMMA AsZap ==
  ASSUME NEW f \in Fids, \A g \in Fids \ {f} : Same(g),
         UsersOf'[f] = UsersOf[f], f \notin AttrsOf'
  PROVE  FilesSpec!Zap(f)
<1>1. UsersOf' = UsersOf
  BY SeenShape DEF Same
<1>2. AttrsOf' = AttrsOf \ {f}
  BY SeenShape DEF Same
<1> QED
  BY <1>1, <1>2 DEF FilesSpec!Zap

LEMMA AsReplace ==
  ASSUME NEW f \in Fids, NEW g \in Fids, f # g, \A h \in Fids \ {f, g} : Same(h),
         UsersOf[g] = 0, UsersOf'[f] = 0, UsersOf'[g] = UsersOf[f],
         f \notin AttrsOf', g \notin AttrsOf, (g \in AttrsOf') <=> (f \in AttrsOf)
  PROVE  FilesSpec!Replace(f, g)
<1>1. UsersOf' = [UsersOf EXCEPT ![f] = 0, ![g] = UsersOf[f]]
  BY SeenShape DEF Same
<1>2. AttrsOf' = (AttrsOf \ {f}) \cup {h \in {g} : f \in AttrsOf}
  BY SeenShape DEF Same
<1> QED
  BY <1>1, <1>2 DEF FilesSpec!Replace

LEMMA AsGoAway ==
  ASSUME Same(CtlFid), \A f \in Fids \ {CtlFid} : UsersOf'[f] = 0 /\ f \notin AttrsOf'
  PROVE  FilesSpec!GoAway
<1>1. UsersOf' = [f \in Fids |-> IF f \in {CtlFid} THEN UsersOf[f] ELSE 0]
  BY SeenShape DEF Same
<1>2. AttrsOf' = AttrsOf \cap {CtlFid}
  BY SeenShape, ConstantsRight DEF Same
<1> QED
  BY <1>1, <1>2 DEF FilesSpec!GoAway

AStep == [FilesSpec!ANext]_<<UsersOf, AttrsOf>>

LEMMA AsStep ==
  /\ \A f \in Fids : FilesSpec!Get(f) \/ FilesSpec!Put(f) \/ FilesSpec!Learn(f) \/ FilesSpec!Zap(f)
                     => AStep
  /\ \A f, g \in Fids : FilesSpec!Replace(f, g) => AStep
  /\ FilesSpec!GoAway => AStep
  /\ UNCHANGED <<UsersOf, AttrsOf>> => AStep
  BY DEF AStep, FilesSpec!ANext

\* What a step needs to be a step of CodaFiles.
Held == Inv /\ FilesInv /\ Seen /\ Inv' /\ FilesInv' /\ Seen'

\* No file changes: what the step touches is found neither before nor after.
LEMMA AsStill ==
  ASSUME Held, NEW C, \A d \in Cnodes \ C : Alike(d),
         \A c \in Cnodes \cap C : ~Serving(c) /\ ~Serving(c)'
  PROVE  AStep
<1>1. \A g \in Fids \ {} : Same(g)
  BY SeenUnless DEF Held
<1> QED
  BY <1>1, SeenQuiet, AsStep

LEMMA FoundRefines ==
  ASSUME Held, NEW t \in Threads, NEW f \in Fids, Begins(t, f), \A u \in Threads : ~Makes(u),
         Found(f), NEW c, c = Find(f), Goes(t, "has", c),
         use' = Referenced(c), UNCHANGED <<links, fresh, fid, flags, vnode>>
  PROVE  AStep
<1>1. c \in Cnodes /\ fid[c] = f /\ use[c] > 0 /\ ~Making(c) /\ ~Dying(c)
  BY MakeFound DEF Held
<1>2. pc'[t].cp = c /\ pc'[t].at = "has" /\ \A u \in Threads \ {t} : pc'[u] = pc[u]
  BY InvTypes DEF Goes, Held
<1>3. \A d : ~Making(d) /\ ~Making(d)'
  BY <1>2 DEF Making, Makes
<1>4. use'[c] = use[c] + 1 /\ use[c] \in Nat /\ \A d \in Cnodes \ {c} : use'[d] = use[d]
  BY <1>1, InvTypes DEF Referenced, Held
<1>5. \A d \in Cnodes \ {c} : Alike(d)
  BY <1>3, <1>4 DEF Alike, Serving, Dying
<1>6. \A g \in Fids \ {f} : Same(g)
  <2>1. \A d \in Cnodes \cap {c} : fid[d] \in {f} /\ fid'[d] \in {f}
    BY <1>1
  <2> QED
    BY <1>5, <2>1, SeenUnless DEF Held
<1>7. c \in Serves(f) /\ c \in Serves(f)'
  BY <1>1, <1>3, <1>4 DEF Serves, Dying
<1>8. /\ UsersOf[f] = use[c] /\ ((f \in AttrsOf) <=> ("vattr" \in flags[c]))
      /\ UsersOf'[f] = use'[c] /\ ((f \in AttrsOf') <=> ("vattr" \in flags'[c]))
  BY <1>7 DEF Held, Seen
<1>9. FilesSpec!Get(f)
  BY <1>4, <1>6, <1>8, AsGet
<1> QED
  BY <1>9, AsStep

LEMMA AllocRefines ==
  ASSUME Held, NEW t \in Threads, NEW f \in Fids, \A u \in Threads : ~Makes(u),
         NEW c \in Alloc,
         fid' = [fid EXCEPT ![c] = f], flags' = [flags EXCEPT ![c] = {}],
         Goes(t, "newvnode", c), UNCHANGED <<vnode, use>>
  PROVE  AStep
<1>1. c \in Cnodes /\ use[c] = 0
  BY MakeAlloc DEF Held
<1>2. pc'[t].cp = c /\ \A u \in Threads \ {t} : pc'[u] = pc[u]
  BY InvTypes DEF Goes, Held
<1>3. \A d : ~Making(d) /\ (d # c => ~Making(d)')
  BY <1>2 DEF Making, Makes
<1>4. \A d \in Cnodes \ {c} : fid'[d] = fid[d] /\ flags'[d] = flags[d]
  BY InvTypes DEF Held
<1>5. \A d \in Cnodes \ {c} : Alike(d)
  BY <1>3, <1>4 DEF Alike, Serving, Dying
<1>6. \A d \in Cnodes \cap {c} : ~Serving(d) /\ ~Serving(d)'
  BY <1>1 DEF Serving
<1> QED
  BY <1>5, <1>6, AsStill

LEMMA MakeRefines ==
  ASSUME Held, NEW t \in Threads, NEW f \in Fids, Begins(t, f), \A u \in Threads : ~Makes(u), Make(t, f)
  PROVE  AStep
<1>1. CASE Found(f)
  <2>1. PICK c : c = Find(f)
    OBVIOUS
  <2>2. Goes(t, "has", c) /\ use' = Referenced(c) /\ UNCHANGED <<links, fresh, fid, flags, vnode>>
    BY <1>1, <2>1 DEF Make
  <2> QED
    BY <1>1, <2>1, <2>2, FoundRefines
<1>2. CASE ~Found(f)
  <2>1. PICK c \in Alloc :
          /\ fid' = [fid EXCEPT ![c] = f] /\ flags' = [flags EXCEPT ![c] = {}]
          /\ Goes(t, "newvnode", c)
    BY <1>2 DEF Make
  <2>2. UNCHANGED <<vnode, use>>
    BY <1>2 DEF Make
  <2> QED
    BY <1>2, <2>1, <2>2, AllocRefines
<1> QED
  BY <1>1, <1>2

LEMMA NewVnodeRefines ==
  ASSUME Held, NEW t \in Threads, NewVnode(t)
  PROVE  AStep
<1>1. PICK c : c = pc[t].cp
  OBVIOUS
<1>2. /\ pc[t].at = "newvnode" /\ Makes(t)
      /\ pc' = [pc EXCEPT ![t] = [at |-> "ubc", cp |-> c, live |-> TRUE]]
      /\ use' = [use EXCEPT ![c] = 1] /\ UNCHANGED <<fid, flags>>
  BY <1>1 DEF NewVnode, Makes, Goes
<1>3. pc'[t].cp = c /\ pc'[t].at = "ubc" /\ \A u \in Threads \ {t} : pc'[u] = pc[u]
  BY <1>2, InvTypes DEF Held
<1>4. (\A d : Making(d)' <=> Making(d)) /\ Making(c)
  BY <1>1, <1>2, <1>3 DEF Making, Makes
<1>5. \A d \in Cnodes \ {c} : Alike(d)
  BY <1>2, <1>4, InvTypes DEF Alike, Serving, Dying, Held
<1>6. \A d \in Cnodes \cap {c} : ~Serving(d) /\ ~Serving(d)'
  BY <1>4 DEF Serving
<1> QED
  BY <1>5, <1>6, AsStill

LEMMA SaveRefines ==
  ASSUME Held, NEW t \in Threads, Save(t)
  PROVE  AStep
<1>1. PICK c : c = pc[t].cp
  OBVIOUS
<1>2. /\ pc[t].at = "ubc" /\ Makes(t) /\ pc' = [pc EXCEPT ![t].at = "has"]
      /\ UNCHANGED <<fid, flags, vnode, use, owed>>
  BY <1>1 DEF Save, Makes
<1>3. pc'[t].cp = c /\ pc'[t].at = "has" /\ \A u \in Threads \ {t} : pc'[u] = pc[u]
  BY <1>1, <1>2, InvTypes DEF Entries, Held
<1>4. c \in Cnodes /\ Making(c) /\ \A u \in Threads \ {t} : Makes(u) => pc[u].cp # c
  BY <1>1, <1>2, Maker DEF Held
<1>5. ~Making(c)' /\ \A d \in Cnodes \ {c} : Making(d)' <=> Making(d)
  BY <1>1, <1>2, <1>3, <1>4 DEF Making, Makes
<1>6. \A d \in Cnodes \ {c} : Alike(d)
  BY <1>2, <1>5 DEF Alike, Serving, Dying
<1>7. use[c] = 1 /\ PlaceOK(t)
  BY <1>1, <1>2, InvTypes DEF PlaceOK, Held
<1>8. owed = NotClosing
  BY <1>2 DEF FilesInv, RootAlone, Inv, MounterInv, Threads, Held
<1>9. ~Dying(c) /\ "vattr" \notin flags[c]
  BY <1>4, <1>8 DEF FilesInv, FlagsInv, Held
<1>10. PICK f \in Fids : f = fid[c]
  BY <1>4, InvTypes DEF Held
<1>11. Serves(f) = {}
  BY <1>4, <1>9, <1>10 DEF FilesInv, OneCnode, Used, Serves, Held
<1>12. c \in Serves(f)'
  BY <1>2, <1>4, <1>5, <1>7, <1>9, <1>10 DEF Serves, Dying
<1>13. \A g \in Fids \ {f} : Same(g)
  <2>1. \A d \in Cnodes \cap {c} : fid[d] \in {f} /\ fid'[d] \in {f}
    BY <1>2, <1>10
  <2> QED
    BY <1>6, <2>1, SeenUnless DEF Held
<1>14. UsersOf[f] = 0 /\ f \notin AttrsOf /\ UsersOf'[f] = use'[c] /\ ((f \in AttrsOf') <=> ("vattr" \in flags'[c]))
  BY <1>11, <1>12 DEF Held, Seen
<1>15. FilesSpec!Get(f)
  BY <1>2, <1>7, <1>9, <1>13, <1>14, AsGet
<1> QED
  BY <1>15, AsStep

LEMMA VreleRefines ==
  ASSUME Held, NEW c \in Cnodes, vnode[c] = "mount", ~Making(c), use[c] > 0, Vrele(c),
         UNCHANGED <<fresh, fid>>, \A d \in Cnodes : Making(d)' <=> Making(d)
  PROVE  AStep
<1>1. /\ use'[c] = use[c] - 1 /\ use[c] \in Nat
      /\ \A d \in Cnodes \ {c} : use'[d] = use[d] /\ flags'[d] = flags[d]
      /\ \/ use'[c] > 0 /\ flags' = flags
         \/ use'[c] = 0 /\ ~Dying(c)
         \/ use'[c] = 0 /\ Dying(c) /\ flags' = flags
  BY VreleLists, InvTypes DEF Held
<1>2. \A d \in Cnodes \ {c} : Alike(d)
  BY <1>1 DEF Alike, Serving, Dying
<1>3. CASE Dying(c)
  <2>1. \A d \in Cnodes \cap {c} : ~Serving(d) /\ ~Serving(d)'
    BY <1>1, <1>3 DEF Serving, Dying
  <2> QED
    BY <1>2, <2>1, AsStill
<1>4. CASE ~Dying(c)
  <2>1. PICK f \in Fids : f = fid[c]
    BY InvTypes DEF Held
  <2>2. \A g \in Fids \ {f} : Same(g)
    <3>1. \A d \in Cnodes \cap {c} : fid[d] \in {f} /\ fid'[d] \in {f}
      BY <2>1
    <3> QED
      BY <1>2, <3>1, SeenUnless DEF Held
  <2>3. c \in Serves(f) /\ Serves(f) = {c}
    <3>1. c \in Serves(f)
      BY <1>4, <2>1 DEF Serves
    <3> QED
      BY <3>1, ServesOne DEF Held
  <2>4. UsersOf[f] = use[c] /\ ((f \in AttrsOf) <=> ("vattr" \in flags[c]))
    BY <2>3 DEF Held, Seen
  <2>5. CASE use'[c] > 0
    <3>1. flags' = flags
      BY <1>1, <2>5
    <3>2. c \in Serves(f)'
      BY <1>4, <2>1, <2>5, <3>1 DEF Serves, Dying
    <3>3. UsersOf'[f] = use'[c] /\ ((f \in AttrsOf') <=> ("vattr" \in flags'[c]))
      BY <3>2 DEF Held, Seen
    <3>4. FilesSpec!Put(f)
      BY <1>1, <2>2, <2>4, <2>5, <3>1, <3>3, AsPut
    <3> QED
      BY <3>4, AsStep
  <2>6. CASE use'[c] = 0
    <3>1. Serves(f)' = {}
      <4>1. \A d \in Cnodes \ {c} : d \notin Serves(f)'
        BY <1>2, <2>3 DEF Serves, Alike, Serving
      <4>2. c \notin Serves(f)'
        BY <2>6 DEF Serves
      <4>3. \A d \in Serves(f)' : d \in Cnodes
        BY DEF Serves
      <4> QED
        BY <4>1, <4>2, <4>3
    <3>2. UsersOf'[f] = 0 /\ f \notin AttrsOf'
      BY <3>1 DEF Held, Seen
    <3>3. FilesSpec!Put(f)
      BY <1>1, <2>2, <2>4, <2>6, <3>2, AsPut
    <3> QED
      BY <3>3, AsStep
  <2> QED
    BY <1>1, <2>5, <2>6
<1> QED
  BY <1>3, <1>4

LEMMA PutRefines ==
  ASSUME Held, NEW t \in Threads, Put(t)
  PROVE  AStep
<1>1. PICK c : c = pc[t].cp
  OBVIOUS
<1>2. /\ t \in Users /\ pc[t].at = "has" /\ pc' = [pc EXCEPT ![t] = Idle]
      /\ UNCHANGED <<fresh, fid, root, owed, mounts>>
      /\ \/ pc[t].live /\ Vrele(c)
         \/ ~pc[t].live /\ UNCHANGED <<links, vnode, use, flags>>
  BY <1>1 DEF Put
<1>3. PlaceOK(t) /\ c \in Cnodes /\ ~Makes(t)
  BY <1>1, <1>2, InvTypes DEF Pointer, PlaceOK, Makes, Held
<1>4. pc'[t].at = "idle" /\ \A u \in Threads \ {t} : pc'[u] = pc[u]
  BY <1>2, InvTypes DEF Idle, Held
<1>5. \A d : Making(d)' <=> Making(d)
  BY <1>3, <1>4 DEF Making, Makes
<1>6. CASE pc[t].live /\ Vrele(c)
  <2>1. vnode[c] = "mount" /\ t \in Live(c)
    BY <1>1, <1>2, <1>3, <1>6 DEF PlaceOK, MountOf, Live
  <2>2. ~Making(c)
    <3>1. ASSUME NEW u \in Threads, pc[u].cp = c, Makes(u) PROVE FALSE
      BY <1>3, <2>1, <3>1, Maker DEF Held
    <3> QED
      BY <3>1 DEF Making, Makes
  <2>3. use[c] > 0
    <3>1. UseOK(c) /\ Live(c) \in SUBSET Threads
      BY <1>3, InvTypes, LiveThreads DEF Held
    <3>2. Cardinality(Live(c)) > 0 /\ Cardinality(Live(c)) \in Nat
      BY <2>1, <3>1, OneMore, ThreadSets
    <3> QED
      BY <2>1, <3>1, <3>2 DEF UseOK
  <2> QED
    BY <1>2, <1>3, <1>5, <1>6, <2>1, <2>2, <2>3, VreleRefines
<1>7. CASE ~pc[t].live /\ UNCHANGED <<links, vnode, use, flags>>
  <2>1. \A d \in Cnodes \ {} : Alike(d)
    BY <1>2, <1>5, <1>7 DEF Alike, Serving, Dying
  <2>2. \A d \in Cnodes \cap {} : ~Serving(d) /\ ~Serving(d)'
    OBVIOUS
  <2> QED
    BY <2>1, <2>2, AsStill
<1> QED
  BY <1>2, <1>6, <1>7

\* What neither changes a cnode nor begins or ends the making of one.
LEMMA NothingChanges ==
  ASSUME Held, UNCHANGED <<fid, use, flags>>, \A d \in Cnodes : Making(d)' <=> Making(d)
  PROVE  AStep
<1>1. \A d \in Cnodes \ {} : Alike(d)
  BY DEF Alike, Serving, Dying
<1>2. \A d \in Cnodes \cap {} : ~Serving(d) /\ ~Serving(d)'
  OBVIOUS
<1> QED
  BY <1>1, <1>2, AsStill

LEMMA QuietsRefine ==
  ASSUME Held, NEW t \in Threads, Getattr(t) \/ GetattrAnswer(t) \/ GetattrKeep(t) \/ GetattrPass(t)
  PROVE  AStep
<1>1. /\ UNCHANGED <<fid, use>> /\ ~Makes(t)
      /\ \E w \in {"has", "getattr", "answered"} : pc' = [pc EXCEPT ![t].at = w]
  BY DEF Getattr, GetattrAnswer, GetattrKeep, GetattrPass, Returns, Makes
<1>2. ~Makes(t)' /\ \A u \in Threads \ {t} : pc'[u] = pc[u]
  BY <1>1, InvTypes DEF Entries, Makes, Held
<1>3. \A d : Making(d)' <=> Making(d)
  BY <1>1, <1>2 DEF Making, Makes
<1>4. CASE UNCHANGED flags
  BY <1>1, <1>3, <1>4, NothingChanges
<1>5. CASE GetattrKeep(t)
  <2>1. PICK c : c = pc[t].cp
    OBVIOUS
  <2>2. pc[t].at = "answered" /\ flags' = [flags EXCEPT ![c] = @ \cup {"vattr"}]
    BY <1>5, <2>1 DEF GetattrKeep
  <2>3. t \in Users /\ pc[t].live /\ PlaceOK(t) /\ c \in Pointer /\ owed = NotClosing
    BY <2>1, <2>2, InvTypes DEF FilesInv, CallInv, Calling, Held
  <2>4. c \in Cnodes /\ vnode[c] = "mount" /\ t \in Live(c)
    BY <1>1, <2>1, <2>2, <2>3 DEF PlaceOK, MountOf, Pointer, Live
  <2>5. ~Making(c)
    <3>1. ASSUME NEW u \in Threads, pc[u].cp = c, Makes(u) PROVE FALSE
      BY <1>1, <2>4, <3>1, Maker DEF Held
    <3> QED
      BY <3>1 DEF Making, Makes
  <2>6. use[c] > 0 /\ ~Dying(c)
    <3>1. Dying(c) => owed # NotClosing
      BY <2>4 DEF FilesInv, FlagsInv, Held
    <3>2. UseOK(c) /\ use[c] \in Nat
      BY <2>4, InvTypes DEF Held
    <3> QED
      BY <2>3, <2>4, <3>1, <3>2 DEF UseOK
  <2>7. PICK f \in Fids : f = fid[c]
    BY <2>4, InvTypes DEF Held
  <2>8. flags'[c] = flags[c] \cup {"vattr"} /\ \A d \in Cnodes \ {c} : flags'[d] = flags[d]
    BY <2>2, <2>4, InvTypes DEF Held
  <2>9. c \in Serves(f) /\ c \in Serves(f)'
    BY <1>1, <1>3, <2>4, <2>5, <2>6, <2>7, <2>8 DEF Serves, Dying
  <2>10. \A g \in Fids \ {f} : Same(g)
    <3>1. \A d \in Cnodes \cap {c} : fid[d] \in {f} /\ fid'[d] \in {f}
      BY <1>1, <2>7
    <3>2. \A d \in Cnodes \ {c} : Alike(d)
      BY <1>1, <1>3, <2>8 DEF Alike, Serving, Dying
    <3> QED
      BY <3>1, <3>2, SeenUnless DEF Held
  <2>11. /\ UsersOf[f] = use[c] /\ UsersOf'[f] = use'[c]
         /\ (f \in AttrsOf') <=> ("vattr" \in flags'[c])
    BY <2>9 DEF Held, Seen
  <2>12. FilesSpec!Learn(f)
    BY <1>1, <2>6, <2>8, <2>10, <2>11, AsLearn
  <2> QED
    BY <2>12, AsStep
<1> QED
  BY <1>4, <1>5 DEF Getattr, GetattrAnswer, GetattrPass

LEMMA ZapfileRefines ==
  ASSUME Held, NEW f \in Files, Zapfile(f)
  PROVE  AStep
<1>1. PICK c : c = Find(f)
  OBVIOUS
<1>2. /\ c \in Cnodes /\ fid[c] = f /\ use[c] > 0 /\ ~Making(c) /\ ~Dying(c) /\ f \in Fids
  BY <1>1, FoundFile, ConstantsRight DEF Zapfile, Held
<1>3. /\ flags' = [flags EXCEPT ![c] = flags[c] \ {"vattr"}] /\ UNCHANGED <<fid, use, pc>>
  BY <1>1 DEF Zapfile, Unattr, Invalid
<1>4. flags'[c] = flags[c] \ {"vattr"} /\ \A d \in Cnodes \ {c} : flags'[d] = flags[d]
  BY <1>2, <1>3, InvTypes DEF Held
<1>5. \A d : Making(d)' <=> Making(d)
  BY <1>3 DEF Making
<1>6. \A g \in Fids \ {f} : Same(g)
  <2>1. \A d \in Cnodes \cap {c} : fid[d] \in {f} /\ fid'[d] \in {f}
    BY <1>2, <1>3
  <2>2. \A d \in Cnodes \ {c} : Alike(d)
    BY <1>3, <1>4, <1>5 DEF Alike, Serving, Dying
  <2> QED
    BY <2>1, <2>2, SeenUnless DEF Held
<1>7. c \in Serves(f) /\ c \in Serves(f)'
  BY <1>2, <1>3, <1>4, <1>5 DEF Serves, Dying
<1>8. UsersOf[f] = use[c] /\ UsersOf'[f] = use'[c] /\ ((f \in AttrsOf') <=> ("vattr" \in flags'[c]))
  BY <1>2, <1>7 DEF Held, Seen
<1>9. FilesSpec!Zap(f)
  BY <1>2, <1>3, <1>4, <1>6, <1>8, AsZap
<1> QED
  BY <1>2, <1>9, AsStep

LEMMA RehashRefines ==
  ASSUME Held, NEW c \in Cnodes, NEW f \in Fids, NEW g \in Fids, f # g, fid[c] = f,
         ~Dying(c), use[c] > 0, ~Making(c), Serves(g) = {},
         fid' = [fid EXCEPT ![c] = g], UNCHANGED <<flags, use, pc>>
  PROVE  AStep
<1>1. fid'[c] = g /\ \A d \in Cnodes \ {c} : fid'[d] = fid[d]
  BY InvTypes DEF Held
<1>2. \A d : Making(d)' <=> Making(d)
  BY DEF Making
<1>3. \A d \in Cnodes \ {c} : Alike(d)
  BY <1>1, <1>2 DEF Alike, Serving, Dying
<1>4. \A h \in Fids \ {f, g} : Same(h)
  <2>1. \A d \in Cnodes \cap {c} : fid[d] \in {f, g} /\ fid'[d] \in {f, g}
    BY <1>1
  <2> QED
    BY <1>3, <2>1, SeenUnless DEF Held
<1>5. Serves(f) = {c}
  <2>1. c \in Serves(f)
    BY DEF Serves
  <2> QED
    BY <2>1, ServesOne DEF Held
<1>6. Serves(f)' = {}
  <2>1. \A d \in Cnodes \ {c} : d \notin Serves(f)'
    BY <1>3, <1>5 DEF Serves, Alike, Serving
  <2>2. c \notin Serves(f)'
    BY <1>1 DEF Serves
  <2>3. \A d \in Serves(f)' : d \in Cnodes
    BY DEF Serves
  <2> QED
    BY <2>1, <2>2, <2>3
<1>7. c \in Serves(g)'
  BY <1>1, <1>2 DEF Serves, Dying
<1>8. /\ UsersOf[f] = use[c] /\ ((f \in AttrsOf) <=> ("vattr" \in flags[c]))
      /\ UsersOf[g] = 0 /\ g \notin AttrsOf
  BY <1>5 DEF Held, Seen
<1>9. /\ UsersOf'[g] = use'[c] /\ ((g \in AttrsOf') <=> ("vattr" \in flags'[c]))
      /\ UsersOf'[f] = 0 /\ f \notin AttrsOf'
  BY <1>6, <1>7 DEF Held, Seen
<1>10. FilesSpec!Replace(f, g)
  BY <1>4, <1>8, <1>9, AsReplace
<1> QED
  BY <1>10, AsStep

LEMMA ReplaceRefines ==
  ASSUME Held, NEW f \in Files, NEW g \in Files, Replace(f, g)
  PROVE  AStep
<1>1. PICK c : c = Find(f)
  OBVIOUS
<1>2. /\ fid' = [fid EXCEPT ![c] = g] /\ Found(f) /\ UNCHANGED <<flags, use, pc>>
      /\ \A d \in Cnodes : fid[d] = g => vnode[d] = "none" /\ \A t \in Threads : pc[t].cp # d
  BY <1>1 DEF Replace
<1>3. /\ c \in Cnodes /\ fid[c] = f /\ use[c] > 0 /\ vnode[c] = "mount" /\ ~Dying(c) /\ ~Making(c)
  BY <1>1, <1>2, FoundFile DEF Held
<1>4. f # g /\ f \in Fids /\ g \in Fids
  BY <1>2, <1>3, ConstantsRight
<1>5. Serves(g) = {}
  BY <1>2, InvTypes DEF Serves, UseOK, Held
<1> QED
  BY <1>2, <1>3, <1>4, <1>5, RehashRefines

LEMMA RootRefines ==
  ASSUME Held, NEW f \in Files, coda_root(f)
  PROVE  AStep
<1>1. PICK c : c = root
  OBVIOUS
<1>2. /\ c # Nil /\ pc[Mounter] = Idle /\ fid' = [fid EXCEPT ![c] = f] /\ ~Rooted /\ owed = NotClosing
      /\ UNCHANGED <<flags, use, pc>> /\ fid[c] = RootFid
  BY <1>1 DEF coda_root, Mounted, Closing, Rooted
<1>3. c \in Cnodes /\ vnode[c] = "mount"
  BY <1>1, <1>2, InvTypes DEF Inv, RootInv, Pointer, Held
<1>4. use[c] > 0
  BY <1>1, <1>3, InvTypes, LiveThreads, ThreadSets DEF UseOK, Held
<1>5. ~Dying(c)
  BY <1>2, <1>3 DEF FilesInv, FlagsInv, Held
<1>6. ~Making(c)
  BY <1>2, ConstantsRight DEF FilesInv, RootAlone, Threads, Makes, Making, Idle, Held
<1>7. f \in Fids /\ RootFid \in Fids /\ f # RootFid /\ f # CtlFid
  BY ConstantsRight
<1>8. Serves(f) = {}
  <2> SUFFICES ASSUME NEW d \in Cnodes, fid[d] = f, use[d] > 0 PROVE FALSE
    BY DEF Serves
  <2>1. vnode[d] # "mount"
    BY <1>1, <1>2, <1>7, ConstantsRight DEF FilesInv, RootAlone, Idle, Held
  <2>2. vnode[d] # "nomount" /\ vnode[d] # "none"
    BY <1>7, InvTypes DEF UseOK, Held
  <2> QED
    BY <2>1, <2>2, InvTypes DEF Held
<1> QED
  BY <1>2, <1>3, <1>4, <1>5, <1>6, <1>7, <1>8, RehashRefines

LEMMA MountDoneRefines ==
  ASSUME Held, MountDone
  PROVE  AStep
<1>1. /\ pc[Mounter].at = "has" /\ pc' = [pc EXCEPT ![Mounter] = Idle] /\ UNCHANGED <<fid, flags, use>>
  BY DEF MountDone
<1>2. pc'[Mounter].at = "idle" /\ \A u \in Threads \ {Mounter} : pc'[u] = pc[u]
  BY <1>1, InvTypes, ConstantsRight DEF Idle, Held
<1>3. \A d : Making(d)' <=> Making(d)
  BY <1>1, <1>2 DEF Making
<1> QED
  BY <1>1, <1>3, NothingChanges

LEMMA CloseRefines ==
  ASSUME Held, vc_nb_close
  PROVE  AStep
<1>1. /\ root # Nil /\ UNCHANGED <<fid, vnode, use>>
      /\ flags' = [c \in Cnodes |-> IF c \in Marked THEN flags[c] \cup {"unmounting"} ELSE flags[c]]
      /\ pc' = [t \in Threads |-> IF t \in {u \in Threads : pc[u].at = "getattr"}
                                  THEN [pc[t] EXCEPT !.at = "failed"] ELSE pc[t]]
  BY DEF vc_nb_close, Mounted
<1>2. ASSUME NEW u \in Threads
      PROVE  pc'[u].cp = pc[u].cp /\ (pc'[u].at = pc[u].at \/ (pc[u].at = "getattr" /\ pc'[u].at = "failed"))
  <2>1. pc[u] \in Entries
    BY InvTypes DEF Held
  <2>2. pc'[u] = pc[u] \/ (pc[u].at = "getattr" /\ pc'[u] = [pc[u] EXCEPT !.at = "failed"])
    BY <1>1
  <2> QED
    BY <2>1, <2>2 DEF Entries
<1>3. \A d : Making(d)' <=> Making(d)
  BY <1>2 DEF Making
<1>4. owed' # NotClosing
  <2>1. owed' = Cardinality({t \in Threads : pc[t].at = "getattr"})
    BY DEF vc_nb_close
  <2>2. {t \in Threads : pc[t].at = "getattr"} \in SUBSET Threads
    OBVIOUS
  <2> QED
    BY <2>1, <2>2, ThreadSets DEF NotClosing
<1>5. \A d \in Cnodes : vnode[d] = "mount" => Dying(d)'
  BY <1>1, <1>4 DEF FilesInv, FlagsInv, Held
<1>6. \A c \in Marked : vnode[c] = "mount"
  BY <1>1 DEF Marked, Inv, RootInv, Held
<1>7. PICK C : C = {d \in Cnodes : vnode[d] = "mount"}
  OBVIOUS
<1>8. \A d \in Cnodes \ C : Alike(d)
  BY <1>1, <1>3, <1>6, <1>7 DEF Alike, Serving, Dying
<1>9. \A c \in Cnodes \cap C : fid[c] \in Fids \ {CtlFid} /\ fid'[c] \in Fids \ {CtlFid}
  BY <1>1, <1>7, InvTypes DEF UseOK, Held
<1>10. Same(CtlFid)
  <2>1. \A g \in Fids \ (Fids \ {CtlFid}) : Same(g)
    BY <1>8, <1>9, SeenUnless DEF Held
  <2> QED
    BY <2>1, ConstantsRight
<1>11. ASSUME NEW f \in Fids \ {CtlFid} PROVE UsersOf'[f] = 0 /\ f \notin AttrsOf'
  <2>1. ASSUME NEW c \in Cnodes, c \in Serves(f)' PROVE FALSE
    <3>1. fid[c] = f /\ use[c] > 0 /\ ~Dying(c)'
      BY <1>1, <2>1 DEF Serves
    <3>2. vnode[c] # "mount"
      BY <1>5, <3>1
    <3>3. vnode[c] # "nomount" /\ vnode[c] # "none"
      BY <3>1, InvTypes DEF UseOK, Held
    <3> QED
      BY <3>2, <3>3, InvTypes DEF Held
  <2>2. \A c \in Serves(f)' : c \in Cnodes
    BY DEF Serves
  <2>3. Serves(f)' = {}
    BY <2>1, <2>2
  <2> QED
    BY <2>3 DEF Held, Seen
<1>12. FilesSpec!GoAway
  BY <1>10, <1>11, AsGoAway
<1> QED
  BY <1>12, AsStep

LEMMA UnmountRefines ==
  ASSUME Held, coda_unmount, Sleeps = {}
  PROVE  AStep
<1>1. PICK c : c = root
  OBVIOUS
<1>2. /\ owed = 0 /\ Vrele(c) /\ UNCHANGED <<fresh, fid, pc>>
  BY <1>1 DEF coda_unmount
<1>3. c \in Cnodes /\ vnode[c] = "mount"
  BY <1>1, <1>2, InvTypes DEF Inv, RootInv, Pointer, Held
<1>4. use[c] > 0
  BY <1>1, <1>3, InvTypes, LiveThreads, ThreadSets DEF UseOK, Held
<1>5. \A u \in Threads : ~Makes(u)
  BY NobodyMakes, ConstantsRight DEF coda_unmount
<1>6. (\A d : Making(d)' <=> Making(d)) /\ ~Making(c)
  BY <1>2, <1>5 DEF Making, Makes
<1> QED
  BY <1>2, <1>3, <1>4, <1>6, VreleRefines

LEMMA VflushRefines ==
  ASSUME Held, NEW c \in Cnodes, Vflush(c)
  PROVE  AStep
<1>1. /\ owed = Flushing /\ vnode[c] = "mount" /\ UNCHANGED <<fid>>
      /\ use' = [use EXCEPT ![c] = 0] /\ flags' = [flags EXCEPT ![c] = {}]
      /\ pc' = [t \in Threads |-> IF pc[t].cp = c THEN [pc[t] EXCEPT !.live = FALSE] ELSE pc[t]]
  BY DEF Vflush
<1>2. owed # NotClosing
  BY <1>1 DEF Flushing, NotClosing
<1>3. \A u \in Threads : pc'[u].at = pc[u].at /\ pc'[u].cp = pc[u].cp
  BY <1>1, InvTypes DEF Entries, Held
<1>4. \A d : Making(d)' <=> Making(d)
  BY <1>3 DEF Making
<1>5. /\ use'[c] = 0 /\ \A d \in Cnodes \ {c} : use'[d] = use[d] /\ flags'[d] = flags[d]
  BY <1>1, InvTypes DEF Held
<1>6. Dying(c)
  BY <1>1, <1>2 DEF FilesInv, FlagsInv, Held
<1>7. \A d \in Cnodes \ {c} : Alike(d)
  BY <1>1, <1>4, <1>5 DEF Alike, Serving, Dying
<1>8. \A d \in Cnodes \cap {c} : ~Serving(d) /\ ~Serving(d)'
  BY <1>5, <1>6 DEF Serving
<1> QED
  BY <1>7, <1>8, AsStill

LEMMA StepRefines ==
  ASSUME Held, Sleeps = {}, [Next]_vars
  PROVE  AStep
<1>1. ASSUME NEW t \in Users, NEW f \in Files, Get(t, f) PROVE AStep
  <2>1. /\ t \in Threads /\ f \in Fids /\ f # CtlFid /\ pc[t].at = "idle" /\ root' = root
        /\ Make(t, f) /\ Funnel(t)
    BY <1>1, ConstantsRight DEF Get, Kernel
  <2>2. Begins(t, f) /\ \A u \in Threads : ~Makes(u)
    BY <2>1, NobodyMakes DEF Begins, Makes
  <2> QED
    BY <2>1, <2>2, MakeRefines
<1>2. ASSUME NEW t \in Threads,
             \/ NewVnode(t) \/ Save(t) \/ Put(t)
             \/ Getattr(t) \/ GetattrAnswer(t) \/ GetattrKeep(t) \/ GetattrPass(t)
      PROVE  AStep
  BY <1>2, NewVnodeRefines, SaveRefines, PutRefines, QuietsRefine
<1>3. ASSUME NEW f \in Files, Zapfile(f) \/ coda_root(f) PROVE AStep
  BY <1>3, ZapfileRefines, RootRefines
<1>4. ASSUME NEW f \in Files, NEW g \in Files, Replace(f, g) PROVE AStep
  BY <1>4, ReplaceRefines
<1>5. CASE coda_mount
  <2>1. /\ root = Nil /\ root' = root /\ pc[Mounter] = Idle /\ mounts < MaxMounts
        /\ Make(Mounter, RootFid) /\ Funnel(Mounter)
    BY <1>5 DEF coda_mount, Mounted, Kernel
  <2>2. Begins(Mounter, RootFid) /\ \A u \in Threads : ~Makes(u)
    BY <2>1, NobodyMakes DEF Begins, Makes, Idle
  <2> QED
    BY <2>1, <2>2, MakeRefines, ConstantsRight
<1>6. CASE MountCtl
  <2>1. /\ pc[Mounter].at = "has" /\ fid[pc[Mounter].cp] = RootFid /\ root' = pc[Mounter].cp
        /\ Make(Mounter, CtlFid)
    BY <1>6 DEF MountCtl
  <2>2. root = Nil
    BY <2>1 DEF Inv, MounterInv, Held
  <2>3. Begins(Mounter, CtlFid) /\ \A u \in Threads : ~Makes(u)
    BY <2>1, <2>2 DEF Begins, Makes, FilesInv, RootAlone, Rooted, Mounted, Threads, Held
  <2> QED
    BY <2>1, <2>3, MakeRefines, ConstantsRight
<1>7. CASE \E c \in Cnodes : Vflush(c)
  BY <1>7, VflushRefines
<1>8. CASE Unmounted \/ UNCHANGED vars
  <2>1. UNCHANGED <<fid, use, flags, pc>>
    BY <1>8 DEF Unmounted, vars
  <2>2. \A d : Making(d)' <=> Making(d)
    BY <2>1 DEF Making
  <2> QED
    BY <2>1, <2>2, NothingChanges
<1> QED
  BY <1>1, <1>2, <1>3, <1>4, <1>5, <1>6, <1>7, <1>8, MountDoneRefines, CloseRefines, UnmountRefines DEF Next

\* The cnode table keeps the promise of CodaFiles, if nobody sleeps in make_coda_node:
\* whatever the pointers, the hash chains and the freelist do, a file in use has one cnode
\* that everybody finds, with the references of all who use it, and its attributes stay
\* cached until the last of them lets go, Venus invalidates them or the file system is gone.
THEOREM CnodeImplementsFiles ==
  ASSUME Sleeps = {}
  PROVE  Spec => ImplementsFiles
<1>1. Init => FilesSpec!AInit
  <2> SUFFICES ASSUME Init PROVE FilesSpec!AInit
    OBVIOUS
  <2>1. Inv /\ FilesInv
    BY InvInit, FilesInit
  <2>2. Seen
    BY <2>1, SeenNow
  <2>3. \A f \in Fids : Serves(f) = {}
    BY DEF Serves, Init
  <2>4. UsersOf = [f \in Fids |-> 0] /\ AttrsOf = {}
    BY <2>2, <2>3, SeenShape DEF Seen
  <2> QED
    BY <2>4 DEF FilesSpec!AInit
<1>2. Inv /\ FilesInv /\ Inv' /\ FilesInv' /\ [Next]_vars => AStep
  <2> SUFFICES ASSUME Inv, FilesInv, Inv', FilesInv', [Next]_vars PROVE AStep
    OBVIOUS
  <2>1. Held
    BY SeenNow, SeenNext DEF Held
  <2> QED
    BY <2>1, StepRefines
<1> QED
  BY <1>1, <1>2, FilesAlways, PTL DEF Spec, ImplementsFiles, FilesSpec!ASpec, AStep
==============================================================================
