------------------------ MODULE CodaNameCacheProofs ------------------------
(***************************************************************************)
(* Theorems about CodaNameCache, for any cnodes, names, credentials and    *)
(* hash function, and any sizes of the cache: chains, LRU list and         *)
(* references agree after any sequence of operations, and the cache        *)
(* implements CodaLru.                                                     *)
(***************************************************************************)
EXTENDS CodaNameCache, FiniteSetTheorems, SequencesExt, SequenceTheorems, TLAPS

-----------------------------------------------------------------------------
(* Sizes of sets of slots.                                                 *)

LEMMA SlotsFinite ==
  ASSUME size \in Size
  PROVE  IsFiniteSet(Slots) /\ 1 \in Slots /\ size.heap \in Slots /\ size.heap \in Nat
<1>1. size.heap \in Nat /\ size.heap >= 1
  BY DEF Size
<1>2. IsFiniteSet(1..size.heap)
  BY <1>1, FS_Interval
<1> QED
  BY <1>1, <1>2 DEF Slots

\* A part and the rest of a set make up the set.
LEMMA Parts ==
  ASSUME NEW S, NEW T, IsFiniteSet(S)
  PROVE  /\ Cardinality(S) \in Nat /\ Cardinality(S \cap T) \in Nat
         /\ Cardinality(S \ T) = Cardinality(S) - Cardinality(S \cap T)
         /\ Cardinality(S \ T) \in Nat
<1>1. IsFiniteSet(S \cap T) /\ IsFiniteSet(S \ T)
  BY FS_Subset
<1>2. Cardinality(S \ T) = Cardinality(S) - Cardinality(S \cap T)
  BY FS_Difference
<1> QED
  BY <1>1, <1>2, FS_CardinalityType

\* An element more, if it is to be one.
LEMMA Joined ==
  ASSUME NEW S, NEW v, IsFiniteSet(S), v \notin S, NEW b \in BOOLEAN
  PROVE  Cardinality(S \cup (IF b THEN {v} ELSE {})) = Cardinality(S) + (IF b THEN 1 ELSE 0)
<1>0. Cardinality(S) \in Nat
  BY FS_CardinalityType
<1>1. CASE b
  BY <1>0, <1>1, FS_AddElement
<1>2. CASE ~b
  BY <1>0, <1>2
<1> QED
  BY <1>1, <1>2

LEMMA BucketType ==
  ASSUME size \in Size, NEW name \in Names \cup LongNames, NEW dcp \in Cnodes
  PROVE  Bucket(name, dcp) \in Buckets
<1>1. PICK n \in Nat \ {0} : n = size.hash
  BY DEF Size
<1>2. PICK h \in Nat : h = HashOf[<<name, dcp>>]
  <2>1. <<name, dcp>> \in (Names \cup LongNames) \X Cnodes
    OBVIOUS
  <2>2. HashOf[<<name, dcp>>] \in Nat
    BY <2>1, ConstantsAssumption
  <2> QED
    BY <2>2
<1>3. h % n \in 0..(n - 1)
  BY Z3
<1> QED
  BY <1>1, <1>2, <1>3 DEF Bucket, Buckets

-----------------------------------------------------------------------------
(* The invariant.                                                          *)

\* The lengths of the chains are what the memory allocator left of them.
LengthInv ==
  \A b \in Buckets : /\ length[b] >= Cardinality(chain[b])
                     /\ Garbage = {0} => length[b] = Cardinality(chain[b])

ChainInv ==
  /\ \A s \in Slots, b \in Buckets :
       s \in chain[b] <=> Valid(s) /\ b = Bucket(heap[s].name, heap[s].dcp)
  /\ \A s, t \in Held :
       heap[s].dcp = heap[t].dcp /\ heap[s].name = heap[t].name
       /\ heap[s].cred = heap[t].cred => s = t

LruInv ==
  /\ lru \in Orders
  /\ \A i, j \in Slots : i < j /\ Valid(lru[j]) => Valid(lru[i])

Inv == TypeOK /\ LengthInv /\ ChainInv /\ LruInv /\ RefsBalance

LEMMA HeldType ==
  ASSUME TypeOK
  PROVE  /\ Held \subseteq Slots /\ IsFiniteSet(Slots) /\ IsFiniteSet(Held)
         /\ \A s \in Held : heap[s] \in Entry /\ heap[s].dcp \in Cnodes /\ heap[s].cp \in Cnodes
                            /\ heap[s].name \in Names /\ heap[s].cred \in Creds
<1>1. IsFiniteSet(Slots)
  BY SlotsFinite DEF TypeOK
<1>2. Held \subseteq Slots
  BY DEF Held
<1>3. IsFiniteSet(Held)
  BY <1>1, <1>2, FS_Subset
<1>4. \A s \in Held : heap[s] \in Entry
  BY DEF TypeOK, Held, Valid
<1> QED
  BY <1>1, <1>2, <1>3, <1>4 DEF Entry

\* References of finitely many entries are a number.
LEMMA RefsType ==
  ASSUME NEW S, IsFiniteSet(S), NEW c
  PROVE  RefsOf(S, c) \in Nat /\ CrefsOf(S, c) \in Nat
<1>1. IsFiniteSet({s \in S : heap[s].dcp = c}) /\ IsFiniteSet({s \in S : heap[s].cp = c})
      /\ IsFiniteSet({s \in S : heap[s].cred = c})
  BY FS_Subset
<1>2. /\ Cardinality({s \in S : heap[s].dcp = c}) \in Nat
      /\ Cardinality({s \in S : heap[s].cp = c}) \in Nat
      /\ Cardinality({s \in S : heap[s].cred = c}) \in Nat
  BY <1>1, FS_CardinalityType
<1> QED
  BY <1>2 DEF RefsOf, CrefsOf

\* What remains when the entries of S go.
LEMMA RefsRemain ==
  ASSUME NEW H, IsFiniteSet(H), NEW S, S \subseteq H, NEW c
  PROVE  /\ RefsOf(H \ S, c) = RefsOf(H, c) - RefsOf(S, c)
         /\ CrefsOf(H \ S, c) = CrefsOf(H, c) - CrefsOf(S, c)
<1> DEFINE D(U) == {s \in U : heap[s].dcp = c}
           P(U) == {s \in U : heap[s].cp = c}
           C(U) == {s \in U : heap[s].cred = c}
<1>1. IsFiniteSet(D(H)) /\ IsFiniteSet(P(H)) /\ IsFiniteSet(C(H))
  BY FS_Subset
<1>2. /\ D(H \ S) = D(H) \ S /\ D(S) = D(H) \cap S
      /\ P(H \ S) = P(H) \ S /\ P(S) = P(H) \cap S
      /\ C(H \ S) = C(H) \ S /\ C(S) = C(H) \cap S
  OBVIOUS
<1>3. /\ Cardinality(D(H) \ S) = Cardinality(D(H)) - Cardinality(D(H) \cap S)
      /\ Cardinality(P(H) \ S) = Cardinality(P(H)) - Cardinality(P(H) \cap S)
      /\ Cardinality(C(H) \ S) = Cardinality(C(H)) - Cardinality(C(H) \cap S)
      /\ Cardinality(D(H)) \in Nat /\ Cardinality(D(H) \cap S) \in Nat
      /\ Cardinality(P(H)) \in Nat /\ Cardinality(P(H) \cap S) \in Nat
  <2> HIDE DEF D, P, C
  <2> QED
    BY <1>1, Parts
<1>4. /\ Cardinality(D(H \ S)) = Cardinality(D(H)) - Cardinality(D(S))
      /\ Cardinality(P(H \ S)) = Cardinality(P(H)) - Cardinality(P(S))
      /\ Cardinality(C(H \ S)) = Cardinality(C(H)) - Cardinality(C(S))
      /\ Cardinality(D(H)) \in Nat /\ Cardinality(D(S)) \in Nat
      /\ Cardinality(P(H)) \in Nat /\ Cardinality(P(S)) \in Nat
  <2> HIDE DEF D, P, C
  <2> QED
    BY <1>2, <1>3
<1> QED
  BY <1>4 DEF RefsOf, CrefsOf

-----------------------------------------------------------------------------
(* Entries that go.                                                        *)

\* What coda_nc_remove and coda_nc_flush do to entries of a set S, but for the LRU list.
Loses(S) ==
  /\ heap' = [s \in Slots |-> IF s \in S THEN Null ELSE heap[s]]
  /\ chain' = DropHash(S)
  /\ length' = Shortened(S, 0) \/ (S = Held /\ length' = [b \in Buckets |-> 0])
  /\ refs' = [c \in Cnodes |-> refs[c] - RefsOf(S, c)]
  /\ crefs' = [c \in Creds |-> crefs[c] - CrefsOf(S, c)]
  /\ UNCHANGED <<size, found, lost, clost>>

LEMMA Lost ==
  ASSUME Inv, NEW S, S \subseteq Held, Loses(S), lru' \in [Slots -> Slots]
  PROVE  /\ TypeOK' /\ LengthInv' /\ ChainInv' /\ RefsBalance'
         /\ \A s \in Slots : Valid(s)' <=> Valid(s) /\ s \notin S
<1>t. TypeOK /\ LengthInv /\ ChainInv /\ RefsBalance
  BY DEF Inv
<1>1. /\ Held \subseteq Slots /\ IsFiniteSet(Slots) /\ IsFiniteSet(Held)
      /\ \A s \in Held : heap[s] \in Entry /\ heap[s].dcp \in Cnodes /\ heap[s].cp \in Cnodes
                         /\ heap[s].name \in Names /\ heap[s].cred \in Creds
  BY <1>t, HeldType
<1>2. Slots' = Slots /\ Buckets' = Buckets
  BY DEF Loses, Slots, Buckets
<1>3. /\ heap' \in [Slots -> Entry \cup {Null}]
      /\ \A s \in Slots : heap'[s] = IF s \in S THEN Null ELSE heap[s]
  BY <1>t DEF Loses, TypeOK
<1>4. \A s \in Slots : Valid(s)' <=> Valid(s) /\ s \notin S
  BY <1>3 DEF Valid
<1>5. Held' = Held \ S /\ \A s \in Held' : heap'[s] = heap[s]
  BY <1>1, <1>2, <1>3, <1>4 DEF Held
<1>6. chain' \in [Buckets -> SUBSET Slots] /\ \A b \in Buckets : chain'[b] = chain[b] \ S
  BY <1>t DEF Loses, DropHash, TypeOK
<1>7. \A b \in Buckets : /\ length'[b] \in Nat /\ length'[b] >= Cardinality(chain'[b])
                         /\ Garbage = {0} => length'[b] = Cardinality(chain'[b])
  <2> SUFFICES ASSUME NEW b \in Buckets
               PROVE  /\ length'[b] \in Nat /\ length'[b] >= Cardinality(chain'[b])
                      /\ Garbage = {0} => length'[b] = Cardinality(chain'[b])
    OBVIOUS
  <2>1. IsFiniteSet(chain[b]) /\ length[b] \in Nat
    BY <1>1, <1>t, FS_Subset DEF TypeOK
  <2>2. /\ Cardinality(chain[b]) \in Nat /\ Cardinality(chain[b] \cap S) \in Nat
        /\ Cardinality(chain'[b]) = Cardinality(chain[b]) - Cardinality(chain[b] \cap S)
        /\ Cardinality(chain'[b]) \in Nat
    BY <1>6, <2>1, Parts
  <2>3. CASE length' = Shortened(S, 0)
    <3>1. length'[b] = length[b] - Cardinality(chain[b] \cap S)
      BY <2>3 DEF Shortened
    <3> QED
      BY <1>t, <2>1, <2>2, <3>1 DEF LengthInv
  <2>4. CASE S = Held /\ length' = [a \in Buckets |-> 0]
    <3>1. chain'[b] = {}
      BY <1>6, <1>t, <2>4 DEF ChainInv, TypeOK, Held
    <3>2. length'[b] = 0 /\ Cardinality(chain'[b]) = 0
      BY <2>4, <3>1, FS_EmptySet
    <3> QED
      BY <3>2
  <2> QED
    BY <2>3, <2>4 DEF Loses
<1>8. LengthInv'
  BY <1>2, <1>7 DEF LengthInv
<1>9. length' \in [Buckets -> Nat]
  BY <1>7 DEF Loses, Shortened
<1>10. ChainInv'
  <2>1. ASSUME NEW s \in Slots, NEW b \in Buckets
        PROVE  s \in chain'[b] <=> Valid(s)' /\ b = Bucket(heap[s].name, heap[s].dcp)'
    <3>1. s \notin S => Bucket(heap[s].name, heap[s].dcp)' = Bucket(heap[s].name, heap[s].dcp)
      BY <1>3 DEF Bucket, Loses
    <3> QED
      BY <1>4, <1>6, <1>t, <3>1 DEF ChainInv
  <2> QED
    BY <1>2, <1>5, <1>t, <2>1 DEF ChainInv
<1>11. RefsBalance'
  <2>1. ASSUME NEW c \in Cnodes
        PROVE  refs'[c] = RefsOf(Held, c)' + lost'[c]
    <3>1. RefsOf(Held, c)' = RefsOf(Held \ S, c)
      <4>1. /\ {s \in Held' : heap'[s].dcp = c} = {s \in Held \ S : heap[s].dcp = c}
            /\ {s \in Held' : heap'[s].cp = c} = {s \in Held \ S : heap[s].cp = c}
        BY <1>5
      <4> QED
        BY <4>1 DEF RefsOf
    <3>2. RefsOf(Held \ S, c) = RefsOf(Held, c) - RefsOf(S, c)
      BY <1>1, RefsRemain
    <3>3. RefsOf(Held, c) \in Nat /\ RefsOf(S, c) \in Nat /\ lost[c] \in Nat
      <4>1. IsFiniteSet(S)
        BY <1>1, FS_Subset
      <4> QED
        BY <1>1, <1>t, <4>1, RefsType DEF TypeOK
    <3>4. refs'[c] = refs[c] - RefsOf(S, c) /\ refs[c] = RefsOf(Held, c) + lost[c]
          /\ lost'[c] = lost[c]
      BY <1>t DEF Loses, RefsBalance
    <3> QED
      BY <3>1, <3>2, <3>3, <3>4
  <2>2. ASSUME NEW c \in Creds
        PROVE  crefs'[c] = CrefsOf(Held, c)' + clost'[c]
    <3>1. CrefsOf(Held, c)' = CrefsOf(Held \ S, c)
      <4>1. {s \in Held' : heap'[s].cred = c} = {s \in Held \ S : heap[s].cred = c}
        BY <1>5
      <4> QED
        BY <4>1 DEF CrefsOf
    <3>2. CrefsOf(Held \ S, c) = CrefsOf(Held, c) - CrefsOf(S, c)
      BY <1>1, RefsRemain
    <3>3. CrefsOf(Held, c) \in Nat /\ CrefsOf(S, c) \in Nat /\ clost[c] \in Nat
      <4>1. IsFiniteSet(S)
        BY <1>1, FS_Subset
      <4> QED
        BY <1>1, <1>t, <4>1, RefsType DEF TypeOK
    <3>4. crefs'[c] = crefs[c] - CrefsOf(S, c) /\ crefs[c] = CrefsOf(Held, c) + clost[c]
          /\ clost'[c] = clost[c]
      BY <1>t DEF Loses, RefsBalance
    <3> QED
      BY <3>1, <3>2, <3>3, <3>4
  <2> QED
    BY <2>1, <2>2 DEF RefsBalance
<1>12. refs' \in [Cnodes -> Nat] /\ crefs' \in [Creds -> Nat]
  <2>0. IsFiniteSet(Held')
    BY <1>1, <1>5, FS_Subset
  <2>1. ASSUME NEW c \in Cnodes PROVE refs'[c] \in Nat
    <3>1. RefsOf(Held, c)' \in Nat
      <4>1. IsFiniteSet({s \in Held' : heap'[s].dcp = c})
            /\ IsFiniteSet({s \in Held' : heap'[s].cp = c})
        BY <2>0, FS_Subset
      <4> QED
        BY <4>1, FS_CardinalityType DEF RefsOf
    <3> QED
      BY <1>11, <1>t, <3>1 DEF RefsBalance, TypeOK, Loses
  <2>2. ASSUME NEW c \in Creds PROVE crefs'[c] \in Nat
    <3>1. CrefsOf(Held, c)' \in Nat
      <4>1. IsFiniteSet({s \in Held' : heap'[s].cred = c})
        BY <2>0, FS_Subset
      <4> QED
        BY <4>1, FS_CardinalityType DEF CrefsOf
    <3> QED
      BY <1>11, <1>t, <3>1 DEF RefsBalance, TypeOK, Loses
  <2> QED
    BY <2>1, <2>2 DEF Loses
<1>13. TypeOK'
  BY <1>2, <1>3, <1>6, <1>9, <1>12, <1>t DEF TypeOK, Loses
<1> QED
  BY <1>4, <1>8, <1>10, <1>11, <1>13

\* The LRU list after a removal: those that went are behind all others.
LEMMA LostOrder ==
  ASSUME LruInv, NEW S, S \subseteq Slots, lru' \in LruVictims(S), size' = size,
         \A s \in Slots : Valid(s)' <=> Valid(s) /\ s \notin S
  PROVE  LruInv'
<1>1. Slots' = Slots /\ Orders' = Orders
  BY DEF Slots, Orders
<1>2. lru' \in Orders /\ lru \in Orders
  BY DEF LruVictims, LruInv
<1>3. lru' \in [Slots -> Slots] /\ lru \in [Slots -> Slots]
  BY <1>2 DEF Orders
<1>4. ASSUME NEW i \in Slots, NEW j \in Slots, i < j, Valid(lru[j])' PROVE Valid(lru[i])'
  <2>0. i \in Int /\ j \in Int
    BY DEF Slots
  <2>1. PICK s \in Slots, t \in Slots : s = lru'[i] /\ t = lru'[j]
    BY <1>3
  <2>2. Valid(t) /\ t \notin S
    <3>1. Valid(t)'
      BY <1>4, <2>1 DEF Valid
    <3> QED
      BY <3>1
  <2>3. ~Before(lru', t, s)
    <3>1. ASSUME NEW a \in Slots, NEW b \in Slots, a < b, lru'[a] = t, lru'[b] = s PROVE FALSE
      <4>1. a = j /\ b = i
        BY <1>2, <2>1, <3>1 DEF Orders
      <4> QED
        BY <1>4, <2>0, <3>1, <4>1
    <3> QED
      BY <3>1 DEF Before
  <2>4. s \notin S
    BY <2>2, <2>3 DEF LruVictims
  <2>5. Before(lru', s, t)
    BY <1>4, <2>1 DEF Before
  <2>6. Before(lru, s, t)
    BY <2>2, <2>4, <2>5 DEF LruVictims
  <2>7. PICK a \in Slots, b \in Slots : a < b /\ lru[a] = s /\ lru[b] = t
    BY <2>6 DEF Before
  <2>8. Valid(s)
    BY <2>2, <2>7 DEF LruInv
  <2>9. Valid(s)'
    BY <2>4, <2>8
  <2> QED
    BY <2>1, <2>9 DEF Valid
<1> QED
  BY <1>1, <1>2, <1>4 DEF LruInv

LEMMA Removes ==
  ASSUME Inv, NEW S, S \subseteq Held, NcRemove(S)
  PROVE  Inv'
<1>1. Loses(S) /\ lru' \in LruVictims(S) /\ size' = size
  BY DEF Loses, NcRemove
<1>2. lru' \in [Slots -> Slots]
  BY <1>1 DEF LruVictims, Orders
<1>3. /\ TypeOK' /\ LengthInv' /\ ChainInv' /\ RefsBalance'
      /\ \A s \in Slots : Valid(s)' <=> Valid(s) /\ s \notin S
  BY <1>1, <1>2, Lost
<1>4. LruInv'
  BY <1>1, <1>3, LostOrder DEF Inv, Held
<1> QED
  BY <1>3, <1>4 DEF Inv

\* What is on a chain is valid.
LEMMA ChainsHeld ==
  ASSUME Inv
  PROVE  OnChains \subseteq Held /\ \A b \in Buckets : chain[b] \subseteq Held
<1>1. \A b \in Buckets : chain[b] \subseteq Slots
  BY DEF Inv, TypeOK
<1>2. \A b \in Buckets : chain[b] \subseteq Held
  BY <1>1 DEF Inv, ChainInv, Held
<1> QED
  BY <1>2 DEF OnChains

LEMMA Zaps ==
  ASSUME Inv,
         \/ \E c \in Cnodes : coda_nc_zapParentfid(FidOf[c]) \/ coda_nc_zapfid(FidOf[c])
         \/ \E c \in Creds : coda_nc_purge_user(UidOf[c])
         \/ \E dcp \in Cnodes, name \in Names \cup LongNames : coda_nc_zapfile(dcp, name)
  PROVE  Inv'
<1>1. ASSUME NEW c \in Cnodes, coda_nc_zapParentfid(FidOf[c]) PROVE Inv'
  BY <1>1, ChainsHeld, Removes DEF coda_nc_zapParentfid
<1>2. ASSUME NEW c \in Cnodes, coda_nc_zapfid(FidOf[c]) PROVE Inv'
  BY <1>2, ChainsHeld, Removes DEF coda_nc_zapfid
<1>3. ASSUME NEW c \in Creds, coda_nc_purge_user(UidOf[c]) PROVE Inv'
  BY <1>3, Removes DEF coda_nc_purge_user
<1>4. ASSUME NEW dcp \in Cnodes, NEW name \in Names \cup LongNames, coda_nc_zapfile(dcp, name)
      PROVE  Inv'
  <2>1. Bucket(name, dcp) \in Buckets
    BY BucketType DEF Inv, TypeOK
  <2>2. FindAll(dcp, name) \subseteq Held
    BY <2>1, ChainsHeld DEF FindAll
  <2> QED
    BY <1>4, <2>2, Removes DEF coda_nc_zapfile
<1> QED
  BY <1>1, <1>2, <1>3, <1>4

LEMMA Flushes ==
  ASSUME Inv, coda_nc_flush
  PROVE  Inv'
<1>1. Loses(Held) /\ lru' = lru /\ size' = size
  <2>1. heap' = [s \in Slots |-> IF s \in Held THEN Null ELSE heap[s]]
    BY DEF coda_nc_flush, Held, Valid
  <2> QED
    BY <2>1 DEF coda_nc_flush, Loses
<1>2. lru' \in [Slots -> Slots]
  BY <1>1 DEF Inv, TypeOK
<1>3. /\ TypeOK' /\ LengthInv' /\ ChainInv' /\ RefsBalance'
      /\ \A s \in Slots : Valid(s)' <=> Valid(s) /\ s \notin Held
  BY <1>1, <1>2, Lost
<1>4. LruInv'
  <2>1. Slots' = Slots /\ Orders' = Orders
    BY <1>1 DEF Slots, Orders
  <2>2. \A s \in Slots : ~Valid(s)'
    BY <1>3 DEF Held
  <2> QED
    BY <1>1, <1>2, <2>1, <2>2 DEF Inv, LruInv
<1> QED
  BY <1>3, <1>4 DEF Inv

-----------------------------------------------------------------------------
(* An entry that goes to the head of the LRU list.                         *)

LEMMA Newest ==
  ASSUME size \in Size, lru \in Orders, NEW k \in Slots
  PROVE  /\ LruNewest(lru[k]) \in Orders
         /\ \A i \in Slots : LruNewest(lru[k])[i] =
              IF i = 1 THEN lru[k] ELSE IF i <= k THEN lru[i - 1] ELSE lru[i]
<1>1. lru \in [Slots -> Slots]
  BY DEF Orders
<1>2. PICK s \in Slots : s = lru[k]
  BY <1>1
<1>3. (CHOOSE i \in Slots : lru[i] = s) = k
  BY <1>2 DEF Orders
<1> DEFINE l == [i \in Slots |-> IF i = 1 THEN s ELSE IF i <= k THEN lru[i - 1] ELSE lru[i]]
<1>4. LruNewest(lru[k]) = l
  BY <1>2, <1>3 DEF LruNewest
<1>5. k \in Nat /\ 1 \in Slots /\ \A i \in Slots : i \in Nat /\ i >= 1 /\ (i # 1 => i - 1 \in Slots)
  <2>1. size.heap \in Nat /\ size.heap >= 1
    BY DEF Size
  <2> QED
    BY <2>1 DEF Slots
<1>6. l \in [Slots -> Slots]
  BY <1>1, <1>5
<1>7. ASSUME NEW t \in Slots PROVE \E i \in Slots : l[i] = t
  <2>1. PICK i \in Slots : lru[i] = t
    BY DEF Orders
  <2>2. CASE i = k
    BY <1>2, <1>5, <2>1, <2>2
  <2>3. CASE i < k
    <3>1. i + 1 \in Slots /\ i + 1 # 1 /\ i + 1 <= k /\ (i + 1) - 1 = i
      <4>1. i \in Nat /\ i >= 1 /\ k \in 1..size.heap /\ size.heap \in Nat
        BY <1>5, SlotsFinite DEF Slots
      <4> QED
        BY <2>3, <4>1 DEF Slots
    <3> QED
      BY <2>1, <3>1
  <2>4. CASE i > k
    <3>1. i # 1 /\ ~(i <= k)
      BY <1>5, <2>4
    <3> QED
      BY <2>1, <3>1
  <2> QED
    BY <1>5, <2>2, <2>3, <2>4
<1>8. ASSUME NEW i \in Slots, NEW j \in Slots, l[i] = l[j] PROVE i = j
  <2> DEFINE p(a) == IF a = 1 THEN k ELSE IF a <= k THEN a - 1 ELSE a
  <2>1. \A a \in Slots : p(a) \in Slots /\ l[a] = lru[p(a)]
    BY <1>2, <1>5
  <2>2. p(i) = p(j)
    BY <1>8, <2>1 DEF Orders
  <2> QED
    BY <1>5, <2>2
<1>9. l \in Orders
  BY <1>6, <1>7, <1>8 DEF Orders
<1> QED
  BY <1>2, <1>4, <1>9

LEMMA NewestOrder ==
  ASSUME size \in Size, LruInv, NEW k \in Slots, lru' = LruNewest(lru[k]), size' = size,
         NEW v, v = lru[k], Valid(v)', \A s \in Slots \ {v} : Valid(s)' <=> Valid(s)
  PROVE  LruInv'
<1>1. Slots' = Slots /\ Orders' = Orders
  BY DEF Slots, Orders
<1>2. /\ lru \in Orders /\ lru' \in Orders
      /\ \A i \in Slots : lru'[i] = IF i = 1 THEN v ELSE IF i <= k THEN lru[i - 1] ELSE lru[i]
  BY Newest DEF LruInv
<1>3. ASSUME NEW i \in Slots, NEW j \in Slots, i < j, Valid(lru[j])' PROVE Valid(lru[i])'
  <2>0. /\ i \in Nat /\ j \in Nat /\ k \in Nat /\ i >= 1 /\ j >= 2
        /\ j - 1 \in Slots /\ (i # 1 => i - 1 \in Slots)
    <3>1. size.heap \in Nat
      BY SlotsFinite
    <3> QED
      BY <1>3, <3>1 DEF Slots
  <2>1. CASE i = 1
    BY <1>2, <2>1 DEF Valid
  <2>2. CASE i # 1
    <3>1. PICK p \in Slots, q \in Slots :
            p < q /\ p # k /\ q # k /\ lru'[i] = lru[p] /\ lru'[j] = lru[q]
      <4>1. CASE j <= k
        <5>1. lru'[i] = lru[i - 1] /\ lru'[j] = lru[j - 1] /\ i - 1 < j - 1 /\ i - 1 # k /\ j - 1 # k
          BY <1>2, <1>3, <2>0, <2>2, <4>1
        <5> QED
          BY <2>0, <2>2, <5>1
      <4>2. CASE i <= k /\ j > k
        <5>1. lru'[i] = lru[i - 1] /\ lru'[j] = lru[j] /\ i - 1 < j /\ i - 1 # k /\ j # k
          BY <1>2, <2>0, <2>2, <4>2
        <5> QED
          BY <2>0, <2>2, <5>1
      <4>3. CASE i > k
        <5>1. lru'[i] = lru[i] /\ lru'[j] = lru[j] /\ i # k /\ j # k
          BY <1>2, <1>3, <2>0, <2>2, <4>3
        <5> QED
          BY <1>3, <5>1
      <4> QED
        BY <2>0, <4>1, <4>2, <4>3
    <3>2. lru[p] # v /\ lru[q] # v /\ lru[p] \in Slots /\ lru[q] \in Slots
      BY <1>2, <3>1 DEF Orders
    <3>3. PICK s \in Slots, t \in Slots : s = lru[p] /\ t = lru[q]
      BY <3>2
    <3>4. Valid(t)
      <4>1. Valid(t)'
        BY <1>3, <3>1, <3>3 DEF Valid
      <4> QED
        BY <3>2, <3>3, <4>1
    <3>5. Valid(s)
      BY <3>1, <3>3, <3>4 DEF LruInv
    <3>6. Valid(s)'
      BY <3>2, <3>3, <3>5
    <3> QED
      BY <3>1, <3>3, <3>6 DEF Valid
  <2> QED
    BY <2>1, <2>2
<1> QED
  BY <1>1, <1>2, <1>3 DEF LruInv

LEMMA LooksUp ==
  ASSUME Inv, NEW dcp \in Cnodes, NEW name \in Names \cup LongNames, NEW cred \in Creds,
         coda_nc_lookup(dcp, name, cred)
  PROVE  Inv'
<1>t. TypeOK /\ LengthInv /\ ChainInv /\ LruInv /\ RefsBalance
  BY DEF Inv
<1>1. /\ UNCHANGED <<size, heap, chain, length, refs, crefs, lost, clost>>
      /\ \E cp \in Cnodes \cup {NoCnode} :
           found' = [dcp |-> dcp, name |-> name, cred |-> cred, cp |-> cp]
      /\ lru' = lru \/ \E s \in Find(dcp, name, cred) : lru' = LruNewest(s)
  BY DEF coda_nc_lookup
<1>2. Slots' = Slots /\ Buckets' = Buckets /\ Orders' = Orders /\ Held' = Held
  BY <1>1 DEF Slots, Buckets, Orders, Held, Valid
<1>3. found' \in Answer
  BY <1>1 DEF Answer
<1>4. LruInv'
  <2>1. CASE lru' = lru
    BY <1>1, <1>2, <1>t, <2>1 DEF LruInv, Valid
  <2>2. ASSUME NEW s \in Find(dcp, name, cred), lru' = LruNewest(s) PROVE LruInv'
    <3>1. Bucket(name, dcp) \in Buckets
      BY <1>t, BucketType DEF TypeOK
    <3>2. s \in Held
      BY <3>1, ChainsHeld DEF Find
    <3>3. PICK k \in Slots : lru[k] = s
      BY <1>t, <3>2 DEF LruInv, Orders, Held
    <3>4. Valid(s)' /\ \A r \in Slots : Valid(r)' <=> Valid(r)
      BY <1>1, <3>2 DEF Valid, Held
    <3> QED
      BY <1>1, <1>t, <2>2, <3>3, <3>4, NewestOrder DEF TypeOK
  <2> QED
    BY <1>1, <2>1, <2>2
<1>5. TypeOK'
  <2>1. lru' \in [Slots -> Slots]
    BY <1>2, <1>4 DEF LruInv, Orders
  <2> QED
    BY <1>1, <1>2, <1>3, <1>t, <2>1 DEF TypeOK
<1>6. LengthInv' /\ ChainInv' /\ RefsBalance'
  BY <1>1, <1>2, <1>t DEF LengthInv, ChainInv, RefsBalance, RefsOf, CrefsOf, Bucket, Valid
<1> QED
  BY <1>4, <1>5, <1>6 DEF Inv

-----------------------------------------------------------------------------
(* A new entry.                                                            *)

LEMMA Enters ==
  ASSUME Inv, NEW dcp \in Cnodes, NEW name \in Names \cup LongNames, NEW cred \in Creds,
         NEW cp \in Cnodes, coda_nc_enter(dcp, name, cred, cp)
  PROVE  Inv'
<1>t. TypeOK /\ LengthInv /\ ChainInv /\ LruInv /\ RefsBalance
  BY DEF Inv
<1>0. PICK v, old, b : v = Victim /\ old = Evicted(v) /\ b = Bucket(name, dcp)
  OBVIOUS
<1> DEFINE e == [dcp |-> dcp, name |-> name, cred |-> cred, cp |-> cp]
<1>1. /\ name \in Names /\ Find(dcp, name, cred) = {}
      /\ heap' = [heap EXCEPT ![v] = e]
      /\ lru' = LruNewest(v)
      /\ chain' = [DropHash(old) EXCEPT ![b] = @ \cup {v}]
      /\ length' = [Shortened(old, b) EXCEPT ![b] = @ + 1]
      /\ refs' = [c \in Cnodes |-> refs[c] - RefsOf(old, c) + RefsOfNew(dcp, cp, c)]
      /\ crefs' = [c \in Creds |->
                     crefs[c] - CrefsOf(old, c) + (IF c = cred THEN 1 ELSE 0)]
      /\ UNCHANGED <<size, found, lost, clost>>
  BY <1>0 DEF coda_nc_enter
<1>2. /\ Held \subseteq Slots /\ IsFiniteSet(Slots) /\ IsFiniteSet(Held)
      /\ \A s \in Held : heap[s] \in Entry /\ heap[s].dcp \in Cnodes /\ heap[s].cp \in Cnodes
                         /\ heap[s].name \in Names /\ heap[s].cred \in Creds
  BY <1>t, HeldType
<1>3. Slots' = Slots /\ Buckets' = Buckets
  BY <1>1 DEF Slots, Buckets
<1>4. size.heap \in Slots /\ v = lru[size.heap] /\ v \in Slots /\ b \in Buckets
      /\ old = {v} \cap Held
  BY <1>0, <1>t, SlotsFinite, BucketType DEF TypeOK, Victim, Evicted
<1>5. e \in Entry /\ e # Null
  <2>1. e \in Entry
    BY <1>1 DEF Entry
  <2>2. e.dcp # NoCnode
    BY ConstantsAssumption
  <2> QED
    BY <2>1, <2>2 DEF Null
<1>6. /\ heap' \in [Slots -> Entry \cup {Null}] /\ heap'[v] = e
      /\ \A s \in Slots \ {v} : heap'[s] = heap[s]
  BY <1>1, <1>4, <1>5, <1>t DEF TypeOK
<1>7. /\ Valid(v)' /\ \A s \in Slots \ {v} : Valid(s)' <=> Valid(s)
      /\ Held' = (Held \ old) \cup {v} /\ v \notin Held \ old
      /\ \A s \in Held \ old : heap'[s] = heap[s]
  BY <1>2, <1>3, <1>4, <1>5, <1>6 DEF Valid, Held
<1>8. LruInv'
  BY <1>1, <1>4, <1>7, <1>t, NewestOrder DEF TypeOK
<1>9. /\ chain' \in [Buckets -> SUBSET Slots]
      /\ \A a \in Buckets : chain'[a] = (chain[a] \ old) \cup (IF a = b THEN {v} ELSE {})
      /\ \A a \in Buckets : v \notin chain[a] \ old
  <2>1. DropHash(old) \in [Buckets -> SUBSET Slots]
    BY <1>t DEF DropHash, TypeOK
  <2>2. \A a \in Buckets : v \in chain[a] => v \in Held
    BY ChainsHeld
  <2> QED
    BY <1>1, <1>4, <2>1, <2>2 DEF DropHash
<1>10. \A a \in Buckets : /\ length'[a] \in Nat /\ length'[a] >= Cardinality(chain'[a])
                          /\ Garbage = {0} => length'[a] = Cardinality(chain'[a])
  <2> SUFFICES ASSUME NEW a \in Buckets
               PROVE  /\ length'[a] \in Nat /\ length'[a] >= Cardinality(chain'[a])
                      /\ Garbage = {0} => length'[a] = Cardinality(chain'[a])
    OBVIOUS
  <2>1. IsFiniteSet(chain[a]) /\ length[a] \in Nat
    BY <1>2, <1>t, FS_Subset DEF TypeOK
  <2>2. /\ Cardinality(chain[a]) \in Nat /\ Cardinality(chain[a] \cap old) \in Nat
        /\ Cardinality(chain[a] \ old) = Cardinality(chain[a]) - Cardinality(chain[a] \cap old)
        /\ Cardinality(chain[a] \ old) \in Nat
    BY <2>1, Parts
  <2>3. IsFiniteSet(chain[a] \ old)
    BY <2>1, FS_Subset
  <2>4. Cardinality(chain'[a]) = Cardinality(chain[a] \ old) + (IF a = b THEN 1 ELSE 0)
    <3>1. PICK n \in BOOLEAN : n <=> a = b
      OBVIOUS
    <3>2. chain'[a] = (chain[a] \ old) \cup (IF n THEN {v} ELSE {})
      BY <1>9, <3>1
    <3> QED
      BY <1>9, <2>3, <3>1, <3>2, Joined
  <2>5. length'[a] = length[a] - Cardinality(chain[a] \cap old) + (IF a = b THEN 1 ELSE 0)
    BY <1>1, <1>4, <2>1, <2>2 DEF Shortened
  <2>6. length[a] >= Cardinality(chain[a]) /\ (Garbage = {0} => length[a] = Cardinality(chain[a]))
    BY <1>t DEF LengthInv
  <2> QED
    BY <2>1, <2>2, <2>4, <2>5, <2>6
<1>11. length' \in [Buckets -> Nat]
  BY <1>1, <1>10 DEF Shortened
<1>12. LengthInv'
  BY <1>3, <1>10 DEF LengthInv
<1>13. ChainInv'
  <2>1. ASSUME NEW s \in Slots, NEW a \in Buckets
        PROVE  s \in chain'[a] <=> Valid(s)' /\ a = Bucket(heap[s].name, heap[s].dcp)'
    <3>1. Bucket(heap[s].name, heap[s].dcp)' =
            IF s = v THEN b ELSE Bucket(heap[s].name, heap[s].dcp)
      <4>1. s = v => heap'[s].name = name /\ heap'[s].dcp = dcp
        BY <1>6
      <4> QED
        BY <1>0, <1>1, <1>6, <4>1 DEF Bucket
    <3>2. CASE s = v
      BY <1>7, <1>9, <3>1, <3>2
    <3>3. CASE s # v
      <4>1. s \in chain'[a] <=> s \in chain[a]
        BY <1>4, <1>9, <3>3
      <4>2. s \in chain[a] <=> Valid(s) /\ a = Bucket(heap[s].name, heap[s].dcp)
        BY <1>t DEF ChainInv
      <4> QED
        BY <1>7, <3>1, <3>3, <4>1, <4>2
    <3> QED
      BY <3>2, <3>3
  <2>2. ASSUME NEW s \in Held'
        PROVE  ~(s # v /\ heap'[s].dcp = dcp /\ heap'[s].name = name /\ heap'[s].cred = cred)
    <3> SUFFICES ASSUME s # v, heap'[s].dcp = dcp, heap'[s].name = name, heap'[s].cred = cred
                 PROVE  FALSE
      OBVIOUS
    <3>1. s \in Held /\ heap[s].dcp = dcp /\ heap[s].name = name /\ heap[s].cred = cred
      BY <1>7
    <3>2. s \in chain[b]
      BY <1>0, <1>2, <1>4, <1>t, <3>1 DEF ChainInv, Held
    <3> QED
      BY <1>0, <1>1, <3>1, <3>2 DEF Find
  <2>3. ASSUME NEW s \in Held', NEW t \in Held', heap'[s].dcp = heap'[t].dcp,
               heap'[s].name = heap'[t].name, heap'[s].cred = heap'[t].cred
        PROVE  s = t
    <3>1. heap'[v].dcp = dcp /\ heap'[v].name = name /\ heap'[v].cred = cred
      BY <1>6
    <3>2. CASE s = v \/ t = v
      BY <2>2, <2>3, <3>1, <3>2
    <3>3. CASE s # v /\ t # v
      <4>1. s \in Held /\ t \in Held /\ heap'[s] = heap[s] /\ heap'[t] = heap[t]
        BY <1>7, <3>3
      <4> QED
        BY <1>t, <2>3, <4>1 DEF ChainInv
    <3> QED
      BY <3>2, <3>3
  <2> QED
    BY <1>3, <2>1, <2>3 DEF ChainInv
<1>14. ASSUME NEW c \in Cnodes
       PROVE  refs'[c] = RefsOf(Held, c)' + lost'[c] /\ refs'[c] \in Nat
  <2> DEFINE D == {s \in Held \ old : heap[s].dcp = c}
             P == {s \in Held \ old : heap[s].cp = c}
  <2>1. PICK d \in BOOLEAN, p \in BOOLEAN : (d <=> c = dcp) /\ (p <=> c = cp)
    OBVIOUS
  <2>2. /\ {s \in Held' : heap'[s].dcp = c} = D \cup (IF d THEN {v} ELSE {})
        /\ {s \in Held' : heap'[s].cp = c} = P \cup (IF p THEN {v} ELSE {})
    <3>1. heap'[v].dcp = dcp /\ heap'[v].cp = cp
      BY <1>6
    <3> QED
      BY <1>7, <2>1, <3>1
  <2>3. IsFiniteSet(D) /\ IsFiniteSet(P) /\ v \notin D /\ v \notin P
    BY <1>2, <1>7, FS_Subset
  <2>4. /\ Cardinality({s \in Held' : heap'[s].dcp = c}) = Cardinality(D) + (IF d THEN 1 ELSE 0)
        /\ Cardinality({s \in Held' : heap'[s].cp = c}) = Cardinality(P) + (IF p THEN 1 ELSE 0)
    <3>1. /\ Cardinality(D \cup (IF d THEN {v} ELSE {})) = Cardinality(D) + (IF d THEN 1 ELSE 0)
          /\ Cardinality(P \cup (IF p THEN {v} ELSE {})) = Cardinality(P) + (IF p THEN 1 ELSE 0)
      <4> HIDE DEF D, P
      <4> QED
        BY <2>1, <2>3, Joined
    <3> QED
      BY <2>2, <3>1
  <2>5. Cardinality(D) \in Nat /\ Cardinality(P) \in Nat
    BY <2>3, FS_CardinalityType
  <2>6. RefsOf(Held, c)' = RefsOf(Held \ old, c) + RefsOfNew(dcp, cp, c)
        /\ RefsOf(Held, c)' \in Nat
    BY <2>1, <2>4, <2>5 DEF RefsOf, RefsOfNew
  <2>7. RefsOf(Held \ old, c) = RefsOf(Held, c) - RefsOf(old, c)
    BY <1>2, <1>4, RefsRemain
  <2>8. RefsOf(Held, c) \in Nat /\ RefsOf(old, c) \in Nat /\ lost[c] \in Nat
        /\ RefsOfNew(dcp, cp, c) \in Nat
    <3>1. IsFiniteSet(old)
      BY <1>2, <1>4, FS_Subset
    <3>2. RefsOfNew(dcp, cp, c) \in Nat
      BY DEF RefsOfNew
    <3> QED
      BY <1>2, <1>t, <3>1, <3>2, RefsType DEF TypeOK
  <2>9. /\ refs'[c] = refs[c] - RefsOf(old, c) + RefsOfNew(dcp, cp, c)
        /\ refs[c] = RefsOf(Held, c) + lost[c] /\ lost'[c] = lost[c]
    BY <1>1, <1>t DEF RefsBalance
  <2> QED
    BY <2>6, <2>7, <2>8, <2>9
<1>15. ASSUME NEW c \in Creds
       PROVE  crefs'[c] = CrefsOf(Held, c)' + clost'[c] /\ crefs'[c] \in Nat
  <2> DEFINE C == {s \in Held \ old : heap[s].cred = c}
  <2>1. PICK d \in BOOLEAN : d <=> c = cred
    OBVIOUS
  <2>2. {s \in Held' : heap'[s].cred = c} = C \cup (IF d THEN {v} ELSE {})
    <3>1. heap'[v].cred = cred
      BY <1>6
    <3> QED
      BY <1>7, <2>1, <3>1
  <2>3. IsFiniteSet(C) /\ v \notin C
    BY <1>2, <1>7, FS_Subset
  <2>4. Cardinality({s \in Held' : heap'[s].cred = c}) = Cardinality(C) + (IF d THEN 1 ELSE 0)
    <3>1. Cardinality(C \cup (IF d THEN {v} ELSE {})) = Cardinality(C) + (IF d THEN 1 ELSE 0)
      <4> HIDE DEF C
      <4> QED
        BY <2>1, <2>3, Joined
    <3> QED
      BY <2>2, <3>1
  <2>5. Cardinality(C) \in Nat
    BY <2>3, FS_CardinalityType
  <2>6. CrefsOf(Held, c)' = CrefsOf(Held \ old, c) + (IF c = cred THEN 1 ELSE 0)
        /\ CrefsOf(Held, c)' \in Nat
    BY <2>1, <2>4, <2>5 DEF CrefsOf
  <2>7. CrefsOf(Held \ old, c) = CrefsOf(Held, c) - CrefsOf(old, c)
    BY <1>2, <1>4, RefsRemain
  <2>8. CrefsOf(Held, c) \in Nat /\ CrefsOf(old, c) \in Nat /\ clost[c] \in Nat
    <3>1. IsFiniteSet(old)
      BY <1>2, <1>4, FS_Subset
    <3> QED
      BY <1>2, <1>t, <3>1, RefsType DEF TypeOK
  <2>9. /\ crefs'[c] = crefs[c] - CrefsOf(old, c) + (IF c = cred THEN 1 ELSE 0)
        /\ crefs[c] = CrefsOf(Held, c) + clost[c] /\ clost'[c] = clost[c]
    BY <1>1, <1>t DEF RefsBalance
  <2> QED
    BY <2>6, <2>7, <2>8, <2>9
<1>16. RefsBalance'
  BY <1>14, <1>15 DEF RefsBalance
<1>17. TypeOK'
  <2>1. lru' \in [Slots -> Slots]
    BY <1>3, <1>8 DEF LruInv, Orders
  <2>2. refs' \in [Cnodes -> Nat] /\ crefs' \in [Creds -> Nat]
    BY <1>1, <1>14, <1>15
  <2> QED
    BY <1>1, <1>3, <1>6, <1>9, <1>11, <1>t, <2>1, <2>2 DEF TypeOK
<1> QED
  BY <1>8, <1>12, <1>13, <1>16, <1>17 DEF Inv

-----------------------------------------------------------------------------
(* New tables, and the theorems.                                           *)

\* An empty cache of any size.
FreshTables ==
  /\ size \in Size /\ \A s \in Slots : ~Valid(s)
  /\ lru = [i \in Slots |-> size.heap + 1 - i]
  /\ chain = [b \in Buckets |-> {}] /\ length \in [Buckets -> Garbage]

FreshFacts ==
  /\ LengthInv /\ ChainInv /\ LruInv
  /\ lru \in [Slots -> Slots] /\ length \in [Buckets -> Nat]
  /\ \A c : RefsOf(Held, c) = 0 /\ CrefsOf(Held, c) = 0

LEMMA Fresh == FreshTables => FreshFacts
<1> SUFFICES ASSUME FreshTables PROVE FreshFacts
  OBVIOUS
<1> USE DEF FreshTables
<1>1. size.heap \in Nat
  BY SlotsFinite
<1>2. lru \in Orders
  <2>1. \A s \in Slots : s \in Nat /\ size.heap + 1 - s \in Slots
    BY <1>1 DEF Slots
  <2>2. lru \in [Slots -> Slots]
    BY <2>1
  <2>3. ASSUME NEW s \in Slots PROVE \E i \in Slots : lru[i] = s
    <3>1. PICK i \in Slots : i = size.heap + 1 - s
      BY <2>1
    <3>2. lru[i] = s
      BY <1>1, <2>1, <3>1
    <3> QED
      BY <3>2
  <2>4. ASSUME NEW i \in Slots, NEW j \in Slots, lru[i] = lru[j] PROVE i = j
    BY <1>1, <2>1, <2>4
  <2> QED
    BY <2>2, <2>3, <2>4 DEF Orders
<1>3. Held = {}
  BY DEF Held
<1>4. length \in [Buckets -> Nat] /\ \A b \in Buckets : length[b] \in Garbage
  BY ConstantsAssumption
<1>5. LengthInv
  <2>1. \A b \in Buckets : Cardinality(chain[b]) = 0
    BY FS_EmptySet
  <2> QED
    BY <1>4, <2>1 DEF LengthInv
<1>6. ChainInv
  BY <1>3 DEF ChainInv
<1>7. \A c : RefsOf(Held, c) = 0 /\ CrefsOf(Held, c) = 0
  BY <1>3, FS_EmptySet DEF RefsOf, CrefsOf
<1>8. LruInv
  BY <1>2 DEF LruInv, Orders
<1> QED
  BY <1>2, <1>4, <1>5, <1>6, <1>7, <1>8 DEF Orders, FreshFacts

LEMMA InvInit == Init => Inv
<1> SUFFICES ASSUME Init PROVE Inv
  OBVIOUS
<1>1. size \in Size /\ \A s \in Slots : ~Valid(s)
  BY ConstantsAssumption DEF Init, Valid
<1>2. /\ LengthInv /\ ChainInv /\ LruInv
      /\ lru \in [Slots -> Slots] /\ length \in [Buckets -> Nat]
      /\ \A c : RefsOf(Held, c) = 0 /\ CrefsOf(Held, c) = 0
  BY <1>1, Fresh DEF Init, FreshTables, FreshFacts
<1>3. TypeOK
  BY <1>1, <1>2 DEF Init, TypeOK, Answer
<1>4. RefsBalance
  BY <1>2 DEF Init, RefsBalance
<1> QED
  BY <1>2, <1>3, <1>4 DEF Inv

LEMMA Resizes ==
  ASSUME Inv, NEW sz \in Sizes, coda_nc_resize(sz)
  PROVE  Inv'
<1>t. TypeOK /\ RefsBalance
  BY DEF Inv
<1>1. /\ size' = sz /\ sz \in Size
      /\ heap' = [s \in 1..sz.heap |-> Null]
      /\ lru' = [i \in 1..sz.heap |-> sz.heap + 1 - i]
      /\ chain' = [b \in 0..(sz.hash - 1) |-> {}]
      /\ length' \in [0..(sz.hash - 1) -> Garbage]
      /\ lost' = [c \in Cnodes |-> lost[c] + RefsOf(Held, c)]
      /\ clost' = [c \in Creds |-> clost[c] + CrefsOf(Held, c)]
      /\ UNCHANGED <<refs, crefs, found>>
  BY ConstantsAssumption DEF coda_nc_resize, FreshCache
<1>2. Slots' = 1..sz.heap /\ Buckets' = 0..(sz.hash - 1)
  BY <1>1 DEF Slots, Buckets
<1>3. \A s \in Slots' : ~Valid(s)'
  BY <1>1, <1>2 DEF Valid
<1>4. /\ LengthInv' /\ ChainInv' /\ LruInv'
      /\ lru' \in [Slots' -> Slots'] /\ length' \in [Buckets' -> Nat]
      /\ \A c : RefsOf(Held, c)' = 0 /\ CrefsOf(Held, c)' = 0
  <2>1. FreshTables'
    BY <1>1, <1>2, <1>3 DEF FreshTables
  <2>2. (FreshTables => FreshFacts)'
    BY Fresh, PTL
  <2> QED
    BY <2>1, <2>2 DEF FreshFacts
<1>5. IsFiniteSet(Held)
  BY <1>t, HeldType
<1>6. \A c : RefsOf(Held, c) \in Nat /\ CrefsOf(Held, c) \in Nat
  BY <1>5, RefsType
<1>7. lost' \in [Cnodes -> Nat] /\ clost' \in [Creds -> Nat]
  BY <1>1, <1>6, <1>t DEF TypeOK
<1>8. TypeOK'
  <2>1. heap' \in [Slots' -> Entry \cup {Null}] /\ chain' \in [Buckets' -> SUBSET Slots']
    BY <1>1, <1>2
  <2> QED
    BY <1>1, <1>4, <1>7, <1>t, <2>1 DEF TypeOK
<1>9. RefsBalance'
  <2>1. ASSUME NEW c \in Cnodes PROVE refs'[c] = RefsOf(Held, c)' + lost'[c]
    BY <1>1, <1>4, <1>6, <1>t DEF RefsBalance, TypeOK
  <2>2. ASSUME NEW c \in Creds PROVE crefs'[c] = CrefsOf(Held, c)' + clost'[c]
    BY <1>1, <1>4, <1>6, <1>t DEF RefsBalance, TypeOK
  <2> QED
    BY <2>1, <2>2 DEF RefsBalance
<1> QED
  BY <1>4, <1>8, <1>9 DEF Inv

LEMMA InvNext == Inv /\ [Next]_vars => Inv'
<1> SUFFICES ASSUME Inv, [Next]_vars PROVE Inv'
  OBVIOUS
<1>1. ASSUME NEW dcp \in Cnodes, NEW name \in Names \cup LongNames, NEW cred \in Creds,
             \/ coda_nc_lookup(dcp, name, cred)
             \/ \E cp \in Cnodes : coda_nc_enter(dcp, name, cred, cp)
      PROVE  Inv'
  BY <1>1, LooksUp, Enters
<1>2. ASSUME NEW sz \in Sizes, coda_nc_resize(sz) PROVE Inv'
  BY <1>2, Resizes
<1>3. CASE UNCHANGED vars
  <2>1. /\ UNCHANGED <<size, heap, lru, chain, length, refs, crefs, found, lost, clost>>
        /\ Slots' = Slots /\ Buckets' = Buckets /\ Orders' = Orders /\ Held' = Held
    BY <1>3 DEF vars, Slots, Buckets, Orders, Held, Valid
  <2>2. TypeOK' /\ LruInv'
    BY <2>1 DEF Inv, TypeOK, LruInv, Valid
  <2>3. LengthInv' /\ ChainInv' /\ RefsBalance'
    BY <2>1 DEF Inv, LengthInv, ChainInv, RefsBalance, RefsOf, CrefsOf, Bucket, Valid
  <2> QED
    BY <2>2, <2>3 DEF Inv
<1> QED
  BY <1>1, <1>2, <1>3, Zaps, Flushes DEF Next

\* Inv is an inductive invariant of the specification.
THEOREM NameCacheInv == Spec => []Inv
<1> QED
  BY InvInit, InvNext, PTL DEF Spec

\* The variables keep their types, the lengths of the chains and the references included,
\* whatever freshly allocated memory holds.
THEOREM NameCacheTypeOK == Spec => []TypeOK
<1>1. Inv => TypeOK
  BY DEF Inv
<1> QED
  BY <1>1, NameCacheInv, PTL

\* When memory is allocated zeroed: the valid entries are on their chains and in front on
\* the LRU list, no search finds two, and the lengths are those of the chains.
THEOREM NameCacheListsRight ==
  ASSUME Garbage = {0}
  PROVE  Spec => []ListsRight
<1>1. Inv => ListsRight
  BY DEF Inv, LengthInv, ChainInv, LruInv, ListsRight
<1> QED
  BY <1>1, NameCacheInv, PTL

\* The cache has one reference on a vnode for each entry that names it, and one on the
\* credentials of each entry; coda_nc_resize leaves behind exactly those of the
\* entries it throws away.
THEOREM NameCacheRefsBalance == Spec => []RefsBalance
<1>1. Inv => RefsBalance
  BY DEF Inv
<1> QED
  BY <1>1, NameCacheInv, PTL

-----------------------------------------------------------------------------
(* The refinement of the least-recently-used map.                          *)

\* The valid entries are in the first n places of the LRU list.
Foremost(n) ==
  /\ n \in Nat /\ n <= size.heap /\ Recent = 1..n
  /\ Entries \in Seq(Entry) /\ Len(Entries) = n /\ DOMAIN Entries = 1..n
  /\ \A i \in 1..n : /\ i \in Slots /\ lru[i] \in Held
                     /\ Entries[i] = heap[lru[i]] /\ Entries[i] \in Entry
  /\ \A i \in Slots : lru[i] \in Held => i <= n
  /\ \A s \in Held : \E i \in 1..n : lru[i] = s

InOrder == \E n \in Nat : Foremost(n)

LEMMA InFront == Inv => InOrder
<1> SUFFICES ASSUME Inv PROVE \E n \in Nat : Foremost(n)
  BY DEF InOrder
<1>t. TypeOK /\ LruInv /\ size \in Size /\ lru \in [Slots -> Slots]
  BY DEF Inv, TypeOK
<1>1. IsFiniteSet(Slots) /\ size.heap \in Nat
  BY <1>t, SlotsFinite
<1>2. Recent \subseteq Slots /\ \A i \in Recent : i \in Nat /\ i >= 1
  BY <1>1 DEF Recent, Slots
<1>3. IsFiniteSet(Recent)
  BY <1>1, <1>2, FS_Subset
<1>4. PICK n \in Nat : n = Cardinality(Recent)
  BY <1>3, FS_CardinalityType
<1>5. n <= size.heap
  <2>1. Cardinality(Slots) = size.heap
    BY <1>1, FS_Interval DEF Slots
  <2> QED
    BY <1>1, <1>2, <1>4, <2>1, FS_Subset
<1>6. ASSUME NEW k \in Recent PROVE k <= n
  <2>1. 1..k \subseteq Recent
    <3>1. ASSUME NEW i \in 1..k PROVE i \in Recent
      <4>1. i \in Slots
        BY <1>1, <1>2, <3>1 DEF Slots
      <4>2. CASE i = k
        BY <4>2
      <4>3. CASE i < k
        BY <1>2, <1>t, <4>1, <4>3 DEF LruInv, Recent
      <4> QED
        BY <1>2, <4>2, <4>3
    <3> QED
      BY <3>1
  <2>2. Cardinality(1..k) = k
    BY <1>2, FS_Interval
  <2> QED
    BY <1>3, <1>4, <2>1, <2>2, FS_Subset
<1>7. Recent = 1..n
  <2>1. Recent \subseteq 1..n
    BY <1>2, <1>6
  <2>2. IsFiniteSet(1..n) /\ Cardinality(1..n) = n
    BY FS_Interval
  <2> QED
    BY <1>4, <2>1, <2>2, FS_Subset
<1>8. \A i \in 1..n : i \in Slots /\ lru[i] \in Held
  BY <1>2, <1>7, <1>t DEF Recent, Held
<1>9. \A i \in 1..n : heap[lru[i]] \in Entry
  BY <1>8, <1>t, HeldType
<1>10. Entries = [i \in 1..n |-> heap[lru[i]]]
  BY <1>7 DEF Entries
<1>11. Entries \in [1..n -> Entry]
  BY <1>9, <1>10
<1>12. Entries \in Seq(Entry)
  BY <1>11, SeqDef
<1>13. Len(Entries) = n /\ DOMAIN Entries = 1..n
  BY <1>11, <1>12, LenProperties
<1>14. \A i \in Slots : lru[i] \in Held => i <= n
  BY <1>6 DEF Recent, Held
<1>15. \A s \in Held : \E i \in 1..n : lru[i] = s
  BY <1>7, <1>t DEF LruInv, Orders, Recent, Held
<1> QED
  BY <1>5, <1>7, <1>8, <1>9, <1>10, <1>12, <1>13, <1>14, <1>15 DEF Foremost

\* An entry before some of those there were.
LEMMA PutFirst ==
  ASSUME NEW S, NEW es \in Seq(S), NEW e \in S, NEW m \in Nat, m <= Len(es),
         NEW fs \in Seq(S), Len(fs) = m + 1, fs[1] = e, \A i \in 1..m : fs[i + 1] = es[i]
  PROVE  fs = <<e>> \o SubSeq(es, 1, m)
<1>1. Len(es) \in Nat /\ \A i \in 1..Len(es) : es[i] \in S
  BY LenProperties, ElementOfSeq
<1> DEFINE t == SubSeq(es, 1, m)
<1>2. t \in Seq(S) /\ Len(t) = m /\ \A i \in 1..m : t[i] = es[i]
  <2>1. \A i \in 1..m : es[i] \in S
    BY <1>1
  <2>2. /\ t \in Seq(S) /\ Len(t) = IF 1 <= m THEN m - 1 + 1 ELSE 0
        /\ \A i \in 1..(m - 1 + 1) : t[i] = es[1 + i - 1]
    BY <2>1, SubSeqProperties
  <2> QED
    BY <2>2
<1>3. <<e>> \in Seq(S) /\ Len(<<e>>) = 1 /\ <<e>>[1] = e
  OBVIOUS
<1> HIDE DEF t
<1>4. /\ <<e>> \o t \in Seq(S) /\ Len(<<e>> \o t) = m + 1
      /\ \A i \in 1..(m + 1) : (<<e>> \o t)[i] = IF i <= 1 THEN e ELSE t[i - 1]
  <2>1. PICK d \in Seq(S) : d = <<e>> /\ Len(d) = 1 /\ d[1] = e
    BY <1>3
  <2>2. /\ d \o t \in Seq(S) /\ Len(d \o t) = Len(d) + Len(t)
        /\ \A i \in 1..(Len(d) + Len(t)) : (d \o t)[i] = IF i <= Len(d) THEN d[i] ELSE t[i - Len(d)]
    BY <1>2, ConcatProperties
  <2>3. /\ d \o t \in Seq(S) /\ Len(d \o t) = m + 1
        /\ \A i \in 1..(m + 1) : (d \o t)[i] = IF i <= 1 THEN e ELSE t[i - 1]
    BY <1>2, <2>1, <2>2
  <2> QED
    BY <2>1, <2>3
<1>5. ASSUME NEW i \in 1..(m + 1) PROVE fs[i] = (<<e>> \o t)[i]
  <2>1. CASE i = 1
    <3>1. (<<e>> \o t)[i] = e
      BY <1>4, <2>1
    <3> QED
      BY <2>1, <3>1
  <2>2. CASE i # 1
    <3>1. i - 1 \in 1..m /\ (i - 1) + 1 = i /\ ~(i <= 1)
      BY <2>2
    <3>2. fs[i] = es[i - 1]
      BY <3>1
    <3> QED
      BY <1>2, <1>4, <3>1, <3>2
  <2> QED
    BY <2>1, <2>2
<1>6. fs = <<e>> \o t
  <2> DEFINE u == <<e>> \o t
  <2>1. u \in Seq(S) /\ Len(u) = Len(fs) /\ \A i \in 1..Len(fs) : fs[i] = u[i]
    BY <1>4, <1>5
  <2> HIDE DEF u
  <2>2. fs = u
    BY <2>1, SeqEqual
  <2> QED
    BY <2>2 DEF u
<1> QED
  BY <1>6 DEF t

\* Without one of its entries, a sequence is what was before it and what was behind.
LEMMA Without ==
  ASSUME NEW S, NEW es \in Seq(S), NEW k \in 1..Len(es)
  PROVE  /\ RemoveAt(es, k) \in Seq(S) /\ Len(RemoveAt(es, k)) = Len(es) - 1
         /\ \A i \in 1..(Len(es) - 1) :
              RemoveAt(es, k)[i] = IF i < k THEN es[i] ELSE es[i + 1]
<1> DEFINE n == Len(es)
           s == SubSeq(es, 1, k - 1)
           t == SubSeq(es, k + 1, n)
<1>1. n \in Nat /\ k \in Nat /\ k >= 1 /\ k <= n /\ \A i \in 1..n : es[i] \in S
  BY LenProperties, ElementOfSeq
<1> HIDE DEF n
<1>2. s \in Seq(S) /\ Len(s) = k - 1 /\ \A i \in 1..(k - 1) : s[i] = es[i]
  <2>1. 1 \in Int /\ k - 1 \in Int /\ \A i \in 1..(k - 1) : es[i] \in S
    BY <1>1
  <2>2. /\ s \in Seq(S) /\ Len(s) = IF 1 <= k - 1 THEN (k - 1) - 1 + 1 ELSE 0
        /\ \A i \in 1..((k - 1) - 1 + 1) : s[i] = es[1 + i - 1]
    BY <2>1, SubSeqProperties
  <2> HIDE DEF s
  <2> QED
    BY <1>1, <2>2
<1>3. t \in Seq(S) /\ Len(t) = n - k /\ \A i \in 1..(n - k) : t[i] = es[k + i]
  <2>1. k + 1 \in Int /\ n \in Int /\ \A i \in (k + 1)..n : es[i] \in S
    BY <1>1
  <2>2. /\ t \in Seq(S) /\ Len(t) = IF k + 1 <= n THEN n - (k + 1) + 1 ELSE 0
        /\ \A i \in 1..(n - (k + 1) + 1) : t[i] = es[(k + 1) + i - 1]
    BY <2>1, SubSeqProperties
  <2> HIDE DEF t
  <2>3. n - (k + 1) + 1 = n - k /\ \A i \in 1..(n - k) : (k + 1) + i - 1 = k + i
    BY <1>1
  <2> QED
    BY <1>1, <2>2, <2>3
<1>4. RemoveAt(es, k) = s \o t
  BY DEF RemoveAt, n
<1> HIDE DEF s, t
<1>5. /\ s \o t \in Seq(S) /\ Len(s \o t) = Len(s) + Len(t)
      /\ \A i \in 1..(Len(s) + Len(t)) : (s \o t)[i] = IF i <= Len(s) THEN s[i] ELSE t[i - Len(s)]
  BY <1>2, <1>3, ConcatProperties
<1>6. Len(s) + Len(t) = n - 1
  BY <1>1, <1>2, <1>3
<1>7. ASSUME NEW i \in 1..(n - 1) PROVE (s \o t)[i] = IF i < k THEN es[i] ELSE es[i + 1]
  <2>1. CASE i < k
    BY <1>1, <1>2, <1>5, <1>6, <2>1
  <2>2. CASE ~(i < k)
    <3>1. i - (k - 1) \in 1..(n - k) /\ k + (i - (k - 1)) = i + 1 /\ ~(i <= k - 1)
      BY <1>1, <2>2
    <3> QED
      BY <1>2, <1>3, <1>5, <1>6, <2>2, <3>1
  <2> QED
    BY <2>1, <2>2
<1> QED
  BY <1>4, <1>5, <1>6, <1>7 DEF n

\* An entry that goes to the front.
LEMMA ToFront ==
  ASSUME NEW S, NEW es \in Seq(S), NEW k \in 1..Len(es),
         NEW fs \in Seq(S), Len(fs) = Len(es),
         \A i \in 1..Len(es) : fs[i] = IF i = 1 THEN es[k] ELSE IF i <= k THEN es[i - 1] ELSE es[i]
  PROVE  fs = <<es[k]>> \o RemoveAt(es, k)
<1> DEFINE t == RemoveAt(es, k)
<1>1. Len(es) \in Nat /\ k \in Nat /\ k <= Len(es) /\ k >= 1 /\ es[k] \in S
  BY LenProperties, ElementOfSeq
<1>2. /\ t \in Seq(S) /\ Len(t) = Len(es) - 1
      /\ \A i \in 1..(Len(es) - 1) : t[i] = IF i < k THEN es[i] ELSE es[i + 1]
  BY Without
<1> HIDE DEF t
<1>3. PICK m \in Nat : m = Len(es) - 1
  <2>1. Len(es) - 1 \in Nat
    BY <1>1
  <2> QED
    BY <2>1
<1>4. Len(fs) = m + 1 /\ fs[1] = es[k] /\ m <= Len(t)
  BY <1>1, <1>2, <1>3
<1>5. ASSUME NEW i \in 1..m PROVE fs[i + 1] = t[i]
  <2>1. i + 1 \in 1..Len(es) /\ i + 1 # 1 /\ (i + 1) - 1 = i /\ i \in 1..(Len(es) - 1)
        /\ (i + 1 <= k <=> i < k)
    BY <1>1, <1>3
  <2> QED
    BY <1>2, <2>1
<1>6. fs = <<es[k]>> \o SubSeq(t, 1, m)
  BY <1>1, <1>2, <1>4, <1>5, PutFirst
<1>7. SubSeq(t, 1, m) = t
  BY <1>2, <1>3, SubSeqFull
<1> QED
  BY <1>6, <1>7 DEF t

-----------------------------------------------------------------------------
(* What the operations do to the entries.                                  *)

LEMMA LruForgets ==
  ASSUME Inv, Inv', NEW S, S \subseteq Held, Loses(S), lru' \in LruVictims(S) \/ S = Held,
         NEW gone, \A s \in Held : heap[s] \in gone <=> s \in S
  PROVE  Lru!AForget(gone)
<1>1. PICK n \in Nat : Foremost(n)
  BY InFront DEF InOrder
<1>2. PICK m \in Nat : Foremost(m)'
  <2>1. (Inv => InOrder)'
    BY InFront, PTL
  <2> QED
    BY <2>1 DEF InOrder
<1>3. /\ size' = size /\ found' = found /\ Slots' = Slots
      /\ \A s \in Slots : heap'[s] = IF s \in S THEN Null ELSE heap[s]
  BY DEF Loses, Slots
<1>4. Held' = Held \ S /\ Held \subseteq Slots
  BY <1>3 DEF Held, Valid
<1>5. lru \in Orders /\ lru \in [Slots -> Slots]
  BY DEF Inv, LruInv, Orders
<1>6. \A i \in 1..m : /\ lru'[i] \in Held' /\ Entries'[i] = heap'[lru'[i]]
                      /\ i \in Slots
  BY <1>2, <1>3 DEF Foremost
<1>7. \A i \in 1..m : \E j \in 1..n : lru[j] = lru'[i]
  BY <1>1, <1>4, <1>6 DEF Foremost
<1> DEFINE h == [i \in 1..m |-> CHOOSE j \in 1..n : lru[j] = lru'[i]]
<1>8. \A i \in 1..m : h[i] \in 1..n /\ lru[h[i]] = lru'[i]
  BY <1>7
<1>9. h \in [1..m -> 1..n]
  BY <1>8
<1> HIDE DEF h
<1>10. ASSUME NEW i \in 1..m, NEW j \in 1..m, i < j PROVE h[i] < h[j]
  <2>1. lru' \in LruVictims(S)
    BY <1>4, <1>6
  <2>2. PICK s \in Slots, t \in Slots : s = lru'[i] /\ t = lru'[j] /\ s \notin S /\ t \notin S
    BY <1>4, <1>6
  <2>3. Before(lru', s, t)
    BY <1>6, <1>10, <2>2 DEF Before
  <2>4. Before(lru, s, t)
    BY <2>1, <2>2, <2>3 DEF LruVictims
  <2>5. PICK a \in Slots, b \in Slots : a < b /\ lru[a] = s /\ lru[b] = t
    BY <2>4 DEF Before
  <2>6. h[i] \in Slots /\ h[j] \in Slots /\ lru[h[i]] = s /\ lru[h[j]] = t
    BY <1>1, <1>8, <2>2 DEF Foremost
  <2>7. a = h[i] /\ b = h[j]
    BY <1>5, <2>5, <2>6 DEF Orders
  <2> QED
    BY <2>5, <2>7
<1>11. ASSUME NEW k \in 1..n
       PROVE  Entries[k] \in gone <=> \A i \in 1..m : h[i] # k
  <2>1. PICK s \in Held : s = lru[k] /\ Entries[k] = heap[s] /\ k \in Slots
    BY <1>1 DEF Foremost
  <2>2. CASE s \in S
    <3>1. \A i \in 1..m : lru[h[i]] \notin S
      BY <1>4, <1>6, <1>8
    <3> QED
      BY <2>1, <2>2, <3>1
  <2>3. CASE s \notin S
    <3>1. s \in Held'
      BY <1>4, <2>3
    <3>2. PICK i \in 1..m : lru'[i] = s
      BY <1>2, <3>1 DEF Foremost
    <3>3. h[i] \in Slots /\ lru[h[i]] = lru[k]
      BY <1>1, <1>8, <2>1, <3>2 DEF Foremost
    <3>4. h[i] = k
      BY <1>5, <2>1, <3>3 DEF Orders
    <3> QED
      BY <2>1, <2>3, <3>4
  <2> QED
    BY <2>2, <2>3
<1>12. ASSUME NEW i \in 1..m PROVE Entries'[i] = Entries[h[i]]
  <2>1. PICK s \in Slots : s = lru'[i] /\ s \notin S /\ Entries'[i] = heap'[s]
    BY <1>4, <1>6
  <2>2. Entries[h[i]] = heap[s]
    BY <1>1, <1>8, <2>1 DEF Foremost
  <2> QED
    BY <1>3, <2>1, <2>2
<1>13. DOMAIN Entries = 1..n /\ DOMAIN Entries' = 1..m /\ Entries' \in Seq(Entry)
  BY <1>1, <1>2 DEF Foremost
<1> QED
  BY <1>3, <1>9, <1>10, <1>11, <1>12, <1>13 DEF Lru!AForget, Lru!Entry, Entry

LEMMA LruRemoves ==
  ASSUME Inv, Inv', NEW S, S \subseteq Held, NcRemove(S),
         NEW gone, \A s \in Held : heap[s] \in gone <=> s \in S
  PROVE  Lru!AForget(gone)
<1>1. Loses(S) /\ lru' \in LruVictims(S)
  BY DEF NcRemove, Loses
<1> QED
  BY <1>1, LruForgets

LEMMA LruZaps ==
  ASSUME Inv, Inv',
         \/ \E c \in Cnodes : coda_nc_zapParentfid(FidOf[c]) \/ coda_nc_zapfid(FidOf[c])
         \/ \E c \in Creds : coda_nc_purge_user(UidOf[c])
         \/ \E dcp \in Cnodes, name \in Names \cup LongNames : coda_nc_zapfile(dcp, name)
  PROVE  Lru!ANext
<1>t. /\ TypeOK /\ ChainInv /\ Lru!Entry = Entry
      /\ \A s \in Held : s \in Slots /\ heap[s] \in Entry
      /\ \A s \in Held : heap[s].dcp \in Cnodes /\ heap[s].name \in Names
  BY HeldType DEF Inv, Lru!Entry, Entry
<1>1. OnChains = Held
  <2>1. ASSUME NEW s \in Held PROVE s \in OnChains
    <3>1. PICK b \in Buckets : b = Bucket(heap[s].name, heap[s].dcp)
      BY <1>t, BucketType DEF TypeOK
    <3>2. s \in chain[b]
      BY <1>t, <3>1 DEF ChainInv, Held
    <3> QED
      BY <3>2 DEF OnChains
  <2> QED
    BY <2>1, ChainsHeld
<1>2. ASSUME NEW c \in Cnodes, coda_nc_zapParentfid(FidOf[c])
      PROVE  Lru!ANext
  <2> DEFINE S == {s \in Held : FidOf[heap[s].dcp] = FidOf[c]}
             gone == {e \in Entry : FidOf[e.dcp] = FidOf[c]}
  <2>1. S \subseteq Held /\ NcRemove(S) /\ \A s \in Held : heap[s] \in gone <=> s \in S
    BY <1>1, <1>2, <1>t DEF coda_nc_zapParentfid
  <2> HIDE DEF S, gone
  <2>2. Lru!AForget(gone)
    BY <2>1, LruRemoves
  <2> QED
    BY <1>t, <2>2 DEF gone, Lru!ANext
<1>3. ASSUME NEW c \in Cnodes, coda_nc_zapfid(FidOf[c])
      PROVE  Lru!ANext
  <2> DEFINE S == {s \in Held : FidOf[heap[s].cp] = FidOf[c]}
             gone == {e \in Entry : FidOf[e.cp] = FidOf[c]}
  <2>1. S \subseteq Held /\ NcRemove(S) /\ \A s \in Held : heap[s] \in gone <=> s \in S
    BY <1>1, <1>3, <1>t DEF coda_nc_zapfid
  <2> HIDE DEF S, gone
  <2>2. Lru!AForget(gone)
    BY <2>1, LruRemoves
  <2> QED
    BY <1>t, <2>2 DEF gone, Lru!ANext
<1>4. ASSUME NEW c \in Creds, coda_nc_purge_user(UidOf[c])
      PROVE  Lru!ANext
  <2> DEFINE S == {s \in Held : UidOf[heap[s].cred] = UidOf[c]}
             gone == {e \in Entry : UidOf[e.cred] = UidOf[c]}
  <2>1. S \subseteq Held /\ NcRemove(S) /\ \A s \in Held : heap[s] \in gone <=> s \in S
    BY <1>4, <1>t DEF coda_nc_purge_user
  <2> HIDE DEF S, gone
  <2>2. Lru!AForget(gone)
    BY <2>1, LruRemoves
  <2> QED
    BY <1>t, <2>2 DEF gone, Lru!ANext
<1>5. ASSUME NEW dcp \in Cnodes, NEW name \in Names \cup LongNames, coda_nc_zapfile(dcp, name)
      PROVE  Lru!ANext
  <2> DEFINE S == {s \in Held : heap[s].dcp = dcp /\ heap[s].name = name}
             gone == {e \in Entry : e.dcp = dcp /\ e.name = name}
  <2>0. PICK b \in Buckets : b = Bucket(name, dcp)
    BY <1>t, BucketType DEF TypeOK
  <2>1. FindAll(dcp, name) = S
    <3>1. \A s \in chain[b] : s \in Held
      BY ChainsHeld
    <3>2. \A s \in S : s \in chain[b]
      BY <1>t, <2>0 DEF ChainInv, Held
    <3> QED
      BY <2>0, <3>1, <3>2 DEF FindAll
  <2>2. name \in Names /\ NcRemove(S)
    BY <1>5, <2>1 DEF coda_nc_zapfile
  <2>3. S \subseteq Held /\ \A s \in Held : heap[s] \in gone <=> s \in S
    BY <1>t
  <2> HIDE DEF S, gone
  <2>4. Lru!AForget(gone)
    BY <2>2, <2>3, LruRemoves
  <2> QED
    BY <1>t, <2>2, <2>4 DEF gone, Lru!ANext
<1> QED
  BY <1>2, <1>3, <1>4, <1>5

LEMMA LruFlushes ==
  ASSUME Inv, Inv', coda_nc_flush
  PROVE  Lru!AForget(Lru!Entry)
<1>1. Loses(Held)
  <2>1. heap' = [s \in Slots |-> IF s \in Held THEN Null ELSE heap[s]]
    BY DEF coda_nc_flush, Held, Valid
  <2> QED
    BY <2>1 DEF coda_nc_flush, Loses
<1>2. \A s \in Held : heap[s] \in Lru!Entry <=> s \in Held
  BY HeldType DEF Inv, Lru!Entry, Entry
<1> QED
  BY <1>1, <1>2, LruForgets

\* What the search for a name finds, and what the map has under it.
LEMMA LruFinds ==
  ASSUME Inv, NEW n \in Nat, Foremost(n),
         NEW dcp \in Cnodes, NEW name \in Names \cup LongNames, NEW cred \in Creds
  PROVE  /\ name \in LongNames \/ Find(dcp, name, cred) = {} <=> ~Lru!Known(dcp, name, cred)
         /\ \A s \in Find(dcp, name, cred) :
              \E k \in 1..n : /\ lru[k] = s /\ k \in Slots /\ s \in Held
                             /\ Entries[k] = heap[s]
                             /\ Lru!Matches(Entries[k], dcp, name, cred)
<1>t. /\ TypeOK /\ ChainInv
      /\ \A s \in Held : s \in Slots /\ heap[s] \in Entry /\ heap[s].name \in Names
  BY HeldType DEF Inv
<1>0. PICK b \in Buckets : b = Bucket(name, dcp)
  BY <1>t, BucketType DEF TypeOK
<1>1. ASSUME NEW s \in Find(dcp, name, cred)
      PROVE  \E k \in 1..n : /\ lru[k] = s /\ k \in Slots /\ s \in Held
                             /\ Entries[k] = heap[s]
                             /\ Lru!Matches(Entries[k], dcp, name, cred)
  <2>1. s \in Held /\ heap[s].dcp = dcp /\ heap[s].name = name /\ heap[s].cred = cred
    BY <1>0, ChainsHeld DEF Find
  <2>2. PICK k \in 1..n : lru[k] = s /\ k \in Slots /\ Entries[k] = heap[s]
    BY <2>1 DEF Foremost
  <2> QED
    BY <2>1, <2>2 DEF Lru!Matches
<1>2. DOMAIN Entries = 1..n
  BY DEF Foremost
<1>3. ASSUME name \notin LongNames, NEW s \in Find(dcp, name, cred) PROVE Lru!Known(dcp, name, cred)
  BY <1>1, <1>2, <1>3 DEF Lru!Known
<1>4. ASSUME NEW k \in 1..n, Lru!Matches(Entries[k], dcp, name, cred)
      PROVE  name \notin LongNames /\ Find(dcp, name, cred) # {}
  <2>1. PICK s \in Held : s = lru[k] /\ Entries[k] = heap[s]
    BY DEF Foremost
  <2>2. heap[s].dcp = dcp /\ heap[s].name = name /\ heap[s].cred = cred
    BY <1>4, <2>1 DEF Lru!Matches
  <2>3. s \in chain[b]
    BY <1>0, <1>t, <2>1, <2>2 DEF ChainInv, Held
  <2>4. name \in Names
    BY <1>t, <2>2
  <2> QED
    BY <1>0, <2>2, <2>3, <2>4, ConstantsAssumption DEF Find
<1> QED
  BY <1>1, <1>2, <1>3, <1>4 DEF Lru!Known

\* As many places have valid entries as there are.
LEMMA LruLength ==
  ASSUME NEW m \in Nat, Foremost(m)', NEW q \in Nat, size.heap \in Nat, size' = size, q <= size.heap,
         \A i \in Slots : lru'[i] \in Held' <=> i <= q
  PROVE  m = q
<1>1. Slots' = Slots /\ Slots = 1..size.heap
  BY DEF Slots
<1>2. \A i \in 1..m : i \in Slots /\ lru'[i] \in Held'
  BY <1>1 DEF Foremost
<1>3. \A i \in Slots : lru'[i] \in Held' => i <= m
  BY <1>1 DEF Foremost
<1>4. CASE q < m
  <2>1. q + 1 \in 1..m /\ ~(q + 1 <= q)
    BY <1>4
  <2> QED
    BY <1>2, <2>1
<1>5. CASE m < q
  <2>1. q \in Slots /\ ~(q <= m)
    BY <1>1, <1>5
  <2> QED
    BY <1>3, <2>1
<1> QED
  BY <1>4, <1>5

LEMMA LruLooksUp ==
  ASSUME Inv, Inv', NEW dcp \in Cnodes, NEW name \in Names \cup LongNames, NEW cred \in Creds,
         coda_nc_lookup(dcp, name, cred)
  PROVE  Lru!ALookup(dcp, name, cred)
<1>1. PICK n \in Nat : Foremost(n)
  BY InFront DEF InOrder
<1>2. PICK m \in Nat : Foremost(m)'
  <2>1. (Inv => InOrder)'
    BY InFront, PTL
  <2> QED
    BY <2>1 DEF InOrder
<1>3. PICK cp \in Cnodes \cup {NoCnode} :
        /\ found' = [dcp |-> dcp, name |-> name, cred |-> cred, cp |-> cp]
        /\ \/ (name \in LongNames \/ Find(dcp, name, cred) = {}) /\ cp = NoCnode /\ lru' = lru
           \/ \E s \in Find(dcp, name, cred) : cp = heap[s].cp /\ lru' = LruNewest(s)
  BY DEF coda_nc_lookup
<1>4. /\ size' = size /\ heap' = heap /\ Slots' = Slots /\ Held' = Held
      /\ size \in Size /\ size.heap \in Nat
  BY SlotsFinite DEF coda_nc_lookup, Slots, Held, Valid, Inv, TypeOK
<1>5. Lru!Matches(found', dcp, name, cred) /\ found'.cp = cp
  BY <1>3 DEF Lru!Matches
<1>6. CASE (name \in LongNames \/ Find(dcp, name, cred) = {}) /\ cp = NoCnode /\ lru' = lru
  <2>1. ~Lru!Known(dcp, name, cred)
    BY <1>1, <1>6, LruFinds
  <2>2. Entries' = Entries
    BY <1>4, <1>6 DEF Entries, Recent, Valid
  <2> QED
    BY <1>4, <1>5, <1>6, <2>1, <2>2 DEF Lru!ALookup
<1>7. ASSUME NEW s \in Find(dcp, name, cred), cp = heap[s].cp, lru' = LruNewest(s)
      PROVE  Lru!ALookup(dcp, name, cred)
  <2>1. PICK k \in 1..n : /\ lru[k] = s /\ k \in Slots /\ s \in Held
                          /\ Entries[k] = heap[s]
                          /\ Lru!Matches(Entries[k], dcp, name, cred)
    BY <1>1, LruFinds
  <2>2. \A i \in Slots : lru'[i] = IF i = 1 THEN s ELSE IF i <= k THEN lru[i - 1] ELSE lru[i]
    <3>1. lru \in Orders
      BY DEF Inv, LruInv
    <3> QED
      BY <1>4, <1>7, <2>1, <3>1, Newest
  <2>3. \A i \in 1..n : i \in Slots /\ lru[i] \in Held /\ Entries[i] = heap[lru[i]] /\ Entries[i] \in Entry
    BY <1>1 DEF Foremost
  <2>4. \A i \in Slots : i \in Nat /\ i >= 1 /\ (lru[i] \in Held => i <= n)
    BY <1>1 DEF Foremost, Slots
  <2>5. ASSUME NEW i \in 1..n
        PROVE  /\ lru'[i] \in Held
               /\ heap[lru'[i]] = IF i = 1 THEN Entries[k] ELSE IF i <= k THEN Entries[i - 1] ELSE Entries[i]
    <3>1. CASE i = 1
      BY <2>1, <2>2, <2>3, <3>1
    <3>2. CASE i # 1 /\ i <= k
      <4>1. i - 1 \in 1..n
        BY <3>2
      <4> QED
        BY <2>2, <2>3, <3>2, <4>1
    <3>3. CASE i # 1 /\ ~(i <= k)
      BY <2>2, <2>3, <3>3
    <3> QED
      BY <3>1, <3>2, <3>3
  <2>6. ASSUME NEW i \in Slots PROVE lru'[i] \in Held' <=> i <= n
    <3>1. CASE i <= n
      <4>1. i \in 1..n
        BY <2>4, <3>1
      <4> QED
        BY <1>4, <2>5, <3>1, <4>1
    <3>2. CASE ~(i <= n)
      <4>1. i # 1 /\ ~(i <= k)
        BY <2>4, <3>2
      <4>2. lru'[i] = lru[i]
        BY <2>2, <4>1
      <4> QED
        BY <1>4, <2>4, <3>2, <4>2
    <3> QED
      BY <3>1, <3>2
  <2>7. m = n
    <3>1. n <= size.heap
      BY <1>1 DEF Foremost
    <3> QED
      BY <1>2, <1>4, <2>6, <3>1, LruLength
  <2>8. /\ Entries \in Seq(Entry) /\ Len(Entries) = n /\ DOMAIN Entries = 1..n
        /\ Entries' \in Seq(Entry) /\ Len(Entries') = n
        /\ \A i \in 1..n : Entries'[i] = heap[lru'[i]]
    BY <1>1, <1>2, <1>4, <2>7 DEF Foremost
  <2>9. Entries' = <<Entries[k]>> \o RemoveAt(Entries, k)
    <3>1. PICK es \in Seq(Entry), fs \in Seq(Entry) : es = Entries /\ fs = Entries'
      BY <2>8
    <3>2. /\ k \in 1..Len(es) /\ Len(fs) = Len(es)
          /\ \A i \in 1..Len(es) :
               fs[i] = IF i = 1 THEN es[k] ELSE IF i <= k THEN es[i - 1] ELSE es[i]
      BY <2>5, <2>8, <3>1
    <3>3. fs = <<es[k]>> \o RemoveAt(es, k)
      BY <3>2, ToFront
    <3> QED
      BY <3>1, <3>3
  <2>10. found' = Entries[k]
    <3>1. heap[s] \in Entry /\ heap[s].dcp = dcp /\ heap[s].name = name /\ heap[s].cred = cred
      BY <2>1, <2>3 DEF Lru!Matches
    <3>2. heap[s] = [dcp |-> dcp, name |-> name, cred |-> cred, cp |-> cp]
      BY <1>7, <3>1 DEF Entry
    <3> QED
      BY <1>3, <2>1, <3>2
  <2>11. k \in DOMAIN Entries /\ Lru!RemoveAt(Entries, k) = RemoveAt(Entries, k)
    BY <2>8 DEF RemoveAt, Lru!RemoveAt
  <2> QED
    BY <1>4, <1>5, <2>1, <2>9, <2>10, <2>11 DEF Lru!ALookup
<1> QED
  BY <1>3, <1>6, <1>7

LEMMA LruEnters ==
  ASSUME Inv, Inv', NEW dcp \in Cnodes, NEW name \in Names \cup LongNames, NEW cred \in Creds,
         NEW cp \in Cnodes, coda_nc_enter(dcp, name, cred, cp)
  PROVE  \E e \in Lru!Entry : Lru!AEnter(e)
<1>1. PICK n \in Nat : Foremost(n)
  BY InFront DEF InOrder
<1>2. PICK m \in Nat : Foremost(m)'
  <2>1. (Inv => InOrder)'
    BY InFront, PTL
  <2> QED
    BY <2>1 DEF InOrder
<1> DEFINE e == [dcp |-> dcp, name |-> name, cred |-> cred, cp |-> cp]
<1>3. e \in Entry /\ e \in Lru!Entry /\ e # Null
  BY ConstantsAssumption DEF coda_nc_enter, Entry, Lru!Entry, Null
<1>4. ~Lru!Known(e.dcp, e.name, e.cred)
  <2>1. Find(dcp, name, cred) = {}
    BY DEF coda_nc_enter
  <2> QED
    BY <1>1, <2>1, LruFinds
<1>5. PICK H \in Nat : H = size.heap /\ H \in Slots /\ H >= 1
  BY SlotsFinite DEF Inv, TypeOK, Slots
<1>6. lru \in Orders /\ lru \in [Slots -> Slots] /\ size \in Size /\ heap \in [Slots -> Entry \cup {Null}]
  BY DEF Inv, LruInv, Orders, TypeOK
<1>7. PICK v \in Slots : v = lru[H] /\ v = Victim
  BY <1>5, <1>6 DEF Victim
<1>8. /\ size' = size /\ found' = found /\ Slots' = Slots
      /\ lru' = LruNewest(v) /\ heap' = [heap EXCEPT ![v] = e]
  BY <1>7 DEF coda_nc_enter, Slots
<1> HIDE DEF e
<1>9. \A i \in Slots : lru'[i] = IF i = 1 THEN v ELSE IF i <= H THEN lru[i - 1] ELSE lru[i]
  <2>1. \A i \in Slots : LruNewest(lru[H])[i] =
          IF i = 1 THEN lru[H] ELSE IF i <= H THEN lru[i - 1] ELSE lru[i]
    BY <1>5, <1>6, Newest
  <2> QED
    BY <1>7, <1>8, <2>1
<1>10. \A i \in Slots : i \in Nat /\ i >= 1 /\ i <= H /\ (lru[i] \in Held => i <= n)
  BY <1>1, <1>5 DEF Foremost, Slots
<1>11. \A i \in 1..n : i \in Slots /\ lru[i] \in Held /\ Entries[i] = heap[lru[i]]
  BY <1>1 DEF Foremost
<1>12. heap'[v] = e /\ v \in Held'
  BY <1>3, <1>6, <1>8 DEF Held, Valid
<1>13. \A s \in Slots : s # v => heap'[s] = heap[s] /\ (s \in Held' <=> s \in Held)
  BY <1>6, <1>8 DEF Held, Valid
<1> DEFINE q == IF n < H THEN n ELSE H - 1
<1>14. q \in Nat /\ q <= n /\ q + 1 <= H /\ n <= H
  <2>1. n <= H
    BY <1>1, <1>5 DEF Foremost
  <2> QED
    BY <1>5, <2>1
<1>15. ASSUME NEW i \in Slots, i # 1
       PROVE  /\ i - 1 \in Slots /\ lru'[i] = lru[i - 1] /\ heap'[lru'[i]] = heap[lru[i - 1]]
              /\ lru'[i] \in Held' <=> i - 1 <= q
  <2>1. i - 1 \in Slots /\ i - 1 # H /\ lru'[i] = lru[i - 1] /\ i - 1 < H
    BY <1>5, <1>9, <1>10, <1>15 DEF Slots
  <2>2. lru[i - 1] # v /\ lru[i - 1] \in Slots
    BY <1>5, <1>6, <1>7, <2>1 DEF Orders
  <2>3. heap'[lru'[i]] = heap[lru[i - 1]] /\ (lru'[i] \in Held' <=> lru[i - 1] \in Held)
    BY <1>13, <2>1, <2>2
  <2>4. lru[i - 1] \in Held <=> i - 1 <= n
    <3>1. CASE i - 1 <= n
      <4>1. i - 1 \in 1..n
        BY <1>10, <2>1, <3>1
      <4> QED
        BY <1>11, <3>1, <4>1
    <3>2. CASE ~(i - 1 <= n)
      BY <1>10, <2>1, <3>2
    <3> QED
      BY <3>1, <3>2
  <2>5. i - 1 <= n <=> i - 1 <= q
    BY <1>10, <1>14, <2>1
  <2> QED
    BY <2>1, <2>3, <2>4, <2>5
<1> HIDE DEF q
<1>16. ASSUME NEW i \in Slots PROVE lru'[i] \in Held' <=> i <= q + 1
  <2>1. CASE i = 1
    BY <1>9, <1>12, <1>14, <2>1
  <2>2. CASE i # 1
    <3>1. i - 1 <= q <=> i <= q + 1
      BY <1>10, <1>14
    <3> QED
      BY <1>15, <2>2, <3>1
  <2> QED
    BY <2>1, <2>2
<1>17. m = q + 1
  BY <1>2, <1>5, <1>8, <1>14, <1>16, LruLength
<1>18. /\ Entries \in Seq(Entry) /\ Len(Entries) = n
       /\ Entries' \in Seq(Entry) /\ Len(Entries') = q + 1
       /\ \A i \in 1..(q + 1) : i \in Slots /\ Entries'[i] = heap'[lru'[i]]
  BY <1>1, <1>2, <1>8, <1>17 DEF Foremost
<1>19. Entries'[1] = e
  <2>1. 1 \in 1..(q + 1) /\ 1 \in Slots
    BY <1>14, <1>18
  <2>2. lru'[1] = v
    BY <1>9, <2>1
  <2> QED
    BY <1>12, <1>18, <2>1, <2>2
<1>20. ASSUME NEW i \in 1..q PROVE Entries'[i + 1] = Entries[i]
  <2>1. i + 1 \in 1..(q + 1) /\ i + 1 # 1 /\ (i + 1) - 1 = i /\ i \in 1..n
    BY <1>14
  <2>2. i + 1 \in Slots /\ Entries'[i + 1] = heap'[lru'[i + 1]]
    BY <1>18, <2>1
  <2>3. heap'[lru'[i + 1]] = heap[lru[i]]
    BY <1>15, <2>1, <2>2
  <2> QED
    BY <1>11, <2>1, <2>2, <2>3
<1>21. Entries' = <<e>> \o SubSeq(Entries, 1, q)
  <2>1. PICK es \in Seq(Entry), fs \in Seq(Entry) : es = Entries /\ fs = Entries'
    BY <1>18
  <2>2. /\ q <= Len(es) /\ Len(fs) = q + 1 /\ fs[1] = e
        /\ \A i \in 1..q : fs[i + 1] = es[i]
    BY <1>14, <1>18, <1>19, <1>20, <2>1
  <2>3. fs = <<e>> \o SubSeq(es, 1, q)
    BY <1>3, <1>14, <2>2, PutFirst
  <2> QED
    BY <2>1, <2>3
<1>22. q = IF Len(Entries) < size.heap THEN Len(Entries) ELSE size.heap - 1
  BY <1>5, <1>18 DEF q
<1>23. Lru!AEnter(e)
  BY <1>4, <1>8, <1>21, <1>22 DEF Lru!AEnter
<1> QED
  BY <1>3, <1>23

LEMMA LruEmpty == Inv /\ Held = {} => Entries = <<>>
<1> SUFFICES ASSUME Inv, Held = {} PROVE Entries = <<>>
  OBVIOUS
<1>1. PICK n \in Nat : Foremost(n)
  BY InFront DEF InOrder
<1>2. Entries \in Seq(Entry) /\ Len(Entries) = n /\ \A i \in 1..n : lru[i] \in Held
  BY <1>1 DEF Foremost
<1>3. n = 0
  <2>1. n # 0 => 1 \in 1..n
    OBVIOUS
  <2> QED
    BY <1>2, <2>1
<1> QED
  BY <1>2, <1>3, EmptySeq

LEMMA LruResizes ==
  ASSUME Inv, Inv', NEW sz \in Sizes, coda_nc_resize(sz)
  PROVE  Lru!AResize
<1>1. size' = sz /\ sz \in Size /\ found' = found /\ heap' = [s \in 1..sz.heap |-> Null]
  BY ConstantsAssumption DEF coda_nc_resize, FreshCache
<1>2. Held' = {}
  BY <1>1 DEF Held, Slots, Valid
<1>3. (Inv /\ Held = {} => Entries = <<>>)'
  BY LruEmpty, PTL
<1> QED
  BY <1>1, <1>2, <1>3 DEF Lru!AResize, Size

LEMMA LruInit == Init => Lru!AInit
<1> SUFFICES ASSUME Init PROVE Lru!AInit
  OBVIOUS
<1>1. Inv
  BY InvInit
<1>2. Held = {}
  BY DEF Init, Held, Valid
<1>3. size.heap \in Nat \ {0}
  BY <1>1 DEF Inv, TypeOK, Size
<1> QED
  BY <1>1, <1>2, <1>3, LruEmpty DEF Init, Lru!AInit

LEMMA LruNext == Inv /\ Inv' /\ [Next]_vars => [Lru!ANext]_<<Entries, size.heap, found>>
<1> SUFFICES ASSUME Inv, Inv', [Next]_vars
             PROVE  Lru!ANext \/ UNCHANGED <<Entries, size.heap, found>>
  OBVIOUS
<1>1. ASSUME NEW dcp \in Cnodes, NEW name \in Names \cup LongNames, NEW cred \in Creds,
             coda_nc_lookup(dcp, name, cred)
      PROVE  Lru!ANext
  BY <1>1, LruLooksUp DEF Lru!ANext
<1>2. ASSUME NEW dcp \in Cnodes, NEW name \in Names \cup LongNames, NEW cred \in Creds,
             NEW cp \in Cnodes, coda_nc_enter(dcp, name, cred, cp)
      PROVE  Lru!ANext
  BY <1>2, LruEnters DEF Lru!ANext
<1>3. CASE coda_nc_flush
  BY <1>3, LruFlushes DEF Lru!ANext
<1>4. ASSUME NEW sz \in Sizes, coda_nc_resize(sz) PROVE Lru!ANext
  BY <1>4, LruResizes DEF Lru!ANext
<1>5. CASE UNCHANGED vars
  BY <1>5 DEF vars, Entries, Recent, Slots, Valid
<1> QED
  BY <1>1, <1>2, <1>3, <1>4, <1>5, LruZaps DEF Next

\* Every operation of the cache, and every stutter, is one of CodaLru on the valid
\* entries in the order of the LRU list.
THEOREM NameCacheImplementsLru == Spec => ImplementsLru
<1> QED
  BY LruInit, LruNext, NameCacheInv, PTL DEF Spec, ImplementsLru, Lru!ASpec, Lru!avars
=============================================================================
