--------------------------- MODULE CodaNameCache ---------------------------
(***************************************************************************)
(* The name cache (coda_namecache.c): which cnode a user finds under a     *)
(* name in a directory.  The entries are allocated once, are all on one    *)
(* LRU list, and the valid ones are on a hash chain.  A valid entry holds  *)
(* a reference on the vnode of the directory, on that of the file and on   *)
(* the credentials.                                                        *)
(*                                                                         *)
(* No operation sleeps: the only upcall a vrele could make, coda_fsync's,  *)
(* is switched off in the source, so each operation is one step.  A chain  *)
(* is a set (its order decides how long a search takes, not what it        *)
(* finds), the LRU list a function from places to entries: the last one    *)
(* has the next victim.                                                    *)
(***************************************************************************)
EXTENDS Integers, Sequences, FiniteSets

CONSTANTS
  Cnodes,     \* addresses of cnodes
  FidOf,      \* cp->c_fid; two cnodes may have the same one (coda_find)
  Names,      \* names of at most CODA_NC_NAMELEN characters
  LongNames,  \* longer ones, which are not cached
  Creds,      \* credentials, compared by address
  UidOf,      \* cr_uid
  NoCnode,    \* the null pointer
  HashOf,     \* the sum CODA_NC_HASH takes of a name and a directory
  StartSize,  \* coda_nc_hashsize and coda_nc_size when the kernel starts
  Sizes,      \* sizes CODARESIZE is called with
  Garbage,    \* what memory that was just allocated may hold
  MaxLost     \* bound on the references CODARESIZE leaves on a vnode

\* coda_nc_resize takes 0 as well, which leaves no bucket or no entry to use.
Size == [hash : Nat \ {0}, heap : Nat \ {0}]

ASSUME ConstantsAssumption ==
  /\ FidOf \in [Cnodes -> Cnodes] /\ UidOf \in [Creds -> Nat]
  /\ HashOf \in [(Names \cup LongNames) \X Cnodes -> Nat]
  /\ NoCnode \notin Cnodes /\ Names \cap LongNames = {}
  /\ StartSize \in Size /\ Sizes \subseteq Size
  /\ 0 \in Garbage /\ Garbage \subseteq Nat /\ MaxLost \in Nat

VARIABLES
  size,     \* coda_nc_hashsize and coda_nc_size
  heap,     \* coda_nc_heap: an entry with no directory is not valid
  lru,      \* coda_nc_lru from lru_next (newest) to lru_prev (victim)
  chain,    \* coda_nc_hash: the entries on the chain of each bucket
  length,   \* coda_nc_hash[].length, "used for tuning purposes"
  refs,     \* v_usecount, without the references of others
  crefs,    \* references of the cache on credentials
  found,    \* history: what the last coda_nc_lookup returned
  lost,     \* history: the references on vnodes coda_nc_resize has thrown away
  clost     \* the same for those on credentials

vars == <<size, heap, lru, chain, length, refs, crefs, found, lost, clost>>

Entry == [dcp : Cnodes, name : Names, cred : Creds, cp : Cnodes]
Null == [dcp |-> NoCnode]

Answer == [dcp : Cnodes, name : Names \cup LongNames, cred : Creds,
           cp : Cnodes \cup {NoCnode}] \cup {Null}

Slots == 1..size.heap
Buckets == 0..(size.hash - 1)

\* The mask of CODA_NC_HASH: size.hash is a power of two.
Bucket(name, dcp) == HashOf[<<name, dcp>>] % size.hash

Valid(s) == heap[s] # Null
Held == {s \in Slots : Valid(s)}

\* Every slot once.
Orders ==
  {l \in [Slots -> Slots] :
     /\ \A s \in Slots : \E i \in Slots : l[i] = s
     /\ \A i, j \in Slots : l[i] = l[j] => i = j}

TypeOK ==
  /\ size \in Size
  /\ heap \in [Slots -> Entry \cup {Null}]
  /\ lru \in [Slots -> Slots]
  /\ chain \in [Buckets -> SUBSET Slots]
  /\ length \in [Buckets -> Nat]
  /\ refs \in [Cnodes -> Nat]
  /\ crefs \in [Creds -> Nat]
  /\ found \in Answer
  /\ lost \in [Cnodes -> Nat] /\ clost \in [Creds -> Nat]

-----------------------------------------------------------------------------
(* coda_nc_init, with the sizes in force.                                  *)

\* The entries are inserted at the head one after the other.  The lengths of
\* the chains are left as the memory allocator left them.
FreshCache(sz) ==
  /\ size' = sz
  /\ heap' = [s \in 1..sz.heap |-> Null]
  /\ lru' = [i \in 1..sz.heap |-> sz.heap + 1 - i]
  /\ chain' = [b \in 0..(sz.hash - 1) |-> {}]
  /\ length' \in [0..(sz.hash - 1) -> Garbage]

Init ==
  /\ size = StartSize
  /\ heap = [s \in Slots |-> Null]
  /\ lru = [i \in Slots |-> size.heap + 1 - i]
  /\ chain = [b \in Buckets |-> {}]
  /\ length \in [Buckets -> Garbage]
  /\ refs = [c \in Cnodes |-> 0]
  /\ crefs = [c \in Creds |-> 0]
  /\ found = Null
  /\ lost = [c \in Cnodes |-> 0] /\ clost = [c \in Creds |-> 0]

-----------------------------------------------------------------------------
(* The lists and the references.                                           *)

\* CODA_NC_LRUGET
Victim == lru[size.heap]

\* s goes to the head.
LruNewest(s) ==
  LET k == CHOOSE i \in Slots : lru[i] = s IN
  [i \in Slots |-> IF i = 1 THEN s ELSE IF i <= k THEN lru[i - 1] ELSE lru[i]]

Before(l, s, t) == \E i, j \in Slots : i < j /\ l[i] = s /\ l[j] = t

\* Removed entries are put behind all the others, which keep their order: they are
\* the next victims.
LruVictims(S) ==
  {l \in Orders : \A s \in Slots \ S, t \in Slots :
                    Before(l, s, t) <=> t \in S \/ Before(lru, s, t)}

\* The references a set of entries holds on a vnode.
RefsOf(S, c) == Cardinality({s \in S : heap[s].dcp = c})
                + Cardinality({s \in S : heap[s].cp = c})
CrefsOf(S, c) == Cardinality({s \in S : heap[s].cred = c})

\* The references a new entry takes.
RefsOfNew(dcp, cp, c) == (IF c = dcp THEN 1 ELSE 0) + (IF c = cp THEN 1 ELSE 0)

\* Each entry that goes shortens the chain it was on; b is where the one that
\* takes its place goes.
Shortened(S, b) == [a \in Buckets |-> length[a] - Cardinality(chain[a] \cap S)]

\* coda_nc_find; cred = 0 is any
Find_AnyCred(dcp, name, cred) ==
  {s \in chain[Bucket(name, dcp)] : heap[s].dcp = dcp /\ heap[s].name = name}
Find(dcp, name, cred) ==
  {s \in chain[Bucket(name, dcp)] :
     heap[s].dcp = dcp /\ heap[s].name = name /\ heap[s].cred = cred}

FindAll(dcp, name) ==
  {s \in chain[Bucket(name, dcp)] : heap[s].dcp = dcp /\ heap[s].name = name}

OnChains == UNION {chain[b] : b \in Buckets}

-----------------------------------------------------------------------------
(* The operations.                                                         *)

\* What has to make room for a new entry, if it is a valid entry itself.
Evicted_Nothing(v) == {}
Evicted(v) == {v} \cap Held

DropHash_Kept(S) == chain
DropHash(S) == [b \in Buckets |-> chain[b] \ S]

\* Whoever enters a name has referenced both vnodes.
coda_nc_enter(dcp, name, cred, cp) ==
  /\ name \notin LongNames
  /\ Find(dcp, name, cred) = {}
  /\ LET v == Victim
         old == Evicted(v)
         b == Bucket(name, dcp)
     IN
       /\ heap' = [heap EXCEPT ![v] = [dcp |-> dcp, name |-> name, cred |-> cred,
                                       cp |-> cp]]
       /\ lru' = LruNewest(v)
       /\ chain' = [DropHash(old) EXCEPT ![b] = @ \cup {v}]
       /\ length' = [Shortened(old, b) EXCEPT ![b] = @ + 1]
       /\ refs' = [c \in Cnodes |->
                     refs[c] - RefsOf(old, c) + RefsOfNew(dcp, cp, c)]
       /\ crefs' = [c \in Creds |->
                      crefs[c] - CrefsOf(old, c) + (IF c = cred THEN 1 ELSE 0)]
  /\ UNCHANGED <<size, found, lost, clost>>

coda_nc_lookup(dcp, name, cred) ==
  /\ \E cp \in Cnodes \cup {NoCnode} :
       /\ found' = [dcp |-> dcp, name |-> name, cred |-> cred, cp |-> cp]
       /\ \/ /\ name \in LongNames \/ Find(dcp, name, cred) = {}
             /\ cp = NoCnode /\ UNCHANGED lru
          \/ \E s \in Find(dcp, name, cred) :
               cp = heap[s].cp /\ lru' = LruNewest(s)
  /\ UNCHANGED <<size, heap, chain, length, refs, crefs, lost, clost>>

\* coda_nc_remove, for each entry of a set.
NcRemove(S) ==
  /\ heap' = [s \in Slots |-> IF s \in S THEN Null ELSE heap[s]]
  /\ lru' \in LruVictims(S)
  /\ chain' = DropHash(S)
  /\ length' = Shortened(S, 0)
  /\ refs' = [c \in Cnodes |-> refs[c] - RefsOf(S, c)]
  /\ crefs' = [c \in Creds |-> crefs[c] - CrefsOf(S, c)]
  /\ UNCHANGED <<size, found, lost, clost>>

\* CODA_ZAPDIR, CODA_PURGEFID; coda_rmdir
coda_nc_zapParentfid(fid) == NcRemove({s \in OnChains : FidOf[heap[s].dcp] = fid})

\* CODA_PURGEFID
coda_nc_zapfid(fid) == NcRemove({s \in OnChains : FidOf[heap[s].cp] = fid})

\* coda_remove, coda_rename, coda_rmdir: whatever the user
coda_nc_zapfile(dcp, name) ==
  /\ name \notin LongNames
  /\ NcRemove(FindAll(dcp, name))

\* CODA_PURGEUSER
coda_nc_purge_user(uid) == NcRemove({s \in Held : UidOf[heap[s].cred] = uid})

\* CODA_FLUSH, coda_kill: the LRU list is left as it is.
coda_nc_flush ==
  /\ heap' = [s \in Slots |-> Null]
  /\ chain' = DropHash(Held)
  /\ length' = [b \in Buckets |-> 0]
  /\ refs' = [c \in Cnodes |-> refs[c] - RefsOf(Held, c)]
  /\ crefs' = [c \in Creds |-> crefs[c] - CrefsOf(Held, c)]
  /\ UNCHANGED <<size, lru, found, lost, clost>>

\* coda_nc_flush is called with the cache turned off, and returns at once.
coda_nc_resize(sz) ==
  /\ sz.hash % 2 = 0 /\ sz.heap % 2 = 0
  /\ \A c \in Cnodes : lost[c] + RefsOf(Held, c) <= MaxLost
  /\ FreshCache(sz)
  /\ lost' = [c \in Cnodes |-> lost[c] + RefsOf(Held, c)]
  /\ clost' = [c \in Creds |-> clost[c] + CrefsOf(Held, c)]
  /\ UNCHANGED <<refs, crefs, found>>

Next ==
  \/ \E dcp \in Cnodes, name \in Names \cup LongNames :
       \/ coda_nc_zapfile(dcp, name)
       \/ \E cred \in Creds :
            \/ coda_nc_lookup(dcp, name, cred)
            \/ \E cp \in Cnodes : coda_nc_enter(dcp, name, cred, cp)
  \/ \E c \in Cnodes : \/ coda_nc_zapParentfid(FidOf[c])
                       \/ coda_nc_zapfid(FidOf[c])
  \/ \E c \in Creds : coda_nc_purge_user(UidOf[c])
  \/ coda_nc_flush
  \/ \E sz \in Sizes : coda_nc_resize(sz)

Spec == Init /\ [][Next]_vars

-----------------------------------------------------------------------------
(* Correctness.                                                            *)

\* An entry is on a chain exactly if it is valid, on the chain a search for it
\* looks at, and no search finds two entries for one directory, name and user.  The
\* lengths coda_nc_gather_stats reports are those of the chains.  Every entry is on
\* the LRU list once, and those that are not valid come after those that are: room is
\* made only when there is none.
ListsRight ==
  /\ TypeOK
  /\ \A b \in Buckets : length[b] = Cardinality(chain[b])
  /\ \A s \in Slots, b \in Buckets :
       s \in chain[b] <=> Valid(s) /\ b = Bucket(heap[s].name, heap[s].dcp)
  /\ \A s, t \in Held :
       heap[s].dcp = heap[t].dcp /\ heap[s].name = heap[t].name
       /\ heap[s].cred = heap[t].cred => s = t
  /\ lru \in Orders
  /\ \A i, j \in Slots : i < j /\ Valid(lru[j]) => Valid(lru[i])

\* The references of the vnodes and the credentials are those of the valid
\* entries and those of the entries coda_nc_resize has thrown away: no other is
\* dropped twice or forgotten, so coda_nc_lookup never returns a file that was
\* freed, and a file nobody can find any more may become inactive.
RefsBalance ==
  /\ \A c \in Cnodes : refs[c] = RefsOf(Held, c) + lost[c]
  /\ \A c \in Creds : crefs[c] = CrefsOf(Held, c) + clost[c]

\* The valid entries, the most recently used first.
Recent == {i \in Slots : Valid(lru[i])}
Entries == [i \in Recent |-> heap[lru[i]]]

\* The cache is a bounded map with least-recently-used replacement.
Lru == INSTANCE CodaLru WITH entries <- Entries, bound <- size.heap

ImplementsLru == Lru!ASpec

-----------------------------------------------------------------------------
(* Claims of the comments, checked as stated.                              *)

\* "free any cnodes in the cache" (coda_nc_resize)
ResizeFreesCnodes ==
  [][size' # size => \A c \in Cnodes : refs'[c] = 0]_vars
=============================================================================
