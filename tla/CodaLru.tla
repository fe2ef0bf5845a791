------------------------------ MODULE CodaLru -------------------------------
(***************************************************************************)
(* What the Coda name cache promises: a map from (directory, name, user)   *)
(* to a file that holds a bounded number of entries, forgets the least     *)
(* recently used one to make room for another, and forgets on demand.      *)
(***************************************************************************)
EXTENDS Naturals, Sequences, SequencesExt

CONSTANTS Cnodes, Names, LongNames, Creds, FidOf, UidOf, NoCnode, Null

VARIABLES
  entries,   \* the entries, the most recently used first
  bound,     \* how many there may be
  found      \* the last lookup and its answer

avars == <<entries, bound, found>>

Entry == [dcp : Cnodes, name : Names, cred : Creds, cp : Cnodes]

Matches(e, dcp, name, cred) == e.dcp = dcp /\ e.name = name /\ e.cred = cred

Known(dcp, name, cred) ==
  \E i \in DOMAIN entries : Matches(entries[i], dcp, name, cred)

AInit == entries = <<>> /\ bound \in Nat \ {0} /\ found = Null

\* Entering what is known already changes nothing, not even its age.
AEnter(e) ==
  /\ ~Known(e.dcp, e.name, e.cred)
  /\ LET size == Len(entries)
     IN entries' = <<e>> \o SubSeq(entries, 1, IF size < bound THEN size ELSE bound - 1)
  /\ UNCHANGED <<bound, found>>

ALookup(dcp, name, cred) ==
  /\ Matches(found', dcp, name, cred)
  /\ \/ /\ ~Known(dcp, name, cred)
        /\ found'.cp = NoCnode /\ entries' = entries
     \/ \E i \in DOMAIN entries :
          /\ Matches(entries[i], dcp, name, cred)
          /\ found' = entries[i]
          /\ entries' = <<entries[i]>> \o RemoveAt(entries, i)
  /\ UNCHANGED bound

\* Forgets exactly the entries that stand for what has become invalid: the others are
\* found at the places h has, in the order they had.
AForget(gone) ==
  /\ entries' \in Seq(Entry)
  /\ \E h \in [DOMAIN entries' -> DOMAIN entries] :
       /\ \A i, j \in DOMAIN entries' : i < j => h[i] < h[j]
       /\ \A k \in DOMAIN entries :
            entries[k] \in gone <=> \A i \in DOMAIN entries' : h[i] # k
       /\ \A i \in DOMAIN entries' : entries'[i] = entries[h[i]]
  /\ UNCHANGED <<bound, found>>

AResize ==
  entries' = <<>> /\ bound' \in Nat \ {0} /\ found' = found

ANext ==
  \/ \E e \in Entry : AEnter(e)
  \/ \E dcp \in Cnodes, name \in Names \cup LongNames, cred \in Creds :
       ALookup(dcp, name, cred)
  \/ \E c \in Cnodes : \/ AForget({e \in Entry : FidOf[e.dcp] = FidOf[c]})
                       \/ AForget({e \in Entry : FidOf[e.cp] = FidOf[c]})
  \/ \E dcp \in Cnodes, name \in Names :
       AForget({e \in Entry : e.dcp = dcp /\ e.name = name})
  \/ \E c \in Creds : AForget({e \in Entry : UidOf[e.cred] = UidOf[c]})
  \/ AForget(Entry)
  \/ AResize

ASpec == AInit /\ [][ANext]_avars
=============================================================================
