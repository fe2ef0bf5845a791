----------------------------- MODULE CodaFiles -----------------------------
(***************************************************************************)
(* What the cnode table promises: a file that is in use has one cnode,     *)
(* found by everybody who asks for the file, and what is cached in it      *)
(* (here: that the attributes are cached) lasts until the last user lets   *)
(* go, Venus invalidates it, or the file system goes away.                 *)
(***************************************************************************)
EXTENDS Naturals

CONSTANTS Fids, Pinned  \* the files that outlive the file system

VARIABLES
  users,  \* how many references each file has; 0: it has no cnode
  attrs   \* the files whose attributes are cached

AInit == users = [f \in Fids |-> 0] /\ attrs = {}

Get(f) == users' = [users EXCEPT ![f] = @ + 1] /\ UNCHANGED attrs

Put(f) ==
  /\ users[f] > 0
  /\ users' = [users EXCEPT ![f] = @ - 1]
  /\ attrs' = attrs \ {g \in {f} : users[f] = 1}

Learn(f) == users[f] > 0 /\ attrs' = attrs \cup {f} /\ UNCHANGED users

Zap(f) == attrs' = attrs \ {f} /\ UNCHANGED users

\* The file f is known as g from now on.
Replace(f, g) ==
  /\ users[g] = 0
  /\ users' = [users EXCEPT ![f] = 0, ![g] = users[f]]
  /\ attrs' = (attrs \ {f}) \cup {h \in {g} : f \in attrs}

GoAway ==
  /\ users' = [f \in Fids |-> IF f \in Pinned THEN users[f] ELSE 0]
  /\ attrs' = attrs \cap Pinned

ANext ==
  \/ \E f \in Fids : Get(f) \/ Put(f) \/ Learn(f) \/ Zap(f)
  \/ \E f, g \in Fids : Replace(f, g)
  \/ GoAway

ASpec == AInit /\ [][ANext]_<<users, attrs>>
=============================================================================
