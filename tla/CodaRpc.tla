------------------------------ MODULE CodaRpc ------------------------------
(***************************************************************************)
(* What the upcall channel promises the rest of the kernel extension: a    *)
(* thread hands a request to the cache manager (Venus) serving a device    *)
(* and gets back either the one answer Venus gave to that very request, or *)
(* ENODEV, and the latter only because Venus went away.  A request is      *)
(* taken at most once and answered at most once.  There are no queues,     *)
(* uniquifiers or wakeups here; CodaUpcall implements this with them.      *)
(***************************************************************************)

CONSTANTS
  Devs,       \* the coda devices, each served by its own Venus
  Callers,    \* the threads that make requests
  Results     \* the answers Venus may give

VARIABLES
  alive,      \* is a Venus serving the device?
  phase,      \* how far the request of a caller has come
  target,     \* the device the request was made to
  answer,     \* the answer Venus gave to the request being made
  outcome     \* what the last request of a caller returned

rpcVars == <<alive, phase, target, answer, outcome>>

Phase == {"idle", "sent", "taken", "answered", "orphaned"}
Got(r) == [status |-> "ok", result |-> r]
NoDevice(r) == [status |-> "ENODEV", result |-> r]
Nothing(r) == [status |-> "none", result |-> r]

Init ==
  /\ alive = [d \in Devs |-> FALSE]
  /\ phase = [c \in Callers |-> "idle"]
  /\ target \in [Callers -> Devs]
  /\ answer \in [Callers -> Results]
  /\ \E r \in Results : outcome = [c \in Callers |-> Nothing(r)]

Attach(d) ==
  /\ ~alive[d]
  /\ alive' = [alive EXCEPT ![d] = TRUE]
  /\ UNCHANGED <<phase, target, answer, outcome>>

Issue(c, d) ==
  /\ phase[c] = "idle" /\ alive[d]
  /\ phase' = [phase EXCEPT ![c] = "sent"]
  /\ target' = [target EXCEPT ![c] = d]
  /\ \E r \in Results : answer' = [answer EXCEPT ![c] = r]
  /\ UNCHANGED <<alive, outcome>>

Refuse(c) ==
  /\ phase[c] = "idle"
  /\ \E d \in Devs : ~alive[d]
  /\ \E r \in Results : outcome' = [outcome EXCEPT ![c] = NoDevice(r)]
  /\ UNCHANGED <<alive, phase, target, answer>>

Take(c) ==
  /\ phase[c] = "sent"
  /\ phase' = [phase EXCEPT ![c] = "taken"]
  /\ UNCHANGED <<alive, target, answer, outcome>>

Answer(c, r) ==
  /\ phase[c] = "taken"
  /\ phase' = [phase EXCEPT ![c] = "answered"]
  /\ answer' = [answer EXCEPT ![c] = r]
  /\ UNCHANGED <<alive, target, outcome>>

\* The request is over; what the slot of the caller holds from now on is free.
Forget(c) ==
  /\ phase' = [phase EXCEPT ![c] = "idle"]
  /\ \E d \in Devs : target' = [target EXCEPT ![c] = d]
  /\ \E r \in Results : answer' = [answer EXCEPT ![c] = r]
  /\ UNCHANGED alive

Return(c) ==
  /\ phase[c] = "answered"
  /\ outcome' = [outcome EXCEPT ![c] = Got(answer[c])]
  /\ Forget(c)

\* Venus goes away: every request made to it, an answered one too, is orphaned.
Die(d) ==
  /\ alive[d]
  /\ alive' = [alive EXCEPT ![d] = FALSE]
  /\ phase' = [c \in Callers |-> IF phase[c] # "idle" /\ target[c] = d
                                 THEN "orphaned" ELSE phase[c]]
  /\ UNCHANGED <<target, answer, outcome>>

Fail(c) ==
  /\ phase[c] = "orphaned"
  /\ \E r \in Results : outcome' = [outcome EXCEPT ![c] = NoDevice(r)]
  /\ Forget(c)

Next ==
  \/ \E d \in Devs : Attach(d) \/ Die(d)
  \/ \E c \in Callers :
        \/ Refuse(c) \/ Take(c) \/ Return(c) \/ Fail(c)
        \/ \E d \in Devs : Issue(c, d)
        \/ \E r \in Results : Answer(c, r)

\* A finished request is returned: the threads of the kernel are scheduled.
Fairness == \A c \in Callers : WF_rpcVars(Return(c) \/ Fail(c))

Safe == Init /\ [][Next]_rpcVars
Spec == Safe /\ Fairness
=============================================================================
