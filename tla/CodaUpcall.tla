----------------------------- MODULE CodaUpcall -----------------------------
(***************************************************************************)
(* The upcall channel of the Coda kernel extension (coda_psdev.c): kernel  *)
(* threads in coda_call() queue a request for Venus on a device and sleep; *)
(* Venus reads requests from and writes replies to the device; closing the *)
(* device throws out the sleeping threads and unmounts the file system.    *)
(*                                                                         *)
(* darwin-7.3 runs this code under the kernel funnel, so one action is     *)
(* what a thread does from one tsleep to the next.  The doubly linked      *)
(* queues are sequences; the links a message keeps after it has been taken *)
(* off are remembered (chain), because some paths REMQUE it again.         *)
(***************************************************************************)
EXTENDS Naturals, Sequences, FiniteSets

CONSTANTS
  Devs,       \* minor numbers: the entries of coda_mnttbl[NVCODA] in use
  Callers,    \* kernel threads that may be inside coda_call
  Results,    \* values of oh.result Venus may answer with
  MaxCalls,   \* bound on vc_seq
  Env         \* which misfortunes the environment is allowed

(***************************************************************************)
(* The misfortunes the code has a branch, or a hole, for:                  *)
(*   oversize   Venus writes more than the caller has room for             *)
(*   copyfault  the copy of a reply out of Venus's memory faults           *)
(*   nomem      a CODA_ALLOC (M_NOWAIT) returns 0                          *)
(*   reopen     a new Venus opens the device while the previous close or   *)
(*              callers it orphaned have not finished                      *)
(***************************************************************************)
Misfortunes == {"oversize", "copyfault", "nomem", "reopen"}

ASSUME ConstantsAssumption ==
  /\ Devs # {} /\ Results # {}
  /\ IsFiniteSet(Callers)
  /\ MaxCalls \in Nat
  /\ Env \subseteq Misfortunes

VARIABLES
  open,       \* VC_OPEN(vcp): vc_requests.forw # NULL
  vc_seq,     \* the last vm_unique given out
  requests,   \* vc_requests: messages Venus has not read
  replys,     \* vc_replys: messages Venus has read and not answered
  mounted,    \* mi_rootvp and mi_vfsp are set
  closer,     \* the thread in vc_nb_close: where it is
  outstanding_upcalls,  \* one counter for all devices
  vmsg,       \* the struct vmsg of a caller
  pc,         \* where a caller is
  ret,        \* history: how the last coda_call of a caller returned
  written,    \* history: the replies vc_nb_write accepted
  chain,      \* vm_chain of a message that is no longer on a queue
  corrupt     \* REMQUE through such a vm_chain has damaged a queue

vars == <<open, vc_seq, requests, replys, mounted, closer,
          outstanding_upcalls, vmsg, pc, ret, written, chain, corrupt>>

AnyDev == CHOOSE d \in Devs : TRUE
AnyResult == CHOOSE r \in Results : TRUE

Vmsg == [dev : Devs, unique : Nat, read : BOOLEAN, write : BOOLEAN,
         result : Results]
Fresh(d, u) == [dev |-> d, unique |-> u, read |-> FALSE, write |-> FALSE,
                result |-> AnyResult]
Freed == Fresh(AnyDev, 0)

Message == [op : {"call", "signal"}, caller : Callers, unique : Nat]
CallMsg(c) == [op |-> "call", caller |-> c, unique |-> vmsg[c].unique]
SignalMsg(c) == [op |-> "signal", caller |-> c, unique |-> vmsg[c].unique]
IsCall(m) == m.op = "call"

QueueHead == [op |-> "head"]
Node == Message \cup {QueueHead}
Alone == [back |-> QueueHead, forw |-> QueueHead]

Status == {"none", "ok", "EINTR", "ENODEV", "ENOMEM"}
Return(d, u, s, r) == [dev |-> d, unique |-> u, status |-> s, result |-> r]

TypeOK ==
  /\ open \in [Devs -> BOOLEAN]
  /\ vc_seq \in [Devs -> Nat]
  /\ requests \in [Devs -> Seq(Message)]
  /\ replys \in [Devs -> Seq(Message)]
  /\ mounted \in [Devs -> BOOLEAN]
  /\ closer \in [Devs -> {"none", "asleep", "ready", "panic"}]
  /\ outstanding_upcalls \in Nat
  /\ vmsg \in [Callers -> Vmsg]
  /\ pc \in [Callers -> {"idle", "asleep", "woken"}]
  /\ ret \in [Callers -> [dev : Devs, unique : Nat, status : Status,
                          result : Results]]
  /\ written \subseteq [dev : Devs, unique : Nat, result : Results]
  /\ chain \in [Callers -> [back : Node, forw : Node]]
  /\ corrupt \in BOOLEAN

Init ==
  /\ open = [d \in Devs |-> FALSE]
  /\ vc_seq = [d \in Devs |-> 0]
  /\ requests = [d \in Devs |-> <<>>]
  /\ replys = [d \in Devs |-> <<>>]
  /\ mounted = [d \in Devs |-> FALSE]
  /\ closer = [d \in Devs |-> "none"]
  /\ outstanding_upcalls = 0
  /\ vmsg = [c \in Callers |-> Freed]
  /\ pc = [c \in Callers |-> "idle"]
  /\ ret = [c \in Callers |-> Return(AnyDev, 0, "none", AnyResult)]
  /\ written = {}
  /\ chain = [c \in Callers |-> Alone]
  /\ corrupt = FALSE

InCall(d) == {c \in Callers : pc[c] # "idle" /\ vmsg[c].dev = d}

-----------------------------------------------------------------------------
(* The queues and the uniquifier.                                          *)

INSQUE_AtHead(q, m) == <<m>> \o q
INSQUE(q, m) == Append(q, m)

REMQUE_First(q, i) == Tail(q)
REMQUE(q, i) == [j \in 1..(Len(q) - 1) |-> IF j < i THEN q[j] ELSE q[j + 1]]

\* A queue is a ring through its head.
NodeAt(q, i) == IF i \in DOMAIN q THEN q[i] ELSE QueueHead

\* The vm_chain of the message at i.
Links(q, i) == [back |-> NodeAt(q, i - 1), forw |-> NodeAt(q, i + 1)]

\* REMQUE of a message already off the queue makes its old neighbours
\* neighbours: no change if they still are, damage if they are not.
Harmless(q, l) ==
  \E i \in 0..Len(q) : l = [back |-> NodeAt(q, i), forw |-> NodeAt(q, i + 1)]

NextUnique(d) == vc_seq[d] + 1

\* Clears the wait channel of callers: they run when the scheduler gets to it.
Wakeup(callers) ==
  pc' = [c \in Callers |-> IF c \in callers THEN "woken" ELSE pc[c]]

-----------------------------------------------------------------------------
(* The device: Venus opens it, reads requests and writes replies.          *)

\* Without "reopen", Venus is restarted when its predecessor is gone for good.
MayOpen(d) == "reopen" \in Env \/ (closer[d] = "none" /\ InCall(d) = {})

\* vc_seq is not reset: callers of an earlier Venus may still be about.
SeqAtOpen_Reset(d) == [vc_seq EXCEPT ![d] = 0]
SeqAtOpen(d) == vc_seq

\* The first open makes the name cache; if it cannot be made nothing has happened.
VcOpen(d) ==
  /\ ~open[d] /\ MayOpen(d)
  /\ open' = [open EXCEPT ![d] = TRUE]
  /\ requests' = [requests EXCEPT ![d] = <<>>]
  /\ replys' = [replys EXCEPT ![d] = <<>>]
  /\ mounted' = [mounted EXCEPT ![d] = FALSE]
  /\ vc_seq' = SeqAtOpen(d)
  /\ UNCHANGED <<closer, outstanding_upcalls, vmsg, pc, ret, written, chain,
                 corrupt>>

\* coda_mount succeeds; one mount per device, and none while one is going away:
\* CodaMount has the others.
Mount(d) ==
  /\ open[d] /\ ~mounted[d] /\ closer[d] = "none"
  /\ mounted' = [mounted EXCEPT ![d] = TRUE]
  /\ UNCHANGED <<open, vc_seq, requests, replys, closer, outstanding_upcalls,
                 vmsg, pc, ret, written, chain, corrupt>>

\* A failed copy out loses the data but moves the message all the same.
VcRead(d) ==
  /\ open[d] /\ requests[d] # <<>>
  /\ LET m == Head(requests[d]) IN
       /\ requests' = [requests EXCEPT ![d] = Tail(@)]
       /\ \/ IsCall(m) /\ vmsg' = [vmsg EXCEPT ![m.caller].read = TRUE]
                       /\ replys' = [replys EXCEPT ![d] = INSQUE(@, m)]
          \/ ~IsCall(m) /\ UNCHANGED <<vmsg, replys>>
  /\ UNCHANGED <<open, vc_seq, mounted, closer, outstanding_upcalls, pc, ret,
                 written, chain, corrupt>>

\* The message a reply with uniquifier seq is for; there may be none (ESRCH).
\* It leaves the queue before anything more of the reply is looked at.
Awaiting_Anyone(d, seq) == DOMAIN replys[d]
Awaiting(d, seq) == {i \in DOMAIN replys[d] : replys[d][i].unique = seq}

TakeOff_Forgotten(d, i) == UNCHANGED <<replys, chain>>
TakeOff(d, i) ==
  /\ replys' = [replys EXCEPT ![d] = REMQUE(@, i)]
  /\ chain' = [chain EXCEPT ![replys[d][i].caller] = Links(replys[d], i)]

VcWrite(d, seq, r) ==
  /\ open[d]
  /\ \E i \in Awaiting(d, seq) : LET c == replys[d][i].caller IN
       /\ TakeOff(d, i)
       /\ vmsg' = [vmsg EXCEPT ![c].write = TRUE, ![c].result = r]
       /\ Wakeup({c})
  /\ written' = written \cup {[dev |-> d, unique |-> seq, result |-> r]}
  /\ UNCHANGED <<open, vc_seq, requests, mounted, closer,
                 outstanding_upcalls, ret, corrupt>>

\* vm_outSize < uio_resid: EINVAL for Venus, the caller is told to get out.
VcWriteTooLong(d, seq) ==
  /\ open[d] /\ "oversize" \in Env
  /\ \E i \in Awaiting(d, seq) :
       TakeOff(d, i) /\ Wakeup({replys[d][i].caller})
  /\ UNCHANGED <<open, vc_seq, requests, mounted, closer,
                 outstanding_upcalls, vmsg, ret, written, corrupt>>

\* uiomove fails: EINVAL for Venus, nobody tells the caller.
VcWriteFault(d, seq) ==
  /\ open[d] /\ "copyfault" \in Env
  /\ \E i \in Awaiting(d, seq) : TakeOff(d, i)
  /\ UNCHANGED <<open, vc_seq, requests, mounted, closer,
                 outstanding_upcalls, vmsg, pc, ret, written, corrupt>>

-----------------------------------------------------------------------------
(* coda_call.                                                              *)

\* Calls are made from vnodes, which last until dounmount has thrown them out.
HasVnodes(d) == mounted[d] \/ closer[d] # "none"

CallStart(c, d) ==
  /\ pc[c] = "idle" /\ HasVnodes(d)
  /\ open[d] /\ vc_seq[d] < MaxCalls
  /\ vc_seq' = [vc_seq EXCEPT ![d] = NextUnique(d)]
  /\ vmsg' = [vmsg EXCEPT ![c] = Fresh(d, NextUnique(d))]
  /\ requests' = [requests EXCEPT ![d] = INSQUE(@, CallMsg(c)')]
  /\ pc' = [pc EXCEPT ![c] = "asleep"]
  /\ UNCHANGED <<open, replys, mounted, closer, outstanding_upcalls, ret,
                 written, chain, corrupt>>

\* Returns before a message exists leave outstanding_upcalls alone.
CallRefused(c, d) ==
  /\ pc[c] = "idle" /\ HasVnodes(d)
  /\ \E s \in {"ENODEV", "ENOMEM"} :
       /\ \/ s = "ENODEV" /\ ~open[d]
          \/ s = "ENOMEM" /\ open[d] /\ "nomem" \in Env
       /\ ret' = [ret EXCEPT ![c] = Return(d, 0, s, AnyResult)]
  /\ UNCHANGED <<open, vc_seq, requests, replys, mounted, closer,
                 outstanding_upcalls, vmsg, pc, written, chain, corrupt>>

Leave(c, s, r) ==
  /\ pc' = [pc EXCEPT ![c] = "idle"]
  /\ vmsg' = [vmsg EXCEPT ![c] = Freed]
  /\ chain' = [chain EXCEPT ![c] = Alone]
  /\ ret' = [ret EXCEPT ![c] = Return(vmsg[c].dev, vmsg[c].unique, s, r)]
  /\ UNCHANGED <<open, vc_seq, mounted, written>>

\* The tail of coda_call: whoever is in vc_nb_close is woken at zero.
Less(n) == IF n > 0 THEN n - 1 ELSE 0

WakesCloser(n) == n = 1

CountDown ==
  /\ outstanding_upcalls' = Less(outstanding_upcalls)
  /\ closer' = [d \in Devs |-> IF closer[d] = "asleep"
                                  /\ WakesCloser(outstanding_upcalls)
                               THEN "ready" ELSE closer[d]]

CallAnswered(c) ==
  /\ pc[c] = "woken" /\ open[vmsg[c].dev]
  /\ vmsg[c].write
  /\ Leave(c, "ok", vmsg[c].result) /\ CountDown
  /\ UNCHANGED <<requests, replys, corrupt>>

\* Woken by the close of the device and running after it was opened again, with
\* a message the new vc_requests does not have: REMQUE goes through old links.
CallInterrupted(c) ==
  LET d == vmsg[c].dev IN
  /\ pc[c] = "woken" /\ open[d]
  /\ ~vmsg[c].write /\ ~vmsg[c].read
  /\ corrupt' = ~Harmless(requests[d], chain[c])
  /\ Leave(c, "EINTR", AnyResult) /\ CountDown
  /\ UNCHANGED <<requests, replys>>

\* Woken after Venus read the message, by a reply that was too long or by the
\* close of the device: the message is on no queue any more, yet it is REMQUEd,
\* and Venus is sent a signal for it.  When there is no memory for the signal
\* coda_call returns on the spot, without counting outstanding_upcalls down.
CallSignalled(c) ==
  LET d == vmsg[c].dev IN
  /\ pc[c] = "woken" /\ open[d]
  /\ ~vmsg[c].write /\ vmsg[c].read
  /\ corrupt' = ~Harmless(replys[d], chain[c])
  /\ \/ /\ requests' = [requests EXCEPT ![d] = INSQUE(@, SignalMsg(c))]
        /\ Leave(c, "EINTR", AnyResult) /\ CountDown
     \/ /\ "nomem" \in Env
        /\ Leave(c, "ENOMEM", AnyResult)
        /\ UNCHANGED <<requests, closer, outstanding_upcalls>>
  /\ UNCHANGED replys

\* Venus died.  The message is freed where it is: its queue is gone too.
CallOrphaned(c) ==
  /\ pc[c] = "woken" /\ ~open[vmsg[c].dev]
  /\ Leave(c, "ENODEV", AnyResult) /\ CountDown
  /\ UNCHANGED <<requests, replys, corrupt>>

CallReturn(c) ==
  CallAnswered(c) \/ CallInterrupted(c) \/ CallSignalled(c) \/ CallOrphaned(c)

-----------------------------------------------------------------------------
(* vc_nb_close: Venus has exited or closed its last descriptor.            *)

\* Nothing mounted: nobody is looked for and nobody is woken.
VcCloseBare(d) ==
  /\ open[d] /\ ~mounted[d]
  /\ open' = [open EXCEPT ![d] = FALSE]
  /\ UNCHANGED <<vc_seq, requests, replys, mounted, closer,
                 outstanding_upcalls, vmsg, pc, ret, written, chain, corrupt>>

\* Callers with a message on either queue; the signals queued are dropped.
On(q) == {c \in Callers : \E i \in DOMAIN q : q[i] = CallMsg(c)}
Waiting_ForReply(d) == On(replys[d])
Waiting(d) == On(requests[d]) \cup On(replys[d])

\* Nobody takes these messages off their queue: their links stay as they are.
LinksLeft(d) ==
  [c \in Callers |->
     IF c \in On(requests[d])
     THEN Links(requests[d], CHOOSE i \in DOMAIN requests[d] :
                               requests[d][i] = CallMsg(c))
     ELSE IF c \in On(replys[d])
     THEN Links(replys[d], CHOOSE i \in DOMAIN replys[d] :
                             replys[d][i] = CallMsg(c))
     ELSE chain[c]]

CloserGoes_ToSleep(d) == "asleep"
CloserGoes(d) == IF Waiting(d) = {} THEN "ready" ELSE "asleep"

VcClose(d) ==
  /\ open[d] /\ mounted[d] /\ closer[d] = "none"
  /\ open' = [open EXCEPT ![d] = FALSE]
  /\ requests' = [requests EXCEPT ![d] = <<>>]
  /\ replys' = [replys EXCEPT ![d] = <<>>]
  /\ chain' = LinksLeft(d)
  /\ outstanding_upcalls' = Cardinality(Waiting(d))
  /\ Wakeup(Waiting(d))
  /\ closer' = [closer EXCEPT ![d] = CloserGoes(d)]
  /\ UNCHANGED <<vc_seq, mounted, vmsg, ret, written, corrupt>>

\* dounmount(mi->mi_vfsp): coda_unmount clears mi_vfsp and mi_rootvp, and a
\* mi_vfsp that vc_nb_open has cleared in the meantime is a null dereference.
VcCloseUnmount(d) ==
  /\ closer[d] = "ready"
  /\ closer' = [closer EXCEPT ![d] = IF mounted[d] THEN "none" ELSE "panic"]
  /\ mounted' = [mounted EXCEPT ![d] = FALSE]
  /\ UNCHANGED <<open, vc_seq, requests, replys, outstanding_upcalls, vmsg,
                 pc, ret, written, chain, corrupt>>

-----------------------------------------------------------------------------

VenusStep(d) ==
  \/ VcOpen(d) \/ Mount(d) \/ VcRead(d) \/ VcCloseBare(d) \/ VcClose(d)
  \/ \E seq \in 1..MaxCalls :
        \/ VcWriteTooLong(d, seq) \/ VcWriteFault(d, seq)
        \/ \E r \in Results : VcWrite(d, seq, r)

\* After a stale REMQUE the queues are not what this module describes, and
\* after a panic there is no kernel: the model ends there.
Running == ~corrupt /\ \A d \in Devs : closer[d] # "panic"

Next ==
  /\ Running
  /\ \/ \E d \in Devs : VenusStep(d) \/ VcCloseUnmount(d)
     \/ \E c \in Callers : CallReturn(c)
     \/ \E c \in Callers, d \in Devs : CallStart(c, d) \/ CallRefused(c, d)

\* Runnable kernel threads run.  Nothing is asked of Venus or of new callers.
Fairness ==
  /\ \A c \in Callers : WF_vars(CallReturn(c))
  /\ \A d \in Devs : WF_vars(VcCloseUnmount(d))

Safe == Init /\ [][Next]_vars
Spec == Safe /\ Fairness
-----------------------------------------------------------------------------
(* Correctness.                                                            *)

\* A caller that sleeps can be found: its message is on a queue of an open
\* device, where a reply or the close of the device will wake it (the sleep in
\* coda_call is not interruptible and has no timeout).
NoLostCaller ==
  \A c \in Callers :
    pc[c] = "asleep" => LET d == vmsg[c].dev IN open[d] /\ c \in Waiting(d)

\* What coda_call returns as a result is what Venus wrote as the reply to this
\* very call, and Venus gets a reply to a call accepted at most once; vm_unique
\* tells calls apart over every restart of Venus.
RepliesMatch ==
  /\ \A c \in Callers : ret[c].status = "ok" =>
       [dev |-> ret[c].dev, unique |-> ret[c].unique,
        result |-> ret[c].result] \in written
  /\ \A v, w \in written :
       v.dev = w.dev /\ v.unique = w.unique => v.result = w.result

\* The messages being waited for on one device have different uniquifiers, all
\* given out before: a reply has at most one message to go to.
UniqueCalls ==
  \A b, c \in Callers :
    pc[b] # "idle" /\ pc[c] # "idle" /\ vmsg[b].dev = vmsg[c].dev =>
      /\ vmsg[b].unique \in 1..vc_seq[vmsg[b].dev]
      /\ vmsg[b].unique = vmsg[c].unique => b = c

\* Venus is given the calls in the order in which they were made.
RequestsInOrder ==
  \A d \in Devs : \A i, j \in DOMAIN requests[d] :
    i < j /\ IsCall(requests[d][i]) /\ IsCall(requests[d][j])
      => requests[d][i].unique < requests[d][j].unique

\* A signal is about a call Venus has read and not answered: the caller gave up
\* on it, so no reply to it can be accepted any more.
SignalsUnanswered ==
  \A d \in Devs : \A i \in DOMAIN requests[d] :
    LET m == requests[d][i] IN
    m.op = "signal" => /\ \A j \in DOMAIN replys[d] :
                            replys[d][j].unique # m.unique
                       /\ \A w \in written :
                            ~(w.dev = d /\ w.unique = m.unique)

\* A close of the device comes to its end ("it should be possible to close down
\* venus such that the venus process really dies afterwards", README.Darwin).
CloseFinishes ==
  \A d \in Devs : closer[d] # "none" ~> closer[d] = "none"

\* Once the device is closed everyone inside coda_call gets out of it.
CallersGetOut ==
  \A c \in Callers : ~open[vmsg[c].dev] /\ pc[c] # "idle" ~> pc[c] = "idle"

\* The promise of the channel, see CodaRpc: how far a call has come, and where it
\* has been made, by what the queues and the message of the caller say.
PhaseOf ==
  [c \in Callers |->
     CASE pc[c] = "idle" -> "idle"
       [] pc[c] # "idle" /\ ~open[vmsg[c].dev] -> "orphaned"
       [] pc[c] # "idle" /\ open[vmsg[c].dev] /\ vmsg[c].write -> "answered"
       [] pc[c] # "idle" /\ open[vmsg[c].dev] /\ ~vmsg[c].write
          /\ vmsg[c].read -> "taken"
       [] OTHER -> "sent"]

TargetOf == [c \in Callers |-> vmsg[c].dev]
AnswerOf == [c \in Callers |-> vmsg[c].result]
OutcomeOf ==
  [c \in Callers |-> [status |-> ret[c].status, result |-> ret[c].result]]

Rpc == INSTANCE CodaRpc WITH
  alive <- open, phase <- PhaseOf, target <- TargetOf, answer <- AnswerOf,
  outcome <- OutcomeOf

ImplementsRpc == Rpc!Spec

-----------------------------------------------------------------------------
(* What the above rests on: an inductive invariant (CodaUpcallProofs).     *)

\* The caller of a message on a queue sleeps, and its vmsg is this message.
Expects(d, m, read) ==
  /\ pc[m.caller] = "asleep"
  /\ vmsg[m.caller].dev = d /\ vmsg[m.caller].unique = m.unique
  /\ vmsg[m.caller].read = read /\ ~vmsg[m.caller].write

QueueInv ==
  \A d \in Devs :
    /\ \A i \in DOMAIN requests[d] :
         IsCall(requests[d][i]) => Expects(d, requests[d][i], FALSE)
    /\ \A i \in DOMAIN replys[d] : Expects(d, replys[d][i], TRUE)
    /\ \A i, j \in DOMAIN requests[d] :
         IsCall(requests[d][i]) /\ requests[d][i] = requests[d][j] => i = j
    /\ \A i, j \in DOMAIN replys[d] : replys[d][i].caller = replys[d][j].caller
                                       => i = j

\* A call that is being made has an answer if and only if Venus wrote one.
AnswerInv ==
  /\ \A c \in Callers : pc[c] # "idle" /\ vmsg[c].write =>
       [dev |-> vmsg[c].dev, unique |-> vmsg[c].unique,
        result |-> vmsg[c].result] \in written
  /\ \A w \in written :
       /\ w.unique \in 1..vc_seq[w.dev]
       /\ \A c \in Callers : pc[c] # "idle" /\ vmsg[c].dev = w.dev
                             /\ vmsg[c].unique = w.unique => vmsg[c].write

\* A signal is about a call that is over and was never answered.
SignalInv ==
  \A d \in Devs : \A i \in DOMAIN requests[d] :
    LET m == requests[d][i] IN
    ~IsCall(m) =>
      /\ m.unique \in 1..vc_seq[d]
      /\ \A c \in Callers : pc[c] # "idle" /\ vmsg[c].dev = d
                            => vmsg[c].unique # m.unique
      /\ \A w \in written : w.dev = d => w.unique # m.unique

MatchInv ==
  TypeOK /\ QueueInv /\ AnswerInv /\ SignalInv /\ UniqueCalls /\ RepliesMatch

\* With no "reopen", a close that has not ended keeps its device closed, and an
\* open device with nothing mounted has nobody in coda_call whom VcCloseBare
\* would leave there.
CloseInv ==
  \A d \in Devs : /\ closer[d] # "none" => ~open[d]
                  /\ open[d] /\ ~mounted[d] => InCall(d) = {}

\* With neither "reopen" nor "oversize", a caller woken by anything but its reply
\* finds the device closed.
WokenInv ==
  \A c \in Callers : pc[c] = "woken" /\ open[vmsg[c].dev] => vmsg[c].write

=============================================================================
