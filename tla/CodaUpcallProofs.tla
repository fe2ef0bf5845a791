-------------------------- MODULE CodaUpcallProofs --------------------------
(***************************************************************************)
(* Theorems about CodaUpcall, for every number of devices and callers, any *)
(* bound on the calls and every combination of misfortunes.                *)
(***************************************************************************)
EXTENDS CodaUpcall, FiniteSetTheorems, TLAPS

-----------------------------------------------------------------------------
(* The operators on queues.                                                *)

LEMMA AnyInSets == AnyDev \in Devs /\ AnyResult \in Results
  BY ConstantsAssumption DEF AnyDev, AnyResult

LEMMA FreshType ==
  ASSUME NEW d \in Devs, NEW u \in Nat
  PROVE  Fresh(d, u) \in Vmsg
  BY AnyInSets DEF Fresh, Vmsg

\* Setting flags of a message leaves it a message.
LEMMA FlagsType ==
  ASSUME NEW v \in Vmsg, NEW r \in Results
  PROVE  /\ [v EXCEPT !.read = TRUE] \in Vmsg
         /\ [v EXCEPT !.write = TRUE, !.result = r] \in Vmsg
  BY DEF Vmsg

LEMMA FreedType == Freed \in Vmsg
  BY AnyInSets, FreshType DEF Freed

\* REMQUE keeps the messages other than the i-th, in their order.
LEMMA RemqueType ==
  ASSUME NEW q \in Seq(Message), NEW i \in DOMAIN q
  PROVE  /\ REMQUE(q, i) \in Seq(Message)
         /\ DOMAIN REMQUE(q, i) = 1..(Len(q) - 1)
         /\ \A j \in DOMAIN REMQUE(q, i) :
              /\ j < i => j \in DOMAIN q /\ REMQUE(q, i)[j] = q[j]
              /\ j >= i => j + 1 \in DOMAIN q /\ REMQUE(q, i)[j] = q[j + 1]
<1>1. Len(q) \in Nat /\ DOMAIN q = 1..Len(q) /\ \A j \in 1..Len(q) : q[j] \in Message
  OBVIOUS
<1>2. Len(q) - 1 \in Nat
  BY <1>1
<1>3. \A j \in 1..(Len(q) - 1) : j \in 1..Len(q) /\ j + 1 \in 1..Len(q)
  BY <1>1
<1>4. \A j \in 1..(Len(q) - 1) : (IF j < i THEN q[j] ELSE q[j + 1]) \in Message
  BY <1>1, <1>3
<1>5. REMQUE(q, i) \in [1..(Len(q) - 1) -> Message]
  BY <1>4 DEF REMQUE
<1>6. REMQUE(q, i) \in Seq(Message)
  BY <1>2, <1>5
<1>7. \A j \in 1..(Len(q) - 1) :
        /\ j < i => REMQUE(q, i)[j] = q[j]
        /\ j >= i => REMQUE(q, i)[j] = q[j + 1]
  BY <1>1 DEF REMQUE
<1> QED
  BY <1>1, <1>3, <1>5, <1>6, <1>7

LEMMA LinksType ==
  ASSUME NEW q \in Seq(Message), NEW i
  PROVE  Links(q, i) \in [back : Node, forw : Node]
<1>1. \A j : NodeAt(q, j) \in Node
  BY DEF NodeAt, Node
<1> QED
  BY <1>1 DEF Links

LEMMA AloneType == Alone \in [back : Node, forw : Node]
  BY DEF Alone, Node

LEMMA MessageTypes ==
  ASSUME TypeOK, NEW c \in Callers
  PROVE  CallMsg(c) \in Message /\ SignalMsg(c) \in Message
<1>1. vmsg[c].unique \in Nat
  BY DEF TypeOK, Vmsg
<1> QED
  BY <1>1 DEF CallMsg, SignalMsg, Message

LEMMA CountType == ASSUME NEW d PROVE Cardinality(Waiting(d)) \in Nat
<1>1. Waiting(d) \subseteq Callers
  BY DEF Waiting, On
<1> QED
  BY <1>1, ConstantsAssumption, FS_Subset, FS_CardinalityType

-----------------------------------------------------------------------------
(* Type correctness.                                                       *)

LEMMA InitType == Init => TypeOK
<1> SUFFICES ASSUME Init PROVE TypeOK
  OBVIOUS
<1> USE AnyInSets
<1>1. <<>> \in Seq(Message)
  OBVIOUS
<1>2. vmsg \in [Callers -> Vmsg] /\ chain \in [Callers -> [back : Node, forw : Node]]
  BY FreedType, AloneType DEF Init
<1>3. ret \in [Callers -> [dev : Devs, unique : Nat, status : Status, result : Results]]
  BY DEF Init, Return, Status
<1> QED
  BY <1>1, <1>2, <1>3 DEF Init, TypeOK

LEMMA DeviceType ==
  ASSUME TypeOK, NEW d \in Devs,
         \/ VcOpen(d) \/ Mount(d) \/ VcRead(d) \/ VcCloseBare(d)
         \/ VcClose(d) \/ VcCloseUnmount(d)
  PROVE  TypeOK'
<1>1. CASE VcOpen(d)
  BY <1>1 DEF VcOpen, TypeOK, SeqAtOpen
<1>2. CASE Mount(d)
  BY <1>2 DEF Mount, TypeOK
<1>3. CASE VcRead(d)
  <2> DEFINE m == Head(requests[d])
  <2>1. requests[d] \in Seq(Message) /\ requests[d] # <<>> /\ replys[d] \in Seq(Message)
    BY <1>3 DEF VcRead, TypeOK
  <2>2. m \in Message /\ Tail(requests[d]) \in Seq(Message)
    BY <2>1
  <2>3. Append(replys[d], m) \in Seq(Message)
    BY <2>1, <2>2
  <2>4. requests' \in [Devs -> Seq(Message)]
    BY <1>3, <2>2 DEF VcRead, TypeOK
  <2>5. replys' \in [Devs -> Seq(Message)]
    BY <1>3, <2>3 DEF VcRead, TypeOK, INSQUE
  <2>6. m.caller \in Callers
    BY <2>2 DEF Message
  <2>7. [vmsg[m.caller] EXCEPT !.read = TRUE] \in Vmsg
    BY <2>6, AnyInSets, FlagsType DEF TypeOK
  <2>8. vmsg' \in [Callers -> Vmsg]
    BY <1>3, <2>7 DEF VcRead, TypeOK
  <2> QED
    BY <1>3, <2>4, <2>5, <2>8 DEF VcRead, TypeOK
<1>4. CASE VcCloseBare(d)
  BY <1>4 DEF VcCloseBare, TypeOK
<1>5. CASE VcClose(d)
  <2>1. \A c : LinksLeft(d)[c] = LinksLeft(d)[c]
    OBVIOUS
  <2>2. requests[d] \in Seq(Message) /\ replys[d] \in Seq(Message)
    BY DEF TypeOK
  <2>3. chain' \in [Callers -> [back : Node, forw : Node]]
    BY <1>5, <2>2, LinksType DEF VcClose, LinksLeft, TypeOK
  <2>4. pc' \in [Callers -> {"idle", "asleep", "woken"}]
    BY <1>5 DEF VcClose, Wakeup, TypeOK
  <2>5. CloserGoes(d) \in {"none", "asleep", "ready", "panic"}
    BY DEF CloserGoes
  <2>6. outstanding_upcalls' \in Nat
    BY <1>5, CountType DEF VcClose
  <2> QED
    BY <1>5, <2>3, <2>4, <2>5, <2>6 DEF VcClose, TypeOK
<1>6. CASE VcCloseUnmount(d)
  BY <1>6 DEF VcCloseUnmount, TypeOK
<1> QED
  BY <1>1, <1>2, <1>3, <1>4, <1>5, <1>6

LEMMA TakeOffType ==
  ASSUME TypeOK, NEW d \in Devs, NEW seq, NEW i \in Awaiting(d, seq), TakeOff(d, i)
  PROVE  /\ replys' \in [Devs -> Seq(Message)]
         /\ chain' \in [Callers -> [back : Node, forw : Node]]
         /\ replys[d][i].caller \in Callers
<1>1. replys[d] \in Seq(Message) /\ i \in DOMAIN replys[d]
  BY DEF TypeOK, Awaiting
<1>2. replys[d][i] \in Message
  BY <1>1
<1> QED
  BY <1>1, <1>2, RemqueType, LinksType DEF TakeOff, TypeOK, Message

LEMMA WriteType ==
  ASSUME TypeOK, NEW d \in Devs, NEW seq \in 1..MaxCalls,
         \/ VcWriteTooLong(d, seq) \/ VcWriteFault(d, seq)
         \/ \E r \in Results : VcWrite(d, seq, r)
  PROVE  TypeOK'
<1>1. CASE VcWriteTooLong(d, seq)
  <2>1. PICK i \in Awaiting(d, seq) : TakeOff(d, i) /\ Wakeup({replys[d][i].caller})
    BY <1>1 DEF VcWriteTooLong
  <2>2. pc' \in [Callers -> {"idle", "asleep", "woken"}]
    BY <2>1 DEF Wakeup, TypeOK
  <2> QED
    BY <1>1, <2>1, <2>2, TakeOffType DEF VcWriteTooLong, TypeOK
<1>2. CASE VcWriteFault(d, seq)
  <2>1. PICK i \in Awaiting(d, seq) : TakeOff(d, i)
    BY <1>2 DEF VcWriteFault
  <2> QED
    BY <1>2, <2>1, TakeOffType DEF VcWriteFault, TypeOK
<1>3. CASE \E r \in Results : VcWrite(d, seq, r)
  <2>1. PICK r \in Results : VcWrite(d, seq, r)
    BY <1>3
  <2>2. PICK i \in Awaiting(d, seq) :
          /\ TakeOff(d, i)
          /\ vmsg' = [vmsg EXCEPT ![replys[d][i].caller].write = TRUE,
                                  ![replys[d][i].caller].result = r]
          /\ Wakeup({replys[d][i].caller})
    BY <2>1 DEF VcWrite
  <2>3. pc' \in [Callers -> {"idle", "asleep", "woken"}]
    BY <2>2 DEF Wakeup, TypeOK
  <2>4. vmsg' \in [Callers -> Vmsg]
    <3> DEFINE c == replys[d][i].caller
    <3>1. c \in Callers
      BY <2>2, TakeOffType
    <3>2. [vmsg[c] EXCEPT !.write = TRUE, !.result = r] \in Vmsg
      BY <3>1, FlagsType DEF TypeOK
    <3>3. vmsg' = [vmsg EXCEPT ![c] = [vmsg[c] EXCEPT !.write = TRUE, !.result = r]]
      BY <2>2, <3>1 DEF TypeOK
    <3> QED
      BY <3>1, <3>2, <3>3 DEF TypeOK
  <2>5. written' \subseteq [dev : Devs, unique : Nat, result : Results]
    BY <2>1, ConstantsAssumption DEF VcWrite, TypeOK
  <2> QED
    BY <2>1, <2>2, <2>3, <2>4, <2>5, TakeOffType DEF VcWrite, TypeOK
<1> QED
  BY <1>1, <1>2, <1>3

LEMMA LeaveType ==
  ASSUME TypeOK, NEW c \in Callers, NEW s \in Status, NEW r \in Results, Leave(c, s, r)
  PROVE  /\ pc' \in [Callers -> {"idle", "asleep", "woken"}]
         /\ vmsg' \in [Callers -> Vmsg]
         /\ chain' \in [Callers -> [back : Node, forw : Node]]
         /\ ret' \in [Callers -> [dev : Devs, unique : Nat, status : Status,
                                  result : Results]]
  BY FreedType, AloneType DEF Leave, TypeOK, Return, Vmsg

LEMMA CountDownType ==
  ASSUME TypeOK, CountDown
  PROVE  /\ outstanding_upcalls' \in Nat
         /\ closer' \in [Devs -> {"none", "asleep", "ready", "panic"}]
  BY DEF CountDown, Less, TypeOK

LEMMA ReturnType ==
  ASSUME TypeOK, NEW c \in Callers, NEW s \in Status, NEW r \in Results,
         Leave(c, s, r), CountDown, UNCHANGED <<requests, replys>>,
         corrupt' \in BOOLEAN
  PROVE  TypeOK'
<1>1. UNCHANGED <<open, vc_seq, mounted, written>>
  BY DEF Leave
<1> QED
  BY <1>1, LeaveType, CountDownType DEF TypeOK

LEMMA CallType ==
  ASSUME TypeOK, NEW c \in Callers,
         \/ CallReturn(c)
         \/ \E d \in Devs : CallStart(c, d) \/ CallRefused(c, d)
  PROVE  TypeOK'
<1>1. ASSUME NEW d \in Devs, CallStart(c, d)
      PROVE  TypeOK'
  <2>1. vc_seq[d] \in Nat /\ NextUnique(d) \in Nat
    BY DEF TypeOK, NextUnique
  <2>2. vmsg' \in [Callers -> Vmsg]
    BY <1>1, <2>1, FreshType DEF CallStart, TypeOK
  <2>3. CallMsg(c)' \in Message
    BY <2>2 DEF CallMsg, Message, Vmsg
  <2>4. requests[d] \in Seq(Message)
    BY DEF TypeOK
  <2>5. INSQUE(requests[d], CallMsg(c)') \in Seq(Message)
    BY <2>3, <2>4 DEF INSQUE
  <2>6. requests' \in [Devs -> Seq(Message)]
    BY <1>1, <2>5 DEF CallStart, TypeOK
  <2>7. vc_seq' \in [Devs -> Nat]
    BY <1>1, <2>1 DEF CallStart, TypeOK
  <2> QED
    BY <1>1, <2>2, <2>6, <2>7 DEF CallStart, TypeOK
<1>2. ASSUME NEW d \in Devs, CallRefused(c, d)
      PROVE  TypeOK'
  <2>1. PICK s \in {"ENODEV", "ENOMEM"} :
          ret' = [ret EXCEPT ![c] = Return(d, 0, s, AnyResult)]
    BY <1>2 DEF CallRefused
  <2>2. Return(d, 0, s, AnyResult) \in [dev : Devs, unique : Nat, status : Status,
                                        result : Results]
    BY AnyInSets DEF Return, Status
  <2>3. ret' \in [Callers -> [dev : Devs, unique : Nat, status : Status,
                              result : Results]]
    BY <2>1, <2>2 DEF TypeOK
  <2> QED
    BY <1>2, <2>3 DEF CallRefused, TypeOK
<1>3. CASE CallAnswered(c)
  <2>1. vmsg[c].result \in Results /\ "ok" \in Status
    BY DEF TypeOK, Vmsg, Status
  <2>2. Leave(c, "ok", vmsg[c].result) /\ CountDown
    BY <1>3 DEF CallAnswered
  <2>3. UNCHANGED <<requests, replys>> /\ corrupt' \in BOOLEAN
    BY <1>3 DEF CallAnswered, TypeOK
  <2> QED
    BY <2>1, <2>2, <2>3, ReturnType
<1>4. CASE CallInterrupted(c)
  <2>1. Leave(c, "EINTR", AnyResult) /\ CountDown /\ "EINTR" \in Status
    BY <1>4 DEF CallInterrupted, Status
  <2>2. UNCHANGED <<requests, replys>> /\ corrupt' \in BOOLEAN
    BY <1>4 DEF CallInterrupted
  <2> QED
    BY <2>1, <2>2, AnyInSets, ReturnType
<1>5. CASE CallSignalled(c)
  <2> DEFINE d == vmsg[c].dev
  <2>1. \/ /\ requests' = [requests EXCEPT ![d] = INSQUE(@, SignalMsg(c))]
           /\ Leave(c, "EINTR", AnyResult) /\ CountDown
        \/ /\ Leave(c, "ENOMEM", AnyResult)
           /\ UNCHANGED <<requests, closer, outstanding_upcalls>>
    BY <1>5 DEF CallSignalled
  <2>2. corrupt' \in BOOLEAN /\ replys' = replys
    BY <1>5 DEF CallSignalled
  <2>3. d \in Devs /\ requests[d] \in Seq(Message)
    BY DEF TypeOK, Vmsg
  <2>4. INSQUE(requests[d], SignalMsg(c)) \in Seq(Message)
    BY <2>3, MessageTypes DEF INSQUE
  <2>5. requests' \in [Devs -> Seq(Message)]
    BY <2>1, <2>3, <2>4 DEF TypeOK
  <2>6. \E s \in Status : Leave(c, s, AnyResult)
    BY <2>1 DEF Status
  <2>7. /\ outstanding_upcalls' \in Nat
        /\ closer' \in [Devs -> {"none", "asleep", "ready", "panic"}]
    BY <2>1, CountDownType DEF TypeOK
  <2> QED
    BY <2>2, <2>5, <2>6, <2>7, AnyInSets, LeaveType DEF Leave, TypeOK
<1>6. CASE CallOrphaned(c)
  <2>1. Leave(c, "ENODEV", AnyResult) /\ CountDown /\ "ENODEV" \in Status
    BY <1>6 DEF CallOrphaned, Status
  <2>2. UNCHANGED <<requests, replys>> /\ corrupt' \in BOOLEAN
    BY <1>6 DEF CallOrphaned, TypeOK
  <2> QED
    BY <2>1, <2>2, AnyInSets, ReturnType
<1> QED
  BY <1>1, <1>2, <1>3, <1>4, <1>5, <1>6 DEF CallReturn

LEMMA NextType == TypeOK /\ [Next]_vars => TypeOK'
<1> SUFFICES ASSUME TypeOK, [Next]_vars PROVE TypeOK'
  OBVIOUS
<1>1. CASE UNCHANGED vars
  BY <1>1 DEF vars, TypeOK
<1>2. CASE Next
  BY <1>2, DeviceType, WriteType, CallType DEF Next, VenusStep
<1> QED
  BY <1>1, <1>2

\* Every variable keeps its type, whatever Venus and the scheduler do.
THEOREM UpcallTypeOK == Safe => []TypeOK
<1> QED
  BY InitType, NextType, PTL DEF Safe

-----------------------------------------------------------------------------
(* A reply goes to the call it answers.                                    *)

LEMMA InitMatch == Init => MatchInv
<1> SUFFICES ASSUME Init PROVE MatchInv
  OBVIOUS
<1>1. TypeOK
  BY InitType
<1>2. QueueInv
  BY DEF Init, QueueInv
<1>3. AnswerInv /\ SignalInv /\ UniqueCalls
  BY DEF Init, AnswerInv, SignalInv, UniqueCalls
<1>4. RepliesMatch
  BY DEF Init, RepliesMatch, Return
<1> QED
  BY <1>1, <1>2, <1>3, <1>4 DEF MatchInv

\* Steps that touch neither queues nor messages nor answers.
LEMMA FrameMatch ==
  ASSUME MatchInv, TypeOK',
         UNCHANGED <<requests, replys, vmsg, pc, vc_seq, written>>,
         \A c \in Callers : ret'[c] = ret[c] \/ ret'[c].status # "ok"
  PROVE  MatchInv'
<1>1. QueueInv'
  BY DEF MatchInv, QueueInv, Expects
<1>2. AnswerInv' /\ SignalInv' /\ UniqueCalls'
  BY DEF MatchInv, AnswerInv, SignalInv, UniqueCalls
<1>3. RepliesMatch'
  BY DEF MatchInv, RepliesMatch
<1> QED
  BY <1>1, <1>2, <1>3 DEF MatchInv

LEMMA OpenMatch ==
  ASSUME MatchInv, TypeOK', NEW d \in Devs, VcOpen(d)
  PROVE  MatchInv'
<1>1. /\ requests' = [requests EXCEPT ![d] = <<>>]
      /\ replys' = [replys EXCEPT ![d] = <<>>]
      /\ UNCHANGED <<vmsg, pc, vc_seq, written, ret>>
  BY DEF VcOpen, SeqAtOpen
<1>2. requests \in [Devs -> Seq(Message)] /\ replys \in [Devs -> Seq(Message)]
  BY DEF MatchInv, TypeOK
<1>3. QueueInv'
  BY <1>1, <1>2 DEF MatchInv, QueueInv, Expects
<1>4. AnswerInv' /\ UniqueCalls' /\ RepliesMatch'
  BY <1>1 DEF MatchInv, AnswerInv, UniqueCalls, RepliesMatch
<1>5. SignalInv'
  BY <1>1, <1>2 DEF MatchInv, SignalInv
<1> QED
  BY <1>3, <1>4, <1>5 DEF MatchInv

\* What steps do that neither start a call nor accept a reply.
NoNewCalls ==
  /\ \A b \in Callers : pc'[b] # "idle" =>
       /\ pc[b] # "idle"
       /\ vmsg'[b].dev = vmsg[b].dev /\ vmsg'[b].unique = vmsg[b].unique
       /\ vmsg'[b].result = vmsg[b].result /\ vmsg'[b].write = vmsg[b].write
  /\ UNCHANGED <<vc_seq, written>>

LEMMA CallsFrame ==
  ASSUME MatchInv, NoNewCalls
  PROVE  AnswerInv' /\ UniqueCalls'
<1>1. AnswerInv'
  BY DEF NoNewCalls, MatchInv, AnswerInv
<1>2. UniqueCalls'
  BY DEF NoNewCalls, MatchInv, UniqueCalls
<1> QED
  BY <1>1, <1>2

\* No signal is queued that was not queued before.
LEMMA SignalFrame ==
  ASSUME MatchInv, NoNewCalls,
         \A e \in Devs : \A i \in DOMAIN requests'[e] :
           \E k \in DOMAIN requests[e] : requests'[e][i] = requests[e][k]
  PROVE  SignalInv'
<1> SUFFICES ASSUME NEW e \in Devs, NEW i \in DOMAIN requests'[e],
                    ~IsCall(requests'[e][i])
             PROVE  /\ requests'[e][i].unique \in 1..vc_seq'[e]
                    /\ \A c \in Callers : pc'[c] # "idle" /\ vmsg'[c].dev = e
                         => vmsg'[c].unique # requests'[e][i].unique
                    /\ \A w \in written' : w.dev = e
                         => w.unique # requests'[e][i].unique
  BY DEF SignalInv, IsCall
<1>1. PICK k \in DOMAIN requests[e] : requests'[e][i] = requests[e][k]
  OBVIOUS
<1>2. ~IsCall(requests[e][k])
  BY <1>1
<1>3. /\ requests[e][k].unique \in 1..vc_seq[e]
      /\ \A c \in Callers : pc[c] # "idle" /\ vmsg[c].dev = e
           => vmsg[c].unique # requests[e][k].unique
      /\ \A w \in written : w.dev = e => w.unique # requests[e][k].unique
  BY <1>2 DEF MatchInv, SignalInv
<1> QED
  BY <1>1, <1>3 DEF NoNewCalls

\* The parts of QueueInv, about one message or one pair of messages.
LEMMA QueueFacts ==
  ASSUME MatchInv, NEW e \in Devs
  PROVE  /\ \A i \in DOMAIN requests[e] :
              /\ requests[e][i] \in Message /\ requests[e][i].caller \in Callers
              /\ IsCall(requests[e][i]) => Expects(e, requests[e][i], FALSE)
         /\ \A i \in DOMAIN replys[e] :
              /\ replys[e][i] \in Message /\ replys[e][i].caller \in Callers
              /\ Expects(e, replys[e][i], TRUE)
         /\ \A i, j \in DOMAIN requests[e] :
              IsCall(requests[e][i]) /\ requests[e][i] = requests[e][j] => i = j
         /\ \A i, j \in DOMAIN replys[e] :
              replys[e][i].caller = replys[e][j].caller => i = j
<1>1. requests[e] \in Seq(Message) /\ replys[e] \in Seq(Message)
  BY DEF MatchInv, TypeOK
<1>2. \A m \in Message : m.caller \in Callers
  BY DEF Message
<1>3. /\ \A i \in DOMAIN requests[e] : requests[e][i] \in Message
      /\ \A i \in DOMAIN replys[e] : replys[e][i] \in Message
  BY <1>1
<1> QED
  BY <1>2, <1>3 DEF MatchInv, QueueInv

\* Two messages for the same call of the same caller are equal.
LEMMA SameCall ==
  ASSUME NEW m \in Message, NEW n \in Message, NEW d, NEW e,
         IsCall(m), IsCall(n), m.caller = n.caller,
         Expects(d, m, FALSE), Expects(e, n, FALSE)
  PROVE  m = n /\ d = e
BY DEF Message, IsCall, Expects

\* Whose call waits unread is on no reply queue.
LEMMA ReadOrNot ==
  ASSUME NEW m, NEW n, NEW d, NEW e, Expects(d, m, FALSE), Expects(e, n, TRUE)
  PROVE  m.caller # n.caller
BY DEF Expects

\* QueueInv in the next state, unfolded.
LEMMA QueueIntro ==
  ASSUME ASSUME NEW e \in Devs, NEW i \in DOMAIN requests'[e], IsCall(requests'[e][i])
         PROVE  /\ pc'[requests'[e][i].caller] = "asleep"
                /\ vmsg'[requests'[e][i].caller].dev = e
                /\ vmsg'[requests'[e][i].caller].unique = requests'[e][i].unique
                /\ vmsg'[requests'[e][i].caller].read = FALSE
                /\ ~vmsg'[requests'[e][i].caller].write,
         ASSUME NEW e \in Devs, NEW i \in DOMAIN replys'[e]
         PROVE  /\ pc'[replys'[e][i].caller] = "asleep"
                /\ vmsg'[replys'[e][i].caller].dev = e
                /\ vmsg'[replys'[e][i].caller].unique = replys'[e][i].unique
                /\ vmsg'[replys'[e][i].caller].read = TRUE
                /\ ~vmsg'[replys'[e][i].caller].write,
         ASSUME NEW e \in Devs, NEW i \in DOMAIN requests'[e],
                NEW j \in DOMAIN requests'[e],
                IsCall(requests'[e][i]), requests'[e][i] = requests'[e][j]
         PROVE  i = j,
         ASSUME NEW e \in Devs, NEW i \in DOMAIN replys'[e],
                NEW j \in DOMAIN replys'[e],
                replys'[e][i].caller = replys'[e][j].caller
         PROVE  i = j
  PROVE  QueueInv'
<1>1. \A e \in Devs : \A i \in DOMAIN requests'[e] : requests'[e][i].op = "call" =>
        /\ pc'[requests'[e][i].caller] = "asleep"
        /\ vmsg'[requests'[e][i].caller].dev = e
        /\ vmsg'[requests'[e][i].caller].unique = requests'[e][i].unique
        /\ vmsg'[requests'[e][i].caller].read = FALSE
        /\ ~vmsg'[requests'[e][i].caller].write
  BY DEF IsCall
<1>2. \A e \in Devs : \A i \in DOMAIN replys'[e] :
        /\ pc'[replys'[e][i].caller] = "asleep"
        /\ vmsg'[replys'[e][i].caller].dev = e
        /\ vmsg'[replys'[e][i].caller].unique = replys'[e][i].unique
        /\ vmsg'[replys'[e][i].caller].read = TRUE
        /\ ~vmsg'[replys'[e][i].caller].write
  OBVIOUS
<1>3. \A e \in Devs : \A i, j \in DOMAIN requests'[e] :
        requests'[e][i].op = "call" /\ requests'[e][i] = requests'[e][j] => i = j
  BY DEF IsCall
<1>4. \A e \in Devs : \A i, j \in DOMAIN replys'[e] :
        replys'[e][i].caller = replys'[e][j].caller => i = j
  OBVIOUS
<1> QED
  BY <1>1, <1>2, <1>3, <1>4 DEF QueueInv, Expects, IsCall

\* Reading the message at the head of a request queue.
LEMMA ReadMatch ==
  ASSUME MatchInv, TypeOK', NEW d \in Devs, VcRead(d)
  PROVE  MatchInv'
<1>1. /\ requests \in [Devs -> Seq(Message)] /\ replys \in [Devs -> Seq(Message)]
      /\ vmsg \in [Callers -> Vmsg]
      /\ requests[d] # <<>>
  BY DEF MatchInv, TypeOK, VcRead
<1>2. /\ 1 \in DOMAIN requests[d] /\ Head(requests[d]) = requests[d][1]
      /\ Head(requests[d]) \in Message
      /\ DOMAIN Tail(requests[d]) = 1..(Len(requests[d]) - 1)
      /\ \A i \in DOMAIN Tail(requests[d]) :
           i + 1 \in DOMAIN requests[d] /\ Tail(requests[d])[i] = requests[d][i + 1]
  BY <1>1
<1>3. PICK m \in Message : m = Head(requests[d])
  BY <1>2
<1>4. requests' = [requests EXCEPT ![d] = Tail(requests[d])]
  BY DEF VcRead
<1>5. UNCHANGED <<pc, ret, written, vc_seq>>
  BY DEF VcRead
<1>6. \A e \in Devs : \A i \in DOMAIN requests'[e] :
        /\ i \in Nat
        /\ (IF e = d THEN i + 1 ELSE i) \in DOMAIN requests[e]
        /\ requests'[e][i] = requests[e][IF e = d THEN i + 1 ELSE i]
        /\ e = d => i + 1 # 1
  BY <1>1, <1>2, <1>4
<1>7. CASE IsCall(m)
  <2>1. PICK c \in Callers : c = m.caller
    BY DEF Message
  <2>2. /\ vmsg' = [vmsg EXCEPT ![c].read = TRUE]
        /\ replys' = [replys EXCEPT ![d] = Append(replys[d], m)]
    BY <1>3, <1>7, <2>1 DEF VcRead, INSQUE
  <2>3. Expects(d, m, FALSE)
    <3>1. m = requests[d][1] /\ 1 \in DOMAIN requests[d]
      BY <1>2, <1>3
    <3>2. IsCall(requests[d][1])
      BY <1>7, <3>1
    <3>3. Expects(d, requests[d][1], FALSE)
      BY <3>1, <3>2, QueueFacts
    <3> QED
      BY <3>1, <3>3
  <2>4. /\ \A b \in Callers : /\ vmsg'[b].dev = vmsg[b].dev
                              /\ vmsg'[b].unique = vmsg[b].unique
                              /\ vmsg'[b].result = vmsg[b].result
                              /\ vmsg'[b].write = vmsg[b].write
                              /\ b # c => vmsg'[b] = vmsg[b]
        /\ vmsg'[c].read = TRUE
    BY <1>1, <2>2 DEF Vmsg
  <2>5. NoNewCalls
    BY <1>5, <2>4 DEF NoNewCalls
  <2>6. RepliesMatch'
    BY <1>5 DEF MatchInv, RepliesMatch
  <2>7. AnswerInv' /\ UniqueCalls' /\ SignalInv'
    BY <1>6, <2>5, CallsFrame, SignalFrame
  <2>8. \A e \in Devs : \A k \in DOMAIN requests[e] :
          IsCall(requests[e][k]) /\ (e = d => k # 1) => requests[e][k].caller # c
    <3> SUFFICES ASSUME NEW e \in Devs, NEW k \in DOMAIN requests[e],
                        IsCall(requests[e][k]), e = d => k # 1,
                        requests[e][k].caller = c
                 PROVE  FALSE
      OBVIOUS
    <3>1. requests[e][k] \in Message /\ Expects(e, requests[e][k], FALSE)
      BY QueueFacts
    <3>2. requests[e][k] = m /\ e = d
      BY <1>7, <2>1, <2>3, <3>1, SameCall
    <3>3. k = 1
      BY <1>2, <1>3, <1>7, <3>2, QueueFacts
    <3> QED
      BY <3>2, <3>3
  <2>9. \A e \in Devs : \A k \in DOMAIN replys[e] : replys[e][k].caller # c
    BY <2>1, <2>3, QueueFacts, ReadOrNot
  <2>10. \A e \in Devs : \A i \in DOMAIN replys'[e] :
           \/ i \in DOMAIN replys[e] /\ replys'[e][i] = replys[e][i]
           \/ e = d /\ i = Len(replys[d]) + 1 /\ replys'[e][i] = m
    BY <1>1, <2>2
  <2>11. ASSUME NEW e \in Devs, NEW i \in DOMAIN requests'[e], IsCall(requests'[e][i])
         PROVE  /\ pc'[requests'[e][i].caller] = "asleep"
                /\ vmsg'[requests'[e][i].caller].dev = e
                /\ vmsg'[requests'[e][i].caller].unique = requests'[e][i].unique
                /\ vmsg'[requests'[e][i].caller].read = FALSE
                /\ ~vmsg'[requests'[e][i].caller].write
    <3>1. PICK k \in DOMAIN requests[e] :
            requests'[e][i] = requests[e][k] /\ (e = d => k # 1)
      BY <1>6
    <3>2. PICK n \in Message : n = requests[e][k]
      BY QueueFacts
    <3>3. /\ n.caller # c /\ n.caller \in Callers /\ Expects(e, n, FALSE)
          /\ n = requests'[e][i]
      BY <2>8, <2>11, <3>1, <3>2, QueueFacts
    <3>4. vmsg'[n.caller] = vmsg[n.caller]
      BY <2>4, <3>3
    <3> QED
      BY <1>5, <3>3, <3>4 DEF Expects
  <2>12. ASSUME NEW e \in Devs, NEW i \in DOMAIN replys'[e]
         PROVE  /\ pc'[replys'[e][i].caller] = "asleep"
                /\ vmsg'[replys'[e][i].caller].dev = e
                /\ vmsg'[replys'[e][i].caller].unique = replys'[e][i].unique
                /\ vmsg'[replys'[e][i].caller].read = TRUE
                /\ ~vmsg'[replys'[e][i].caller].write
    <3>1. CASE i \in DOMAIN replys[e] /\ replys'[e][i] = replys[e][i]
      <4>1. PICK n \in Message : n = replys[e][i]
        BY <3>1, QueueFacts
      <4>2. n.caller # c /\ n.caller \in Callers /\ Expects(e, n, TRUE)
        BY <2>9, <3>1, <4>1, QueueFacts
      <4>3. vmsg'[n.caller] = vmsg[n.caller]
        BY <2>4, <4>2
      <4> QED
        BY <1>5, <3>1, <4>1, <4>2, <4>3 DEF Expects
    <3>2. CASE e = d /\ replys'[e][i] = m
      BY <1>5, <2>1, <2>3, <2>4, <3>2 DEF Expects
    <3> QED
      BY <2>10, <3>1, <3>2
  <2>13. ASSUME NEW e \in Devs, NEW i \in DOMAIN requests'[e],
                NEW j \in DOMAIN requests'[e],
                IsCall(requests'[e][i]), requests'[e][i] = requests'[e][j]
         PROVE  i = j
    <3>1. PICK k \in DOMAIN requests[e] : /\ k = (IF e = d THEN i + 1 ELSE i)
                                          /\ requests'[e][i] = requests[e][k]
      BY <1>6
    <3>2. PICK l \in DOMAIN requests[e] : /\ l = (IF e = d THEN j + 1 ELSE j)
                                          /\ requests'[e][j] = requests[e][l]
      BY <1>6
    <3>3. k = l
      BY <2>13, <3>1, <3>2, QueueFacts
    <3> QED
      BY <1>6, <3>1, <3>2, <3>3
  <2>14. ASSUME NEW e \in Devs, NEW i \in DOMAIN replys'[e],
                NEW j \in DOMAIN replys'[e],
                replys'[e][i].caller = replys'[e][j].caller
         PROVE  i = j
    <3>1. CASE i \in DOMAIN replys[e] /\ replys'[e][i] = replys[e][i]
      BY <2>1, <2>9, <2>10, <2>14, <3>1, QueueFacts
    <3>2. CASE e = d /\ i = Len(replys[d]) + 1 /\ replys'[e][i] = m
      BY <2>1, <2>9, <2>10, <2>14, <3>2
    <3> QED
      BY <2>10, <3>1, <3>2
  <2>15. QueueInv'
    BY <2>11, <2>12, <2>13, <2>14, QueueIntro
  <2> QED
    BY <2>6, <2>7, <2>15 DEF MatchInv
<1>8. CASE ~IsCall(m)
  <2>1. UNCHANGED <<vmsg, replys>>
    BY <1>3, <1>8 DEF VcRead
  <2>2. QueueInv'
    BY <1>1, <1>2, <1>4, <1>5, <2>1 DEF MatchInv, QueueInv, Expects
  <2>3. NoNewCalls /\ RepliesMatch'
    BY <1>5, <2>1 DEF NoNewCalls, MatchInv, RepliesMatch
  <2>4. AnswerInv' /\ UniqueCalls' /\ SignalInv'
    BY <1>6, <2>3, CallsFrame, SignalFrame
  <2> QED
    BY <2>2, <2>3, <2>4 DEF MatchInv
<1> QED
  BY <1>7, <1>8

\* A caller that is not asleep has no message on a queue: its return, or its
\* next call, leaves what the others wait for alone.
LEMMA NotAsleep ==
  ASSUME MatchInv, NEW c \in Callers, pc[c] # "asleep", NEW e \in Devs
  PROVE  /\ \A i \in DOMAIN requests[e] :
              IsCall(requests[e][i]) => requests[e][i].caller # c
         /\ \A i \in DOMAIN replys[e] : replys[e][i].caller # c
<1>1. ASSUME NEW i \in DOMAIN requests[e], IsCall(requests[e][i])
      PROVE  requests[e][i].caller # c
  <2>1. Expects(e, requests[e][i], FALSE)
    BY <1>1, QueueFacts
  <2> QED
    BY <2>1 DEF Expects
<1>2. ASSUME NEW i \in DOMAIN replys[e]
      PROVE  replys[e][i].caller # c
  <2>1. Expects(e, replys[e][i], TRUE)
    BY QueueFacts
  <2> QED
    BY <2>1 DEF Expects
<1> QED
  BY <1>1, <1>2

\* c alone changes; requests gains at most one message, which is c's.
LEMMA OneMoves ==
  ASSUME MatchInv, NEW c \in Callers, pc[c] # "asleep",
         UNCHANGED replys,
         \A b \in Callers : b # c => pc'[b] = pc[b] /\ vmsg'[b] = vmsg[b],
         NEW d \in Devs, NEW m \in Message, m.caller = c,
         requests' \in {requests, [requests EXCEPT ![d] = Append(requests[d], m)]},
         requests' # requests /\ IsCall(m) =>
           /\ pc'[c] = "asleep" /\ vmsg'[c].dev = d /\ vmsg'[c].unique = m.unique
           /\ vmsg'[c].read = FALSE /\ ~vmsg'[c].write
  PROVE  QueueInv'
<1>1. requests \in [Devs -> Seq(Message)]
  BY DEF MatchInv, TypeOK
<1>2. \A e \in Devs : \A i \in DOMAIN requests'[e] :
        \/ i \in DOMAIN requests[e] /\ requests'[e][i] = requests[e][i]
        \/ /\ e = d /\ i = Len(requests[d]) + 1 /\ requests'[e][i] = m
           /\ requests' # requests
  <2>1. CASE requests' = requests
    BY <2>1
  <2>2. CASE /\ requests' = [requests EXCEPT ![d] = Append(requests[d], m)]
             /\ requests' # requests
    BY <1>1, <2>2
  <2> QED
    BY <2>1, <2>2
<1>3. ASSUME NEW e \in Devs, NEW i \in DOMAIN requests'[e], IsCall(requests'[e][i])
      PROVE  /\ pc'[requests'[e][i].caller] = "asleep"
             /\ vmsg'[requests'[e][i].caller].dev = e
             /\ vmsg'[requests'[e][i].caller].unique = requests'[e][i].unique
             /\ vmsg'[requests'[e][i].caller].read = FALSE
             /\ ~vmsg'[requests'[e][i].caller].write
  <2>1. CASE i \in DOMAIN requests[e] /\ requests'[e][i] = requests[e][i]
    <3>1. PICK n \in Message : n = requests[e][i]
      BY <2>1, QueueFacts
    <3>2. n.caller # c /\ n.caller \in Callers /\ Expects(e, n, FALSE)
      BY <1>3, <2>1, <3>1, QueueFacts, NotAsleep
    <3> QED
      BY <2>1, <3>1, <3>2 DEF Expects
  <2>2. CASE e = d /\ requests'[e][i] = m /\ requests' # requests
    BY <1>3, <2>2
  <2> QED
    BY <1>2, <2>1, <2>2
<1>4. ASSUME NEW e \in Devs, NEW i \in DOMAIN replys'[e]
      PROVE  /\ pc'[replys'[e][i].caller] = "asleep"
             /\ vmsg'[replys'[e][i].caller].dev = e
             /\ vmsg'[replys'[e][i].caller].unique = replys'[e][i].unique
             /\ vmsg'[replys'[e][i].caller].read = TRUE
             /\ ~vmsg'[replys'[e][i].caller].write
  <2>1. i \in DOMAIN replys[e] /\ replys'[e][i] = replys[e][i]
    OBVIOUS
  <2>2. PICK n \in Message : n = replys[e][i]
    BY <2>1, QueueFacts
  <2>3. n.caller # c
    BY <2>1, <2>2, NotAsleep
  <2>4. n.caller \in Callers /\ Expects(e, n, TRUE)
    BY <2>1, <2>2, QueueFacts
  <2> QED
    BY <2>1, <2>2, <2>3, <2>4 DEF Expects
<1>5. ASSUME NEW e \in Devs, NEW i \in DOMAIN requests'[e],
             NEW j \in DOMAIN requests'[e],
             IsCall(requests'[e][i]), requests'[e][i] = requests'[e][j]
      PROVE  i = j
  <2>1. ASSUME NEW k \in DOMAIN requests[e], IsCall(requests[e][k])
        PROVE  requests[e][k] # m
    BY <2>1, NotAsleep
  <2>2. CASE i \in DOMAIN requests[e] /\ requests'[e][i] = requests[e][i]
    <3>1. IsCall(requests[e][i]) /\ requests[e][i] = requests'[e][j]
      BY <1>5, <2>2
    <3>2. requests[e][i] # m
      BY <2>1, <2>2, <3>1
    <3>3. j \in DOMAIN requests[e] /\ requests'[e][j] = requests[e][j]
      BY <1>2, <3>1, <3>2
    <3> QED
      BY <2>2, <3>1, <3>3, QueueFacts
  <2>3. CASE e = d /\ i = Len(requests[d]) + 1 /\ requests'[e][i] = m
    BY <1>2, <1>5, <2>1, <2>3
  <2> QED
    BY <1>2, <2>2, <2>3
<1>6. ASSUME NEW e \in Devs, NEW i \in DOMAIN replys'[e],
             NEW j \in DOMAIN replys'[e],
             replys'[e][i].caller = replys'[e][j].caller
      PROVE  i = j
  BY <1>6, QueueFacts
<1> QED
  BY <1>3, <1>4, <1>5, <1>6, QueueIntro

\* The caller of a message taken off the reply queue was on no queue but there.
LEMMA TakeOffQueue ==
  ASSUME MatchInv, NEW d \in Devs, NEW i \in DOMAIN replys[d], TakeOff(d, i),
         UNCHANGED requests,
         \A b \in Callers : b # replys[d][i].caller
                              => pc'[b] = pc[b] /\ vmsg'[b] = vmsg[b]
  PROVE  QueueInv'
<1>1. PICK c \in Callers : c = replys[d][i].caller
  BY QueueFacts
<1>2. Expects(d, replys[d][i], TRUE) /\ replys[d][i] \in Message
  BY QueueFacts
<1>3. /\ replys \in [Devs -> Seq(Message)] /\ replys[d] \in Seq(Message)
      /\ i \in Nat /\ Len(replys[d]) \in Nat
  BY DEF MatchInv, TypeOK
<1>4. replys' = [replys EXCEPT ![d] = REMQUE(replys[d], i)]
  BY DEF TakeOff
<1>5. \A e \in Devs : \A j \in DOMAIN replys'[e] :
        /\ j \in Nat
        /\ (IF e = d /\ j >= i THEN j + 1 ELSE j) \in DOMAIN replys[e]
        /\ replys'[e][j] = replys[e][IF e = d /\ j >= i THEN j + 1 ELSE j]
        /\ e = d => (IF e = d /\ j >= i THEN j + 1 ELSE j) # i
  <2>1. /\ DOMAIN REMQUE(replys[d], i) = 1..(Len(replys[d]) - 1)
        /\ \A j \in DOMAIN REMQUE(replys[d], i) :
             /\ j < i => /\ j \in DOMAIN replys[d]
                         /\ REMQUE(replys[d], i)[j] = replys[d][j]
             /\ j >= i => /\ j + 1 \in DOMAIN replys[d]
                          /\ REMQUE(replys[d], i)[j] = replys[d][j + 1]
    BY <1>3, RemqueType
  <2>2. TAKE e \in Devs
  <2>3. CASE e = d
    BY <1>3, <1>4, <2>1, <2>3
  <2>4. CASE e # d
    BY <1>3, <1>4, <2>4
  <2> QED
    BY <2>3, <2>4
<1>6. \A e \in Devs : \A k \in DOMAIN replys[e] :
        (e = d => k # i) => replys[e][k].caller # c
  <2> SUFFICES ASSUME NEW e \in Devs, NEW k \in DOMAIN replys[e],
                      e = d => k # i, replys[e][k].caller = c
               PROVE  FALSE
    OBVIOUS
  <2>1. Expects(e, replys[e][k], TRUE)
    BY QueueFacts
  <2>2. e = d
    BY <1>1, <1>2, <2>1 DEF Expects
  <2> QED
    BY <1>1, <2>2, QueueFacts
<1>7. \A e \in Devs : \A k \in DOMAIN requests[e] :
        IsCall(requests[e][k]) => requests[e][k].caller # c
  BY <1>1, <1>2, QueueFacts, ReadOrNot
<1>8. ASSUME NEW e \in Devs, NEW k \in DOMAIN requests'[e], IsCall(requests'[e][k])
      PROVE  /\ pc'[requests'[e][k].caller] = "asleep"
             /\ vmsg'[requests'[e][k].caller].dev = e
             /\ vmsg'[requests'[e][k].caller].unique = requests'[e][k].unique
             /\ vmsg'[requests'[e][k].caller].read = FALSE
             /\ ~vmsg'[requests'[e][k].caller].write
  <2>1. PICK n \in Message : n = requests[e][k]
    BY QueueFacts
  <2>2. n.caller # c /\ n.caller \in Callers /\ Expects(e, n, FALSE)
    BY <1>7, <1>8, <2>1, QueueFacts
  <2> QED
    BY <1>1, <2>1, <2>2 DEF Expects
<1>9. ASSUME NEW e \in Devs, NEW j \in DOMAIN replys'[e]
      PROVE  /\ pc'[replys'[e][j].caller] = "asleep"
             /\ vmsg'[replys'[e][j].caller].dev = e
             /\ vmsg'[replys'[e][j].caller].unique = replys'[e][j].unique
             /\ vmsg'[replys'[e][j].caller].read = TRUE
             /\ ~vmsg'[replys'[e][j].caller].write
  <2>1. PICK k \in DOMAIN replys[e] : replys'[e][j] = replys[e][k] /\ (e = d => k # i)
    BY <1>5
  <2>2. PICK n \in Message : n = replys[e][k]
    BY QueueFacts
  <2>3. n.caller # c /\ n.caller \in Callers /\ Expects(e, n, TRUE)
    BY <1>6, <2>1, <2>2, QueueFacts
  <2> QED
    BY <1>1, <2>1, <2>2, <2>3 DEF Expects
<1>10. ASSUME NEW e \in Devs, NEW k \in DOMAIN requests'[e],
              NEW l \in DOMAIN requests'[e],
              IsCall(requests'[e][k]), requests'[e][k] = requests'[e][l]
       PROVE  k = l
  BY <1>10, QueueFacts
<1>11. ASSUME NEW e \in Devs, NEW k \in DOMAIN replys'[e], NEW l \in DOMAIN replys'[e],
              replys'[e][k].caller = replys'[e][l].caller
       PROVE  k = l
  <2>1. (IF e = d /\ k >= i THEN k + 1 ELSE k) = (IF e = d /\ l >= i THEN l + 1 ELSE l)
    <3>1. PICK a \in DOMAIN replys[e] :
            /\ a = (IF e = d /\ k >= i THEN k + 1 ELSE k)
            /\ replys'[e][k] = replys[e][a]
      BY <1>5
    <3>2. PICK b \in DOMAIN replys[e] :
            /\ b = (IF e = d /\ l >= i THEN l + 1 ELSE l)
            /\ replys'[e][l] = replys[e][b]
      BY <1>5
    <3>3. replys[e][a].caller = replys[e][b].caller
      BY <1>11, <3>1, <3>2
    <3>4. a = b
      BY <3>3, QueueFacts
    <3> QED
      BY <3>1, <3>2, <3>4
  <2>2. k \in Nat /\ l \in Nat
    BY <1>5
  <2> QED
    BY <1>3, <2>1, <2>2
<1> QED
  BY <1>8, <1>9, <1>10, <1>11, QueueIntro

\* A reply that Venus fails to deliver takes the message off the queue and
\* changes no call.
LEMMA LostReplyMatch ==
  ASSUME MatchInv, TypeOK', NEW d \in Devs, NEW i \in DOMAIN replys[d],
         TakeOff(d, i),
         UNCHANGED <<requests, vmsg, vc_seq, written, ret>>,
         pc' = pc \/ Wakeup({replys[d][i].caller})
  PROVE  MatchInv'
<1>1. /\ pc \in [Callers -> {"idle", "asleep", "woken"}]
      /\ \A b \in Callers : b # replys[d][i].caller => pc'[b] = pc[b]
  BY DEF MatchInv, TypeOK, Wakeup
<1>2. QueueInv'
  BY <1>1, TakeOffQueue
<1>3. \A b \in Callers : pc'[b] # "idle" => pc[b] # "idle"
  <2>1. pc[replys[d][i].caller] = "asleep"
    BY QueueFacts DEF Expects
  <2> QED
    BY <1>1, <2>1
<1>4. NoNewCalls /\ RepliesMatch'
  BY <1>3 DEF NoNewCalls, MatchInv, RepliesMatch
<1>5. AnswerInv' /\ UniqueCalls' /\ SignalInv'
  BY <1>4, CallsFrame, SignalFrame
<1> QED
  BY <1>2, <1>4, <1>5 DEF MatchInv

\* A reply that is accepted is the first for its call.
LEMMA WriteMatch ==
  ASSUME MatchInv, TypeOK', NEW d \in Devs, NEW seq \in Nat, NEW r \in Results,
         VcWrite(d, seq, r)
  PROVE  MatchInv'
<1>1. PICK i \in DOMAIN replys[d] :
        /\ replys[d][i].unique = seq
        /\ TakeOff(d, i)
        /\ vmsg' = [vmsg EXCEPT ![replys[d][i].caller].write = TRUE,
                                ![replys[d][i].caller].result = r]
        /\ Wakeup({replys[d][i].caller})
  BY DEF VcWrite, Awaiting
<1>2. /\ written' = written \cup {[dev |-> d, unique |-> seq, result |-> r]}
      /\ UNCHANGED <<requests, vc_seq, ret>>
  BY DEF VcWrite
<1>3. PICK c \in Callers : c = replys[d][i].caller
  BY QueueFacts
<1>4. /\ pc[c] = "asleep" /\ vmsg[c].dev = d /\ vmsg[c].unique = seq
      /\ ~vmsg[c].write
  BY <1>1, <1>3, QueueFacts DEF Expects
<1>5. /\ pc' = [b \in Callers |-> IF b = c THEN "woken" ELSE pc[b]]
      /\ vmsg' = [vmsg EXCEPT ![c].write = TRUE, ![c].result = r]
  BY <1>1, <1>3 DEF Wakeup
<1>6. vmsg \in [Callers -> Vmsg]
  BY DEF MatchInv, TypeOK
<1>7. /\ \A b \in Callers : b # c => pc'[b] = pc[b] /\ vmsg'[b] = vmsg[b]
      /\ pc'[c] = "woken" /\ vmsg'[c].dev = d /\ vmsg'[c].unique = seq
      /\ vmsg'[c].write = TRUE /\ vmsg'[c].result = r
  BY <1>4, <1>5, <1>6 DEF Vmsg
<1>8. QueueInv'
  BY <1>1, <1>2, <1>3, <1>7, TakeOffQueue
<1>9. \A w \in written : w.dev = d => w.unique # seq
  BY <1>4 DEF MatchInv, AnswerInv
<1>10. seq \in 1..vc_seq[d]
  BY <1>4 DEF MatchInv, UniqueCalls
<1>11. UniqueCalls'
  BY <1>2, <1>4, <1>7 DEF MatchInv, UniqueCalls
<1>12. PICK w0 : /\ w0 = [dev |-> d, unique |-> seq, result |-> r]
                 /\ w0.dev = d /\ w0.unique = seq /\ w0.result = r
                 /\ written' = written \cup {w0}
  BY <1>2
<1>13. AnswerInv'
  <2>1. ASSUME NEW b \in Callers, pc'[b] # "idle" /\ vmsg'[b].write
        PROVE  [dev |-> vmsg'[b].dev, unique |-> vmsg'[b].unique,
                result |-> vmsg'[b].result] \in written'
    <3>1. CASE b = c
      BY <1>2, <1>7, <3>1
    <3>2. CASE b # c
      BY <1>2, <1>7, <2>1, <3>2 DEF MatchInv, AnswerInv
    <3> QED
      BY <3>1, <3>2
  <2>2. \A w \in written' : w.unique \in 1..vc_seq'[w.dev]
    BY <1>2, <1>10, <1>12 DEF MatchInv, AnswerInv
  <2>3. ASSUME NEW w \in written', NEW b \in Callers,
               pc'[b] # "idle" /\ vmsg'[b].dev = w.dev /\ vmsg'[b].unique = w.unique
        PROVE  vmsg'[b].write
    <3>1. CASE b = c
      BY <1>7, <3>1
    <3>2. CASE b # c /\ w \in written
      BY <1>7, <2>3, <3>2 DEF MatchInv, AnswerInv
    <3>3. CASE b # c /\ w = w0
      BY <1>4, <1>7, <1>12, <2>3, <3>3 DEF MatchInv, UniqueCalls
    <3> QED
      BY <1>12, <3>1, <3>2, <3>3
  <2> QED
    BY <2>1, <2>2, <2>3 DEF AnswerInv
<1>14. SignalInv'
  <2> SUFFICES ASSUME NEW e \in Devs, NEW k \in DOMAIN requests[e],
                      ~IsCall(requests[e][k])
               PROVE  /\ requests[e][k].unique \in 1..vc_seq[e]
                      /\ \A b \in Callers : pc'[b] # "idle" /\ vmsg'[b].dev = e
                           => vmsg'[b].unique # requests[e][k].unique
                      /\ \A w \in written' : w.dev = e
                           => w.unique # requests[e][k].unique
    BY <1>2 DEF SignalInv, IsCall
  <2>1. /\ requests[e][k].unique \in 1..vc_seq[e]
        /\ \A b \in Callers : pc[b] # "idle" /\ vmsg[b].dev = e
             => vmsg[b].unique # requests[e][k].unique
        /\ \A w \in written : w.dev = e => w.unique # requests[e][k].unique
    BY DEF MatchInv, SignalInv
  <2> QED
    BY <1>4, <1>7, <1>12, <2>1
<1>15. RepliesMatch'
  <2>1. \A v, w \in written' : v.dev = w.dev /\ v.unique = w.unique
                                 => v.result = w.result
    BY <1>9, <1>12 DEF MatchInv, RepliesMatch
  <2>2. \A b \in Callers : ret'[b].status = "ok" =>
          [dev |-> ret'[b].dev, unique |-> ret'[b].unique,
           result |-> ret'[b].result] \in written'
    BY <1>2 DEF MatchInv, RepliesMatch
  <2> QED
    BY <2>1, <2>2 DEF RepliesMatch
<1> QED
  BY <1>8, <1>11, <1>13, <1>14, <1>15 DEF MatchInv

\* A new call has a uniquifier no message and no reply has had.
LEMMA StartMatch ==
  ASSUME MatchInv, TypeOK', NEW c \in Callers, NEW d \in Devs, CallStart(c, d)
  PROVE  MatchInv'
<1>1. /\ pc[c] = "idle"
      /\ vc_seq' = [vc_seq EXCEPT ![d] = vc_seq[d] + 1]
      /\ vmsg' = [vmsg EXCEPT ![c] = Fresh(d, vc_seq[d] + 1)]
      /\ pc' = [pc EXCEPT ![c] = "asleep"]
      /\ UNCHANGED <<replys, ret, written>>
      /\ requests' = [requests EXCEPT ![d] =
           Append(requests[d], [op |-> "call", caller |-> c,
                                unique |-> vmsg'[c].unique])]
  BY DEF CallStart, NextUnique, INSQUE, CallMsg
<1>2. /\ vc_seq \in [Devs -> Nat] /\ vmsg \in [Callers -> Vmsg]
      /\ pc \in [Callers -> {"idle", "asleep", "woken"}]
      /\ requests \in [Devs -> Seq(Message)]
  BY DEF MatchInv, TypeOK
<1>3. PICK u \in Nat : u = vc_seq[d] + 1
  BY <1>2
<1>4. /\ vmsg'[c].dev = d /\ vmsg'[c].unique = u
      /\ vmsg'[c].read = FALSE /\ vmsg'[c].write = FALSE
      /\ pc'[c] = "asleep"
      /\ \A b \in Callers : b # c => vmsg'[b] = vmsg[b] /\ pc'[b] = pc[b]
      /\ vc_seq'[d] = u
      /\ \A e \in Devs : 1..vc_seq[e] \subseteq 1..vc_seq'[e]
  BY <1>1, <1>2, <1>3 DEF Fresh
<1>5. PICK m : /\ m = [op |-> "call", caller |-> c, unique |-> u]
               /\ m.op = "call" /\ m.caller = c /\ m.unique = u
  <2> DEFINE n == [op |-> "call", caller |-> c, unique |-> u]
  <2>1. n.op = "call" /\ n.caller = c /\ n.unique = u
    OBVIOUS
  <2> HIDE DEF n
  <2> QED
    BY <2>1 DEF n
<1>6. /\ m \in Message
      /\ requests' = [requests EXCEPT ![d] = Append(requests[d], m)]
  BY <1>1, <1>4, <1>5 DEF Message
<1>7. QueueInv'
  <2>1. /\ pc[c] # "asleep" /\ UNCHANGED replys
        /\ \A b \in Callers : b # c => pc'[b] = pc[b] /\ vmsg'[b] = vmsg[b]
    BY <1>1, <1>4
  <2>2. requests' \in {requests, [requests EXCEPT ![d] = Append(requests[d], m)]}
    BY <1>6
  <2>3. requests' # requests /\ IsCall(m) =>
          /\ pc'[c] = "asleep" /\ vmsg'[c].dev = d /\ vmsg'[c].unique = m.unique
          /\ vmsg'[c].read = FALSE /\ ~vmsg'[c].write
    BY <1>4, <1>5
  <2> QED
    BY <1>5, <1>6, <2>1, <2>2, <2>3, OneMoves
<1>8. u \notin 1..vc_seq[d] /\ u \in 1..vc_seq'[d]
  <2>1. vc_seq[d] \in Nat /\ vc_seq'[d] = u
    BY <1>2, <1>4
  <2> QED
    BY <1>3, <2>1
<1>9. UniqueCalls'
  <2>1. ASSUME NEW b \in Callers, b # c, pc'[b] # "idle"
        PROVE  /\ vmsg'[b].unique \in 1..vc_seq'[vmsg'[b].dev]
               /\ vmsg'[b].dev = d => vmsg'[b].unique # u
    <3>1. vmsg[b].unique \in 1..vc_seq[vmsg[b].dev] /\ vmsg[b].dev \in Devs
      BY <1>2, <1>4, <2>1 DEF MatchInv, UniqueCalls, Vmsg
    <3> QED
      BY <1>4, <1>8, <2>1, <3>1
  <2>2. ASSUME NEW b \in Callers, NEW k \in Callers, b # c, k # c,
               pc'[b] # "idle", pc'[k] # "idle", vmsg'[b].dev = vmsg'[k].dev,
               vmsg'[b].unique = vmsg'[k].unique
        PROVE  b = k
    BY <1>4, <2>2 DEF MatchInv, UniqueCalls
  <2>3. vmsg'[c].unique \in 1..vc_seq'[vmsg'[c].dev]
    BY <1>4, <1>8
  <2> QED
    BY <1>4, <2>1, <2>2, <2>3 DEF UniqueCalls
<1>10. AnswerInv'
  <2>1. ASSUME NEW b \in Callers, pc'[b] # "idle" /\ vmsg'[b].write
        PROVE  [dev |-> vmsg'[b].dev, unique |-> vmsg'[b].unique,
                result |-> vmsg'[b].result] \in written'
    BY <1>1, <1>4, <2>1 DEF MatchInv, AnswerInv
  <2>2. \A w \in written' : w.unique \in 1..vc_seq'[w.dev]
    <3>1. \A w \in written : w.dev \in Devs
      BY DEF MatchInv, TypeOK
    <3> QED
      BY <1>1, <1>4, <3>1 DEF MatchInv, AnswerInv
  <2>3. ASSUME NEW w \in written', NEW b \in Callers,
               pc'[b] # "idle" /\ vmsg'[b].dev = w.dev /\ vmsg'[b].unique = w.unique
        PROVE  vmsg'[b].write
    <3>1. w \in written
      BY <1>1
    <3> QED
      BY <1>4, <1>8, <2>3, <3>1 DEF MatchInv, AnswerInv
  <2> QED
    BY <2>1, <2>2, <2>3 DEF AnswerInv
<1>11. SignalInv'
  <2> SUFFICES ASSUME NEW e \in Devs, NEW k \in DOMAIN requests'[e],
                      ~IsCall(requests'[e][k])
               PROVE  /\ requests'[e][k].unique \in 1..vc_seq'[e]
                      /\ \A b \in Callers : pc'[b] # "idle" /\ vmsg'[b].dev = e
                           => vmsg'[b].unique # requests'[e][k].unique
                      /\ \A w \in written : w.dev = e
                           => w.unique # requests'[e][k].unique
    BY <1>1 DEF SignalInv, IsCall
  <2>1. \/ k \in DOMAIN requests[e] /\ requests'[e][k] = requests[e][k]
        \/ requests'[e][k] = m
    BY <1>2, <1>6
  <2>2. k \in DOMAIN requests[e] /\ requests'[e][k] = requests[e][k]
    BY <1>5, <2>1 DEF IsCall
  <2>3. /\ requests[e][k].unique \in 1..vc_seq[e]
        /\ \A b \in Callers : pc[b] # "idle" /\ vmsg[b].dev = e
             => vmsg[b].unique # requests[e][k].unique
        /\ \A w \in written : w.dev = e => w.unique # requests[e][k].unique
    BY <2>2 DEF MatchInv, SignalInv
  <2> QED
    BY <1>4, <1>8, <2>2, <2>3
<1>12. RepliesMatch'
  BY <1>1 DEF MatchInv, RepliesMatch
<1> QED
  BY <1>7, <1>9, <1>10, <1>11, <1>12 DEF MatchInv

\* A thread returns from coda_call; what it has to say to Venus is a signal.
LEMMA LeaveMatch ==
  ASSUME MatchInv, TypeOK', NEW c \in Callers, pc[c] = "woken",
         NEW s, NEW r, Leave(c, s, r), UNCHANGED replys,
         s = "ok" => vmsg[c].write /\ r = vmsg[c].result,
         \/ UNCHANGED requests
         \/ ~vmsg[c].write /\
            requests' = [requests EXCEPT ![vmsg[c].dev] = Append(@, SignalMsg(c))]
  PROVE  MatchInv'
<1>1. /\ pc' = [pc EXCEPT ![c] = "idle"]
      /\ vmsg' = [vmsg EXCEPT ![c] = Freed]
      /\ ret' = [ret EXCEPT ![c] = Return(vmsg[c].dev, vmsg[c].unique, s, r)]
      /\ UNCHANGED <<vc_seq, written>>
  BY DEF Leave
<1>2. /\ vc_seq \in [Devs -> Nat] /\ vmsg \in [Callers -> Vmsg]
      /\ pc \in [Callers -> {"idle", "asleep", "woken"}]
      /\ requests \in [Devs -> Seq(Message)]
      /\ ret \in [Callers -> [dev : Devs, unique : Nat, status : Status,
                              result : Results]]
  BY DEF MatchInv, TypeOK
<1>3. /\ pc'[c] = "idle"
      /\ \A b \in Callers : b # c => vmsg'[b] = vmsg[b] /\ pc'[b] = pc[b]
                                     /\ ret'[b] = ret[b]
      /\ ret'[c] = Return(vmsg[c].dev, vmsg[c].unique, s, r)
  BY <1>1, <1>2
<1>4. PICK d \in Devs : d = vmsg[c].dev
  BY <1>2 DEF Vmsg
<1>5. PICK u \in Nat : u = vmsg[c].unique
  BY <1>2 DEF Vmsg
<1>6. PICK m : /\ m = [op |-> "signal", caller |-> c, unique |-> u]
               /\ m.op = "signal" /\ m.caller = c /\ m.unique = u
  <2> DEFINE n == [op |-> "signal", caller |-> c, unique |-> u]
  <2>1. n.op = "signal" /\ n.caller = c /\ n.unique = u
    OBVIOUS
  <2> HIDE DEF n
  <2> QED
    BY <2>1 DEF n
<1>7. m \in Message
  BY <1>6 DEF Message
<1>8. \/ requests' = requests
      \/ /\ ~vmsg[c].write
         /\ requests' = [requests EXCEPT ![d] = Append(requests[d], m)]
  BY <1>4, <1>5, <1>6 DEF SignalMsg
<1>9. QueueInv'
  <2>1. /\ pc[c] # "asleep" /\ ~IsCall(m)
        /\ \A b \in Callers : b # c => pc'[b] = pc[b] /\ vmsg'[b] = vmsg[b]
    BY <1>3, <1>6 DEF IsCall
  <2>2. requests' \in {requests, [requests EXCEPT ![d] = Append(requests[d], m)]}
    BY <1>8
  <2> QED
    BY <1>6, <1>7, <2>1, <2>2, OneMoves
<1>10. NoNewCalls
  BY <1>1, <1>3 DEF NoNewCalls
<1>11. AnswerInv' /\ UniqueCalls'
  BY <1>10, CallsFrame
<1>12. SignalInv'
  <2>1. CASE requests' = requests
    BY <1>10, <2>1, SignalFrame
  <2>2. CASE /\ ~vmsg[c].write
             /\ requests' = [requests EXCEPT ![d] = Append(requests[d], m)]
    <3> SUFFICES ASSUME NEW e \in Devs, NEW k \in DOMAIN requests'[e],
                        ~IsCall(requests'[e][k])
                 PROVE  /\ requests'[e][k].unique \in 1..vc_seq[e]
                        /\ \A b \in Callers : pc'[b] # "idle" /\ vmsg'[b].dev = e
                             => vmsg'[b].unique # requests'[e][k].unique
                        /\ \A w \in written : w.dev = e
                             => w.unique # requests'[e][k].unique
      BY <1>1 DEF SignalInv, IsCall
    <3>1. \/ k \in DOMAIN requests[e] /\ requests'[e][k] = requests[e][k]
          \/ e = d /\ requests'[e][k] = m
      BY <1>2, <2>2
    <3>2. CASE k \in DOMAIN requests[e] /\ requests'[e][k] = requests[e][k]
      <4>1. /\ requests[e][k].unique \in 1..vc_seq[e]
            /\ \A b \in Callers : pc[b] # "idle" /\ vmsg[b].dev = e
                 => vmsg[b].unique # requests[e][k].unique
            /\ \A w \in written : w.dev = e => w.unique # requests[e][k].unique
        BY <3>2 DEF MatchInv, SignalInv
      <4> QED
        BY <1>3, <3>2, <4>1
    <3>3. CASE e = d /\ requests'[e][k] = m
      <4>1. u \in 1..vc_seq[d]
        BY <1>4, <1>5 DEF MatchInv, UniqueCalls
      <4>2. \A b \in Callers : pc'[b] # "idle" /\ vmsg'[b].dev = d
                                 => vmsg'[b].unique # u
        BY <1>3, <1>4, <1>5 DEF MatchInv, UniqueCalls
      <4>3. \A w \in written : w.dev = d => w.unique # u
        BY <1>4, <1>5, <2>2 DEF MatchInv, AnswerInv
      <4> QED
        BY <1>6, <3>3, <4>1, <4>2, <4>3
    <3> QED
      BY <3>1, <3>2, <3>3
  <2> QED
    BY <1>8, <2>1, <2>2
<1>13. RepliesMatch'
  <2>1. \A v, w \in written' : v.dev = w.dev /\ v.unique = w.unique
                                 => v.result = w.result
    BY <1>1 DEF MatchInv, RepliesMatch
  <2>2. ASSUME NEW b \in Callers, ret'[b].status = "ok"
        PROVE  [dev |-> ret'[b].dev, unique |-> ret'[b].unique,
                result |-> ret'[b].result] \in written'
    <3>1. CASE b # c
      BY <1>1, <1>3, <2>2, <3>1 DEF MatchInv, RepliesMatch
    <3>2. CASE b = c
      <4>1. /\ ret'[c].dev = vmsg[c].dev /\ ret'[c].unique = vmsg[c].unique
            /\ ret'[c].status = s /\ ret'[c].result = r
        BY <1>3 DEF Return
      <4> QED
        BY <1>1, <2>2, <3>2, <4>1 DEF MatchInv, AnswerInv
    <3> QED
      BY <3>1, <3>2
  <2> QED
    BY <2>1, <2>2 DEF RepliesMatch
<1> QED
  BY <1>9, <1>11, <1>12, <1>13 DEF MatchInv

LEMMA ReturnMatch ==
  ASSUME MatchInv, TypeOK', NEW c \in Callers, CallReturn(c)
  PROVE  MatchInv'
<1>1. CASE CallAnswered(c)
  BY <1>1, LeaveMatch DEF CallAnswered
<1>2. CASE CallInterrupted(c)
  BY <1>2, LeaveMatch DEF CallInterrupted
<1>3. CASE CallSignalled(c)
  BY <1>3, LeaveMatch DEF CallSignalled, INSQUE
<1>4. CASE CallOrphaned(c)
  BY <1>4, LeaveMatch DEF CallOrphaned
<1> QED
  BY <1>1, <1>2, <1>3, <1>4 DEF CallReturn

\* The close of a device empties its queues; who waits on another sleeps on.
LEMMA CloseMatch ==
  ASSUME MatchInv, TypeOK', NEW d \in Devs, VcClose(d)
  PROVE  MatchInv'
<1>1. /\ requests' = [requests EXCEPT ![d] = <<>>]
      /\ replys' = [replys EXCEPT ![d] = <<>>]
      /\ pc' = [c \in Callers |-> IF c \in Waiting(d) THEN "woken" ELSE pc[c]]
      /\ UNCHANGED <<vmsg, vc_seq, written, ret>>
  BY DEF VcClose, Wakeup
<1>2. /\ requests \in [Devs -> Seq(Message)] /\ replys \in [Devs -> Seq(Message)]
      /\ pc \in [Callers -> {"idle", "asleep", "woken"}]
  BY DEF MatchInv, TypeOK
<1>3. \A e \in Devs : /\ \A i \in DOMAIN requests'[e] :
                           e # d /\ requests'[e] = requests[e]
                      /\ \A i \in DOMAIN replys'[e] :
                           e # d /\ replys'[e] = replys[e]
  BY <1>1, <1>2
<1>4. ASSUME NEW c \in Waiting(d)
      PROVE  c \in Callers /\ pc[c] = "asleep" /\ vmsg[c].dev = d
  <2>1. CASE c \in On(requests[d])
    <3>1. PICK i \in DOMAIN requests[d] : requests[d][i] = CallMsg(c)
      BY <2>1 DEF On
    <3>2. IsCall(requests[d][i]) /\ requests[d][i].caller = c
      BY <3>1 DEF CallMsg, IsCall
    <3>3. Expects(d, requests[d][i], FALSE)
      BY <3>2, QueueFacts
    <3> QED
      BY <2>1, <3>2, <3>3 DEF On, Expects
  <2>2. CASE c \in On(replys[d])
    <3>1. PICK i \in DOMAIN replys[d] : replys[d][i] = CallMsg(c)
      BY <2>2 DEF On
    <3>2. replys[d][i].caller = c
      BY <3>1 DEF CallMsg
    <3>3. Expects(d, replys[d][i], TRUE)
      BY QueueFacts
    <3> QED
      BY <2>2, <3>2, <3>3 DEF On, Expects
  <2> QED
    BY <2>1, <2>2 DEF Waiting
<1>5. \A c \in Callers : /\ pc'[c] # "idle" => pc[c] # "idle"
                         /\ vmsg[c].dev # d => pc'[c] = pc[c]
  BY <1>1, <1>2, <1>4
<1>6. NoNewCalls /\ RepliesMatch'
  BY <1>1, <1>5 DEF NoNewCalls, MatchInv, RepliesMatch
<1>7. AnswerInv' /\ UniqueCalls' /\ SignalInv'
  BY <1>3, <1>6, CallsFrame, SignalFrame
<1>8. QueueInv'
  <2>1. ASSUME NEW e \in Devs, NEW i \in DOMAIN requests'[e], IsCall(requests'[e][i])
        PROVE  /\ pc'[requests'[e][i].caller] = "asleep"
               /\ vmsg'[requests'[e][i].caller].dev = e
               /\ vmsg'[requests'[e][i].caller].unique = requests'[e][i].unique
               /\ vmsg'[requests'[e][i].caller].read = FALSE
               /\ ~vmsg'[requests'[e][i].caller].write
    <3>1. PICK n \in Message : n = requests[e][i]
      BY <1>3, QueueFacts
    <3>2. e # d /\ n = requests'[e][i] /\ n.caller \in Callers /\ Expects(e, n, FALSE)
      BY <1>3, <2>1, <3>1, QueueFacts
    <3> QED
      BY <1>1, <1>5, <3>2 DEF Expects
  <2>2. ASSUME NEW e \in Devs, NEW i \in DOMAIN replys'[e]
        PROVE  /\ pc'[replys'[e][i].caller] = "asleep"
               /\ vmsg'[replys'[e][i].caller].dev = e
               /\ vmsg'[replys'[e][i].caller].unique = replys'[e][i].unique
               /\ vmsg'[replys'[e][i].caller].read = TRUE
               /\ ~vmsg'[replys'[e][i].caller].write
    <3>1. PICK n \in Message : n = replys[e][i]
      BY <1>3, QueueFacts
    <3>2. e # d /\ n = replys'[e][i] /\ n.caller \in Callers /\ Expects(e, n, TRUE)
      BY <1>3, <3>1, QueueFacts
    <3> QED
      BY <1>1, <1>5, <3>2 DEF Expects
  <2>3. ASSUME NEW e \in Devs, NEW i \in DOMAIN requests'[e],
               NEW j \in DOMAIN requests'[e],
               IsCall(requests'[e][i]), requests'[e][i] = requests'[e][j]
        PROVE  i = j
    BY <1>3, <2>3, QueueFacts
  <2>4. ASSUME NEW e \in Devs, NEW i \in DOMAIN replys'[e],
               NEW j \in DOMAIN replys'[e],
               replys'[e][i].caller = replys'[e][j].caller
        PROVE  i = j
    BY <1>3, <2>4, QueueFacts
  <2> QED
    BY <2>1, <2>2, <2>3, <2>4, QueueIntro
<1> QED
  BY <1>6, <1>7, <1>8 DEF MatchInv

LEMMA NextMatch == MatchInv /\ [Next]_vars => MatchInv'
<1> SUFFICES ASSUME MatchInv, [Next]_vars PROVE MatchInv'
  OBVIOUS
<1>1. TypeOK'
  BY NextType DEF MatchInv
<1>2. CASE UNCHANGED vars
  BY <1>1, <1>2, FrameMatch DEF vars
<1>3. ASSUME NEW d \in Devs, VenusStep(d) \/ VcCloseUnmount(d)
      PROVE  MatchInv'
  <2>1. CASE VcOpen(d)
    BY <1>1, <2>1, OpenMatch
  <2>2. CASE Mount(d) \/ VcCloseBare(d) \/ VcCloseUnmount(d)
    BY <1>1, <2>2, FrameMatch DEF Mount, VcCloseBare, VcCloseUnmount
  <2>3. CASE VcRead(d)
    BY <1>1, <2>3, ReadMatch
  <2>4. CASE VcClose(d)
    BY <1>1, <2>4, CloseMatch
  <2>5. ASSUME NEW seq \in 1..MaxCalls, VcWriteTooLong(d, seq)
        PROVE  MatchInv'
    BY <1>1, <2>5, LostReplyMatch DEF VcWriteTooLong, Awaiting
  <2>6. ASSUME NEW seq \in 1..MaxCalls, VcWriteFault(d, seq)
        PROVE  MatchInv'
    BY <1>1, <2>6, LostReplyMatch DEF VcWriteFault, Awaiting
  <2>7. ASSUME NEW seq \in 1..MaxCalls, NEW r \in Results, VcWrite(d, seq, r)
        PROVE  MatchInv'
    BY <1>1, <2>7, ConstantsAssumption, WriteMatch
  <2> QED
    BY <1>3, <2>1, <2>2, <2>3, <2>4, <2>5, <2>6, <2>7 DEF VenusStep
<1>4. ASSUME NEW c \in Callers, CallReturn(c)
      PROVE  MatchInv'
  BY <1>1, <1>4, ReturnMatch
<1>5. ASSUME NEW c \in Callers, NEW d \in Devs, CallStart(c, d)
      PROVE  MatchInv'
  BY <1>1, <1>5, StartMatch
<1>6. ASSUME NEW c \in Callers, NEW d \in Devs, CallRefused(c, d)
      PROVE  MatchInv'
  <2>1. \A b \in Callers : ret'[b] = ret[b] \/ ret'[b].status # "ok"
    <3>1. PICK t \in {"ENODEV", "ENOMEM"} :
            ret' = [ret EXCEPT ![c] = Return(d, 0, t, AnyResult)]
      BY <1>6 DEF CallRefused
    <3>2. Return(d, 0, t, AnyResult).status # "ok"
      BY DEF Return
    <3> QED
      BY <3>1, <3>2 DEF MatchInv, TypeOK
  <2> QED
    BY <1>1, <1>6, <2>1, FrameMatch DEF CallRefused
<1> QED
  BY <1>2, <1>3, <1>4, <1>5, <1>6 DEF Next

\* Nobody is given a reply to another's call, and no call is answered twice,
\* however Venus answers, fails, dies and comes back.
THEOREM UpcallRepliesMatch == Safe => []RepliesMatch
<1>1. MatchInv => RepliesMatch
  BY DEF MatchInv
<1> QED
  BY <1>1, InitMatch, NextMatch, PTL DEF Safe

\* vm_unique tells the calls in progress on a device apart.
THEOREM UpcallUniqueCalls == Safe => []UniqueCalls
<1>1. MatchInv => UniqueCalls
  BY DEF MatchInv
<1> QED
  BY <1>1, InitMatch, NextMatch, PTL DEF Safe

\* Venus is sent a signal only for a call whose reply can no longer be accepted.
THEOREM UpcallSignalsUnanswered == Safe => []SignalsUnanswered
<1>1. ASSUME MatchInv PROVE SignalsUnanswered
  <2> SUFFICES ASSUME NEW d \in Devs, NEW i \in DOMAIN requests[d],
                      requests[d][i].op = "signal"
               PROVE  /\ \A j \in DOMAIN replys[d] :
                           replys[d][j].unique # requests[d][i].unique
                      /\ \A w \in written :
                           ~(w.dev = d /\ w.unique = requests[d][i].unique)
    BY DEF SignalsUnanswered
  <2>1. /\ \A c \in Callers : pc[c] # "idle" /\ vmsg[c].dev = d
                                => vmsg[c].unique # requests[d][i].unique
        /\ \A w \in written : w.dev = d => w.unique # requests[d][i].unique
    BY <1>1 DEF MatchInv, SignalInv, IsCall
  <2>2. ASSUME NEW j \in DOMAIN replys[d]
        PROVE  replys[d][j].unique # requests[d][i].unique
    <3>1. replys[d][j].caller \in Callers /\ Expects(d, replys[d][j], TRUE)
      BY <1>1, QueueFacts
    <3> QED
      BY <2>1, <3>1 DEF Expects
  <2> QED
    BY <2>1, <2>2
<1> QED
  BY <1>1, InitMatch, NextMatch, PTL DEF Safe
-----------------------------------------------------------------------------
(* Requests are read in the order of their calls.                          *)

\* Every two calls queued were queued before, in this order.
LEMMA OrderFrame ==
  ASSUME RequestsInOrder,
         \A e \in Devs : \A i, j \in DOMAIN requests'[e] : i < j =>
           \E k, l \in DOMAIN requests[e] :
             k < l /\ requests'[e][i] = requests[e][k]
                   /\ requests'[e][j] = requests[e][l]
  PROVE  RequestsInOrder'
<1> SUFFICES ASSUME NEW e \in Devs, NEW i \in DOMAIN requests'[e],
                    NEW j \in DOMAIN requests'[e],
                    i < j, IsCall(requests'[e][i]), IsCall(requests'[e][j])
             PROVE  requests'[e][i].unique < requests'[e][j].unique
  BY DEF RequestsInOrder, IsCall
<1>1. PICK k \in DOMAIN requests[e], l \in DOMAIN requests[e] :
        k < l /\ requests'[e][i] = requests[e][k] /\ requests'[e][j] = requests[e][l]
  OBVIOUS
<1>2. IsCall(requests[e][k]) /\ IsCall(requests[e][l])
  BY <1>1
<1>3. requests[e][k].unique < requests[e][l].unique
  BY <1>1, <1>2 DEF RequestsInOrder
<1> QED
  BY <1>1, <1>3

\* A message is put at the end which is no call, or a call later than all others.
LEMMA OrderAppend ==
  ASSUME MatchInv, RequestsInOrder, NEW d \in Devs, NEW m \in Message,
         requests' = [requests EXCEPT ![d] = Append(requests[d], m)],
         IsCall(m) => m.unique > vc_seq[d]
  PROVE  RequestsInOrder'
<1>1. requests \in [Devs -> Seq(Message)] /\ vc_seq \in [Devs -> Nat]
  BY DEF MatchInv, TypeOK
<1>2. \A e \in Devs : \A i \in DOMAIN requests'[e] :
        \/ i \in DOMAIN requests[e] /\ requests'[e][i] = requests[e][i]
        \/ e = d /\ i = Len(requests[d]) + 1 /\ requests'[e][i] = m
  BY <1>1
<1> SUFFICES ASSUME NEW e \in Devs, NEW i \in DOMAIN requests'[e],
                    NEW j \in DOMAIN requests'[e],
                    i < j, IsCall(requests'[e][i]), IsCall(requests'[e][j])
             PROVE  requests'[e][i].unique < requests'[e][j].unique
  BY DEF RequestsInOrder, IsCall
<1>3. i \in DOMAIN requests[e] /\ requests'[e][i] = requests[e][i]
  <2>1. /\ DOMAIN requests[e] = 1..Len(requests[e]) /\ Len(requests[e]) \in Nat
        /\ j \in DOMAIN requests[e] => j <= Len(requests[e])
    BY <1>1
  <2>2. e = d => j <= Len(requests[d]) + 1
    BY <1>2, <2>1
  <2>3. e = d => i # Len(requests[d]) + 1
    <3>1. i \in Nat /\ j \in Nat
      BY <1>1
    <3> QED
      BY <2>1, <2>2, <3>1
  <2> QED
    BY <1>2, <2>3
<1>4. CASE j \in DOMAIN requests[e] /\ requests'[e][j] = requests[e][j]
  <2>1. IsCall(requests[e][i]) /\ IsCall(requests[e][j])
    BY <1>3, <1>4
  <2>2. requests[e][i].unique < requests[e][j].unique
    BY <1>3, <1>4, <2>1 DEF RequestsInOrder
  <2> QED
    BY <1>3, <1>4, <2>2
<1>5. CASE e = d /\ requests'[e][j] = m
  <2>1. PICK n \in Message : n = requests[e][i]
    BY <1>3, QueueFacts
  <2>2. IsCall(n) /\ n.caller \in Callers /\ Expects(e, n, FALSE)
    BY <1>3, <2>1, QueueFacts
  <2>3. n.unique \in 1..vc_seq[d]
    BY <1>5, <2>2 DEF Expects, MatchInv, UniqueCalls
  <2>4. m.unique > vc_seq[d] /\ m.unique \in Nat
    BY <1>5 DEF Message
  <2> QED
    BY <1>1, <1>3, <1>5, <2>1, <2>3, <2>4
<1> QED
  BY <1>2, <1>4, <1>5

\* The queue of one device is emptied, or loses its first message.
LEMMA OrderShorter ==
  ASSUME MatchInv, RequestsInOrder, NEW d \in Devs,
         \/ requests' = [requests EXCEPT ![d] = <<>>]
         \/ requests[d] # <<>> /\ requests' = [requests EXCEPT ![d] = Tail(@)]
  PROVE  RequestsInOrder'
<1>1. requests \in [Devs -> Seq(Message)]
  BY DEF MatchInv, TypeOK
<1>2. CASE requests' = [requests EXCEPT ![d] = <<>>]
  <2>1. \A e \in Devs : \A i \in DOMAIN requests'[e] :
          i \in DOMAIN requests[e] /\ requests'[e][i] = requests[e][i]
    BY <1>1, <1>2
  <2> QED
    BY <2>1, OrderFrame
<1>3. CASE requests[d] # <<>> /\ requests' = [requests EXCEPT ![d] = Tail(@)]
  <2>1. \A e \in Devs : \A i \in DOMAIN requests'[e] :
          /\ i \in Nat
          /\ (IF e = d THEN i + 1 ELSE i) \in DOMAIN requests[e]
          /\ requests'[e][i] = requests[e][IF e = d THEN i + 1 ELSE i]
    <3>1. /\ Len(requests[d]) \in Nat
          /\ DOMAIN Tail(requests[d]) = 1..(Len(requests[d]) - 1)
          /\ \A i \in DOMAIN Tail(requests[d]) :
               /\ i + 1 \in DOMAIN requests[d]
               /\ Tail(requests[d])[i] = requests[d][i + 1]
      BY <1>1, <1>3
    <3>2. \A e \in Devs : requests'[e] = IF e = d THEN Tail(requests[d]) ELSE requests[e]
      BY <1>1, <1>3
    <3> TAKE e \in Devs
    <3>3. CASE e = d
      <4>1. requests'[e] = Tail(requests[d])
        BY <3>2, <3>3
      <4>2. \A i \in 1..(Len(requests[d]) - 1) : i \in Nat
        BY <3>1
      <4> QED
        BY <3>1, <3>3, <4>1, <4>2
    <3>4. CASE e # d
      <4>1. requests'[e] = requests[e] /\ requests[e] \in Seq(Message)
        BY <1>1, <3>2, <3>4
      <4> QED
        BY <3>4, <4>1
    <3> QED
      BY <3>3, <3>4
  <2>2. ASSUME NEW e \in Devs, NEW i \in DOMAIN requests'[e],
               NEW j \in DOMAIN requests'[e], i < j
        PROVE  \E k, l \in DOMAIN requests[e] :
                 k < l /\ requests'[e][i] = requests[e][k]
                       /\ requests'[e][j] = requests[e][l]
    <3>1. (IF e = d THEN i + 1 ELSE i) < (IF e = d THEN j + 1 ELSE j)
      BY <2>1, <2>2
    <3> QED
      BY <2>1, <3>1
  <2> QED
    BY <2>2, OrderFrame
<1> QED
  BY <1>2, <1>3

LEMMA NextInOrder == MatchInv /\ RequestsInOrder /\ [Next]_vars => RequestsInOrder'
<1> SUFFICES ASSUME MatchInv, RequestsInOrder, [Next]_vars PROVE RequestsInOrder'
  OBVIOUS
<1>1. CASE UNCHANGED requests
  BY <1>1 DEF RequestsInOrder
<1>2. ASSUME NEW d \in Devs, VcOpen(d) \/ VcClose(d)
      PROVE  RequestsInOrder'
  BY <1>2, OrderShorter DEF VcOpen, VcClose
<1>3. ASSUME NEW d \in Devs, VcRead(d)
      PROVE  RequestsInOrder'
  BY <1>3, OrderShorter DEF VcRead
<1>4. ASSUME NEW c \in Callers, CallReturn(c)
      PROVE  UNCHANGED requests \/ RequestsInOrder'
  <2>1. CASE CallSignalled(c)
    <3>1. vmsg[c] \in Vmsg
      BY DEF MatchInv, TypeOK
    <3>2. /\ SignalMsg(c) \in Message /\ ~IsCall(SignalMsg(c))
          /\ vmsg[c].dev \in Devs
      BY <3>1 DEF SignalMsg, Message, IsCall, Vmsg
    <3> QED
      BY <2>1, <3>2, OrderAppend DEF CallSignalled, INSQUE
  <2> QED
    BY <1>4, <2>1 DEF CallReturn, CallAnswered, CallInterrupted, CallOrphaned
<1>5. ASSUME NEW c \in Callers, NEW d \in Devs, CallStart(c, d)
      PROVE  RequestsInOrder'
  <2>1. vc_seq \in [Devs -> Nat] /\ vmsg \in [Callers -> Vmsg]
    BY DEF MatchInv, TypeOK
  <2>2. vmsg' = [vmsg EXCEPT ![c] = Fresh(d, vc_seq[d] + 1)]
    BY <1>5 DEF CallStart, NextUnique
  <2>3. vmsg'[c].unique = vc_seq[d] + 1
    BY <2>1, <2>2 DEF Fresh
  <2>4. PICK m : m = [op |-> "call", caller |-> c, unique |-> vc_seq[d] + 1]
    OBVIOUS
  <2>5. m \in Message /\ m.unique = vc_seq[d] + 1
    BY <2>1, <2>4 DEF Message
  <2>6. requests' = [requests EXCEPT ![d] = Append(requests[d], m)]
    BY <1>5, <2>3, <2>4 DEF CallStart, INSQUE, CallMsg
  <2>7. m.unique > vc_seq[d]
    BY <2>1, <2>5
  <2> QED
    BY <2>5, <2>6, <2>7, OrderAppend
<1>6. CASE UNCHANGED vars
  BY <1>1, <1>6 DEF vars
<1> QED
  BY <1>1, <1>2, <1>3, <1>4, <1>5, <1>6
  DEF Next, VenusStep, Mount, VcCloseBare, VcCloseUnmount, VcWrite,
      VcWriteTooLong, VcWriteFault, CallRefused

\* Venus reads calls in the order in which they were made, though signals are
\* queued between them, and devices are closed and opened again.
THEOREM UpcallRequestsInOrder == Safe => []RequestsInOrder
<1>1. Init => RequestsInOrder
  BY DEF Init, RequestsInOrder
<1> QED
  BY <1>1, InitMatch, NextMatch, NextInOrder, PTL DEF Safe
-----------------------------------------------------------------------------
(* Who sleeps can be found.                                                *)

\* Replies arrive whole, and Venus is not restarted before all is over.
Calm == Env \cap {"copyfault", "reopen"} = {}

CalmInv == MatchInv /\ CloseInv /\ NoLostCaller

\* NoLostCaller in the next state, unfolded.
LEMMA FoundIntro ==
  ASSUME ASSUME NEW c \in Callers, pc'[c] = "asleep"
         PROVE  /\ open'[vmsg'[c].dev]
                /\ \/ \E k \in DOMAIN requests'[vmsg'[c].dev] :
                        requests'[vmsg'[c].dev][k]
                          = [op |-> "call", caller |-> c, unique |-> vmsg'[c].unique]
                   \/ \E k \in DOMAIN replys'[vmsg'[c].dev] :
                        replys'[vmsg'[c].dev][k]
                          = [op |-> "call", caller |-> c, unique |-> vmsg'[c].unique]
  PROVE  NoLostCaller'
BY DEF NoLostCaller, Waiting, On, CallMsg

\* Who sleeps on has its message, unless it is taken off, on one queue or the other.
LEMMA FoundStays ==
  ASSUME CalmInv, NEW c \in Callers, pc[c] = "asleep",
         vmsg'[c].dev = vmsg[c].dev, vmsg'[c].unique = vmsg[c].unique,
         open'[vmsg[c].dev],
         ASSUME NEW i \in DOMAIN requests[vmsg[c].dev],
                IsCall(requests[vmsg[c].dev][i])
         PROVE  \/ \E k \in DOMAIN requests'[vmsg[c].dev] :
                     requests'[vmsg[c].dev][k] = requests[vmsg[c].dev][i]
                \/ \E k \in DOMAIN replys'[vmsg[c].dev] :
                     replys'[vmsg[c].dev][k] = requests[vmsg[c].dev][i],
         ASSUME NEW i \in DOMAIN replys[vmsg[c].dev],
                replys[vmsg[c].dev][i].caller = c
         PROVE  \E k \in DOMAIN replys'[vmsg[c].dev] :
                  replys'[vmsg[c].dev][k] = replys[vmsg[c].dev][i]
  PROVE  /\ open'[vmsg'[c].dev]
         /\ \/ \E k \in DOMAIN requests'[vmsg'[c].dev] :
                 requests'[vmsg'[c].dev][k]
                   = [op |-> "call", caller |-> c, unique |-> vmsg'[c].unique]
            \/ \E k \in DOMAIN replys'[vmsg'[c].dev] :
                 replys'[vmsg'[c].dev][k]
                   = [op |-> "call", caller |-> c, unique |-> vmsg'[c].unique]
<1>1. PICK m : /\ m = [op |-> "call", caller |-> c, unique |-> vmsg[c].unique]
               /\ m.caller = c /\ IsCall(m)
  <2> DEFINE n == [op |-> "call", caller |-> c, unique |-> vmsg[c].unique]
  <2>1. n.caller = c /\ IsCall(n)
    BY DEF IsCall
  <2> HIDE DEF n
  <2> QED
    BY <2>1 DEF n
<1>2. \/ \E i \in DOMAIN requests[vmsg[c].dev] : requests[vmsg[c].dev][i] = m
      \/ \E i \in DOMAIN replys[vmsg[c].dev] : replys[vmsg[c].dev][i] = m
  BY <1>1 DEF CalmInv, NoLostCaller, Waiting, On, CallMsg
<1>3. \/ \E k \in DOMAIN requests'[vmsg[c].dev] : requests'[vmsg[c].dev][k] = m
      \/ \E k \in DOMAIN replys'[vmsg[c].dev] : replys'[vmsg[c].dev][k] = m
  BY <1>1, <1>2
<1> QED
  BY <1>1, <1>3

\* The device of who sleeps is one of the devices, and open.
LEMMA SleepsOnOpen ==
  ASSUME CalmInv, NEW c \in Callers, pc[c] = "asleep"
  PROVE  vmsg[c].dev \in Devs /\ open[vmsg[c].dev]
BY DEF CalmInv, NoLostCaller, MatchInv, TypeOK, Vmsg

\* Steps that leave the queues alone and put nobody to sleep.
LEMMA FoundFrame ==
  ASSUME CalmInv, UNCHANGED <<requests, replys>>,
         \A c \in Callers : pc'[c] = "asleep" =>
           pc[c] = "asleep" /\ vmsg'[c] = vmsg[c] /\ open'[vmsg[c].dev]
  PROVE  NoLostCaller'
<1> SUFFICES ASSUME NEW c \in Callers, pc'[c] = "asleep"
             PROVE  /\ open'[vmsg'[c].dev]
                    /\ \/ \E k \in DOMAIN requests'[vmsg'[c].dev] :
                            requests'[vmsg'[c].dev][k]
                              = [op |-> "call", caller |-> c, unique |-> vmsg'[c].unique]
                       \/ \E k \in DOMAIN replys'[vmsg'[c].dev] :
                            replys'[vmsg'[c].dev][k]
                              = [op |-> "call", caller |-> c, unique |-> vmsg'[c].unique]
  BY FoundIntro
<1> QED
  BY FoundStays

\* A device is opened or closed: its queues are emptied, and nobody sleeps there.
LEMMA FoundElsewhere ==
  ASSUME CalmInv, NEW d \in Devs,
         requests' = [requests EXCEPT ![d] = <<>>],
         replys' = [replys EXCEPT ![d] = <<>>],
         UNCHANGED vmsg,
         \A e \in Devs : e # d => open'[e] = open[e],
         \A c \in Callers : pc'[c] = "asleep" => pc[c] = "asleep" /\ vmsg[c].dev # d
  PROVE  NoLostCaller'
<1>1. requests \in [Devs -> Seq(Message)] /\ replys \in [Devs -> Seq(Message)]
  BY DEF CalmInv, MatchInv, TypeOK
<1>2. \A e \in Devs : e # d => requests'[e] = requests[e] /\ replys'[e] = replys[e]
  BY <1>1
<1> SUFFICES ASSUME NEW c \in Callers, pc'[c] = "asleep"
             PROVE  /\ open'[vmsg'[c].dev]
                    /\ \/ \E k \in DOMAIN requests'[vmsg'[c].dev] :
                            requests'[vmsg'[c].dev][k]
                              = [op |-> "call", caller |-> c, unique |-> vmsg'[c].unique]
                       \/ \E k \in DOMAIN replys'[vmsg'[c].dev] :
                            replys'[vmsg'[c].dev][k]
                              = [op |-> "call", caller |-> c, unique |-> vmsg'[c].unique]
  BY FoundIntro
<1>3. pc[c] = "asleep" /\ vmsg[c].dev # d /\ vmsg[c].dev \in Devs /\ open[vmsg[c].dev]
  BY SleepsOnOpen
<1>4. /\ open'[vmsg[c].dev]
      /\ requests'[vmsg[c].dev] = requests[vmsg[c].dev]
      /\ replys'[vmsg[c].dev] = replys[vmsg[c].dev]
  BY <1>2, <1>3
<1> QED
  BY <1>3, <1>4, FoundStays

\* A message is added to a queue of requests; who made it may begin to sleep.
LEMMA FoundAppend ==
  ASSUME CalmInv, NEW d \in Devs, NEW m \in Message, NEW c \in Callers,
         requests' = [requests EXCEPT ![d] = Append(requests[d], m)],
         UNCHANGED <<replys, open>>, pc[c] # "asleep",
         \A b \in Callers : b # c => pc'[b] = pc[b] /\ vmsg'[b] = vmsg[b],
         pc'[c] = "asleep" =>
           /\ open[d] /\ vmsg'[c].dev = d
           /\ m = [op |-> "call", caller |-> c, unique |-> vmsg'[c].unique]
  PROVE  NoLostCaller'
<1>1. requests \in [Devs -> Seq(Message)] /\ replys \in [Devs -> Seq(Message)]
  BY DEF CalmInv, MatchInv, TypeOK
<1>2. \A e \in Devs : \A i \in DOMAIN requests[e] :
        i \in DOMAIN requests'[e] /\ requests'[e][i] = requests[e][i]
  BY <1>1
<1>3. \E k \in DOMAIN requests'[d] : requests'[d][k] = m
  <2>1. requests'[d] = Append(requests[d], m)
    BY <1>1
  <2>2. /\ Len(requests[d]) + 1 \in DOMAIN Append(requests[d], m)
        /\ Append(requests[d], m)[Len(requests[d]) + 1] = m
    BY <1>1
  <2> QED
    BY <2>1, <2>2
<1> SUFFICES ASSUME NEW b \in Callers, pc'[b] = "asleep"
             PROVE  /\ open'[vmsg'[b].dev]
                    /\ \/ \E k \in DOMAIN requests'[vmsg'[b].dev] :
                            requests'[vmsg'[b].dev][k]
                              = [op |-> "call", caller |-> b, unique |-> vmsg'[b].unique]
                       \/ \E k \in DOMAIN replys'[vmsg'[b].dev] :
                            replys'[vmsg'[b].dev][k]
                              = [op |-> "call", caller |-> b, unique |-> vmsg'[b].unique]
  BY FoundIntro
<1>4. CASE b = c
  BY <1>3, <1>4
<1>5. CASE b # c
  <2>1. pc[b] = "asleep" /\ vmsg'[b] = vmsg[b]
    BY <1>5
  <2>2. vmsg[b].dev \in Devs /\ open[vmsg[b].dev]
    BY <2>1, SleepsOnOpen
  <2> QED
    BY <1>2, <2>1, <2>2, FoundStays
<1> QED
  BY <1>4, <1>5
\* A message that is read moves from one queue to the other.
LEMMA FoundRead ==
  ASSUME CalmInv, NEW d \in Devs, VcRead(d)
  PROVE  NoLostCaller'
<1>1. /\ requests \in [Devs -> Seq(Message)] /\ replys \in [Devs -> Seq(Message)]
      /\ vmsg \in [Callers -> Vmsg]
  BY DEF CalmInv, MatchInv, TypeOK
<1>2. /\ requests[d] # <<>> /\ UNCHANGED <<open, pc>>
      /\ requests' = [requests EXCEPT ![d] = Tail(requests[d])]
      /\ \/ /\ IsCall(Head(requests[d]))
            /\ vmsg' = [vmsg EXCEPT ![Head(requests[d]).caller].read = TRUE]
            /\ replys' = [replys EXCEPT ![d] = Append(replys[d], Head(requests[d]))]
         \/ ~IsCall(Head(requests[d])) /\ UNCHANGED <<vmsg, replys>>
  BY DEF VcRead, INSQUE
<1>3. \A b \in Callers : vmsg'[b].dev = vmsg[b].dev /\ vmsg'[b].unique = vmsg[b].unique
  <2>1. \A v \in Vmsg : /\ [v EXCEPT !.read = TRUE].dev = v.dev
                        /\ [v EXCEPT !.read = TRUE].unique = v.unique
    BY DEF Vmsg
  <2>2. \A b \in Callers : vmsg'[b] = vmsg[b] \/ vmsg'[b] = [vmsg[b] EXCEPT !.read = TRUE]
    BY <1>1, <1>2
  <2> QED
    BY <1>1, <2>1, <2>2
<1>4. \A e \in Devs : \A i \in DOMAIN replys[e] :
        i \in DOMAIN replys'[e] /\ replys'[e][i] = replys[e][i]
  <2> PICK m : m = Head(requests[d])
    OBVIOUS
  <2>1. replys' = replys \/ replys' = [replys EXCEPT ![d] = Append(replys[d], m)]
    BY <1>2
  <2>2. \A e \in Devs : \/ replys'[e] = replys[e]
                        \/ e = d /\ replys'[e] = Append(replys[d], m)
    BY <1>1, <2>1
  <2>3. \A i \in DOMAIN replys[d] : /\ i \in DOMAIN Append(replys[d], m)
                                    /\ Append(replys[d], m)[i] = replys[d][i]
    <3>1. replys[d] \in Seq(Message) /\ DOMAIN replys[d] = 1..Len(replys[d])
          /\ Len(replys[d]) \in Nat
      BY <1>1
    <3> QED
      BY <3>1
  <2> QED
    BY <2>2, <2>3
<1>5. ASSUME NEW e \in Devs, NEW i \in DOMAIN requests[e], IsCall(requests[e][i])
      PROVE  \/ \E k \in DOMAIN requests'[e] : requests'[e][k] = requests[e][i]
             \/ \E k \in DOMAIN replys'[e] : replys'[e][k] = requests[e][i]
  <2>1. CASE e # d
    BY <1>1, <1>2, <2>1
  <2>2. CASE e = d /\ i = 1
    <3>1. requests[d][i] = Head(requests[d])
      BY <1>1, <1>2, <2>2
    <3>2. replys'[d] = Append(replys[d], requests[d][i])
      BY <1>1, <1>2, <1>5, <2>2, <3>1
    <3>3. /\ Len(replys[d]) + 1 \in DOMAIN replys'[d]
          /\ replys'[d][Len(replys[d]) + 1] = requests[d][i]
      BY <1>1, <3>2
    <3> QED
      BY <2>2, <3>3
  <2>3. CASE e = d /\ i # 1
    <3>1. requests'[d] = Tail(requests[d])
      BY <1>1, <1>2
    <3>2. i - 1 \in DOMAIN Tail(requests[d]) /\ Tail(requests[d])[i - 1] = requests[d][i]
      BY <1>1, <1>2, <2>3
    <3> QED
      BY <2>3, <3>1, <3>2
  <2> QED
    BY <2>1, <2>2, <2>3
<1> SUFFICES ASSUME NEW c \in Callers, pc'[c] = "asleep"
             PROVE  /\ open'[vmsg'[c].dev]
                    /\ \/ \E k \in DOMAIN requests'[vmsg'[c].dev] :
                            requests'[vmsg'[c].dev][k]
                              = [op |-> "call", caller |-> c, unique |-> vmsg'[c].unique]
                       \/ \E k \in DOMAIN replys'[vmsg'[c].dev] :
                            replys'[vmsg'[c].dev][k]
                              = [op |-> "call", caller |-> c, unique |-> vmsg'[c].unique]
  BY FoundIntro
<1>6. pc[c] = "asleep" /\ vmsg[c].dev \in Devs /\ open[vmsg[c].dev]
  BY <1>2, SleepsOnOpen
<1> QED
  BY <1>2, <1>3, <1>4, <1>5, <1>6, FoundStays

\* Whose message is taken off the queue of replies is woken.
LEMMA FoundTakeOff ==
  ASSUME CalmInv, NEW d \in Devs, NEW i \in DOMAIN replys[d], TakeOff(d, i),
         Wakeup({replys[d][i].caller}), UNCHANGED <<requests, open>>,
         \A c \in Callers : c # replys[d][i].caller => vmsg'[c] = vmsg[c]
  PROVE  NoLostCaller'
<1>1. /\ replys \in [Devs -> Seq(Message)] /\ replys[d] \in Seq(Message)
      /\ pc \in [Callers -> {"idle", "asleep", "woken"}]
      /\ i \in Nat /\ Len(replys[d]) \in Nat
  BY DEF CalmInv, MatchInv, TypeOK
<1>2. replys' = [replys EXCEPT ![d] = REMQUE(replys[d], i)]
  BY DEF TakeOff
<1>3. ASSUME NEW e \in Devs, NEW k \in DOMAIN replys[e],
             replys[e][k].caller # replys[d][i].caller
      PROVE  \E l \in DOMAIN replys'[e] : replys'[e][l] = replys[e][k]
  <2>1. CASE e # d
    BY <1>1, <1>2, <2>1
  <2>2. CASE e = d
    <3>1. replys'[d] = REMQUE(replys[d], i) /\ k # i /\ k \in 1..Len(replys[d])
      BY <1>1, <1>2, <1>3, <2>2
    <3>2. CASE k < i
      <4>1. k \in 1..(Len(replys[d]) - 1)
        BY <1>1, <3>1, <3>2
      <4> QED
        BY <2>2, <3>1, <3>2, <4>1 DEF REMQUE
    <3>3. CASE k > i
      <4>1. k - 1 \in 1..(Len(replys[d]) - 1) /\ ~(k - 1 < i) /\ (k - 1) + 1 = k
        BY <1>1, <3>1, <3>3
      <4>2. REMQUE(replys[d], i)[k - 1] = replys[d][k]
        BY <4>1 DEF REMQUE
      <4> QED
        BY <2>2, <3>1, <4>1, <4>2 DEF REMQUE
    <3> QED
      BY <1>1, <3>1, <3>2, <3>3
  <2> QED
    BY <2>1, <2>2
<1> SUFFICES ASSUME NEW c \in Callers, pc'[c] = "asleep"
             PROVE  /\ open'[vmsg'[c].dev]
                    /\ \/ \E k \in DOMAIN requests'[vmsg'[c].dev] :
                            requests'[vmsg'[c].dev][k]
                              = [op |-> "call", caller |-> c, unique |-> vmsg'[c].unique]
                       \/ \E k \in DOMAIN replys'[vmsg'[c].dev] :
                            replys'[vmsg'[c].dev][k]
                              = [op |-> "call", caller |-> c, unique |-> vmsg'[c].unique]
  BY FoundIntro
<1>4. c # replys[d][i].caller /\ pc[c] = "asleep"
  BY <1>1 DEF Wakeup
<1>5. vmsg[c].dev \in Devs /\ open[vmsg[c].dev] /\ vmsg'[c] = vmsg[c]
  BY <1>4, SleepsOnOpen
<1> QED
  BY <1>3, <1>4, <1>5, FoundStays

\* CloseInv is kept by steps that change neither devices nor mounts, and let
\* nobody into a call but by a device with a mount.
LEMMA CloseFrame ==
  ASSUME CalmInv, UNCHANGED <<open, mounted>>,
         \A d \in Devs : closer'[d] # "none" => closer[d] # "none",
         \A c \in Callers : pc'[c] # "idle" =>
           \/ pc[c] # "idle" /\ vmsg'[c].dev = vmsg[c].dev
           \/ mounted[vmsg'[c].dev]
  PROVE  CloseInv'
<1>1. \A d \in Devs : closer'[d] # "none" => ~open'[d]
  BY DEF CalmInv, CloseInv
<1>2. ASSUME NEW d \in Devs, open'[d], ~mounted'[d], NEW c \in Callers,
             pc'[c] # "idle", vmsg'[c].dev = d
      PROVE  FALSE
  <2>1. pc[c] # "idle" /\ vmsg[c].dev = d
    BY <1>2
  <2>2. InCall(d) = {}
    BY <1>2 DEF CalmInv, CloseInv
  <2> QED
    BY <2>1, <2>2 DEF InCall
<1> QED
  BY <1>1, <1>2 DEF CloseInv, InCall

LEMMA NextCalm ==
  ASSUME Calm, CalmInv, [Next]_vars
  PROVE  CalmInv'
<1>1. MatchInv' /\ TypeOK'
  BY NextMatch DEF CalmInv, MatchInv
<1>2. /\ open \in [Devs -> BOOLEAN] /\ mounted \in [Devs -> BOOLEAN]
      /\ closer \in [Devs -> {"none", "asleep", "ready", "panic"}]
      /\ pc \in [Callers -> {"idle", "asleep", "woken"}] /\ vmsg \in [Callers -> Vmsg]
  BY DEF CalmInv, MatchInv, TypeOK
<1>3. \A d \in Devs : /\ closer[d] # "none" => ~open[d]
                      /\ open[d] /\ ~mounted[d] => InCall(d) = {}
  BY DEF CalmInv, CloseInv
<1>4. CASE UNCHANGED vars
  <2>1. NoLostCaller'
    BY <1>4, FoundFrame, SleepsOnOpen DEF vars
  <2>2. CloseInv'
    BY <1>4, CloseFrame DEF vars
  <2> QED
    BY <1>1, <2>1, <2>2 DEF CalmInv
<1>5. ASSUME NEW d \in Devs, VcOpen(d)
      PROVE  CloseInv' /\ NoLostCaller'
  <2>1. closer[d] = "none" /\ InCall(d) = {}
    BY <1>5 DEF VcOpen, MayOpen, Calm
  <2>2. \A c \in Callers : pc[c] # "idle" => vmsg[c].dev # d
    BY <2>1 DEF InCall
  <2>3. CloseInv'
    BY <1>2, <1>3, <1>5, <2>1 DEF VcOpen, CloseInv, InCall
  <2>4. NoLostCaller'
    BY <1>2, <1>5, <2>2, FoundElsewhere DEF VcOpen
  <2> QED
    BY <2>3, <2>4
<1>6. ASSUME NEW d \in Devs, Mount(d) \/ VcCloseBare(d) \/ VcCloseUnmount(d)
      PROVE  CloseInv' /\ NoLostCaller'
  <2>1. CloseInv'
    BY <1>2, <1>3, <1>6 DEF Mount, VcCloseBare, VcCloseUnmount, CloseInv, InCall
  <2>2. \A c \in Callers : pc[c] = "asleep" => open'[vmsg[c].dev]
    <3> SUFFICES ASSUME NEW c \in Callers, pc[c] = "asleep"
                 PROVE  open'[vmsg[c].dev]
      OBVIOUS
    <3>1. vmsg[c].dev \in Devs /\ open[vmsg[c].dev] /\ c \in InCall(vmsg[c].dev)
      BY SleepsOnOpen DEF InCall
    <3>2. mounted[vmsg[c].dev]
      BY <1>2, <1>3, <3>1
    <3> QED
      BY <1>2, <1>6, <3>1, <3>2 DEF Mount, VcCloseBare, VcCloseUnmount
  <2>3. UNCHANGED <<requests, replys, vmsg, pc>>
    BY <1>6 DEF Mount, VcCloseBare, VcCloseUnmount
  <2> QED
    BY <2>1, <2>2, <2>3, FoundFrame
<1>7. ASSUME NEW d \in Devs, VcRead(d)
      PROVE  CloseInv' /\ NoLostCaller'
  <2>1. UNCHANGED <<open, mounted, closer, pc>>
    BY <1>7 DEF VcRead
  <2>2. ASSUME NEW c \in Callers PROVE vmsg'[c].dev = vmsg[c].dev
    <3>1. \A v \in Vmsg : [v EXCEPT !.read = TRUE].dev = v.dev
      BY DEF Vmsg
    <3>2. vmsg'[c] = vmsg[c] \/ vmsg'[c] = [vmsg[c] EXCEPT !.read = TRUE]
      BY <1>2, <1>7 DEF VcRead
    <3> QED
      BY <1>2, <3>1, <3>2
  <2>3. CloseInv'
    BY <2>1, <2>2, CloseFrame
  <2> QED
    BY <1>7, <2>3, FoundRead
<1>8. ASSUME NEW d \in Devs, VcClose(d)
      PROVE  CloseInv' /\ NoLostCaller'
  <2>1. \A c \in Callers : pc'[c] = "asleep" => pc[c] = "asleep" /\ vmsg[c].dev # d
    BY <1>8 DEF VcClose, Wakeup, CalmInv, NoLostCaller
  <2>2. NoLostCaller'
    BY <1>2, <1>8, <2>1, FoundElsewhere DEF VcClose
  <2>3. \A c \in Callers : pc'[c] # "idle" => c \in Waiting(d) \/ pc[c] # "idle"
    BY <1>8 DEF VcClose, Wakeup
  <2>4. \A e \in Devs : e # d => open'[e] = open[e] /\ closer'[e] = closer[e]
    BY <1>2, <1>8 DEF VcClose
  <2>5. ~open'[d] /\ UNCHANGED <<mounted, vmsg>>
    BY <1>2, <1>8 DEF VcClose
  <2>6. \A c \in Waiting(d) : pc[c] = "asleep"
    <3>1. ASSUME NEW c \in On(requests[d]) PROVE pc[c] = "asleep"
      <4>1. PICK i \in DOMAIN requests[d] : requests[d][i] = CallMsg(c)
        BY DEF On
      <4>2. IsCall(requests[d][i]) /\ requests[d][i].caller = c
        BY <4>1 DEF CallMsg, IsCall
      <4>3. Expects(d, requests[d][i], FALSE)
        BY <4>2, QueueFacts DEF CalmInv
      <4> QED
        BY <4>2, <4>3 DEF Expects
    <3>2. ASSUME NEW c \in On(replys[d]) PROVE pc[c] = "asleep"
      <4>1. PICK i \in DOMAIN replys[d] : replys[d][i] = CallMsg(c)
        BY DEF On
      <4>2. replys[d][i].caller = c
        BY <4>1 DEF CallMsg
      <4> QED
        BY <4>2, QueueFacts DEF CalmInv, Expects
    <3> QED
      BY <3>1, <3>2 DEF Waiting
  <2>7. CloseInv'
    BY <1>3, <2>3, <2>4, <2>5, <2>6 DEF CloseInv, InCall
  <2> QED
    BY <2>2, <2>7
<1>9. ASSUME NEW d \in Devs, NEW i \in DOMAIN replys[d], TakeOff(d, i),
             Wakeup({replys[d][i].caller}),
             UNCHANGED <<requests, open, mounted, closer>>,
             \A c \in Callers : vmsg'[c].dev = vmsg[c].dev,
             \A c \in Callers : c # replys[d][i].caller => vmsg'[c] = vmsg[c]
      PROVE  CloseInv' /\ NoLostCaller'
  <2>1. pc[replys[d][i].caller] = "asleep"
    BY <1>9, QueueFacts DEF CalmInv, Expects
  <2>2. \A c \in Callers : pc'[c] # "idle" => pc[c] # "idle"
    BY <1>2, <1>9, <2>1 DEF Wakeup
  <2>3. CloseInv'
    BY <1>9, <2>2, CloseFrame
  <2> QED
    BY <1>9, <2>3, FoundTakeOff
<1>10. ASSUME NEW d \in Devs, NEW seq, VcWriteTooLong(d, seq)
       PROVE  CloseInv' /\ NoLostCaller'
  <2>1. PICK i \in DOMAIN replys[d] : TakeOff(d, i) /\ Wakeup({replys[d][i].caller})
    BY <1>10 DEF VcWriteTooLong, Awaiting
  <2> QED
    BY <1>9, <1>10, <2>1 DEF VcWriteTooLong
<1>11. ASSUME NEW d \in Devs, NEW seq, NEW r \in Results, VcWrite(d, seq, r)
       PROVE  CloseInv' /\ NoLostCaller'
  <2>1. PICK i \in DOMAIN replys[d] :
          /\ TakeOff(d, i) /\ Wakeup({replys[d][i].caller})
          /\ vmsg' = [vmsg EXCEPT ![replys[d][i].caller].write = TRUE,
                                  ![replys[d][i].caller].result = r]
    BY <1>11 DEF VcWrite, Awaiting
  <2>2. \A c \in Callers : /\ vmsg'[c].dev = vmsg[c].dev
                           /\ c # replys[d][i].caller => vmsg'[c] = vmsg[c]
    BY <1>2, <2>1 DEF Vmsg
  <2> QED
    BY <1>9, <1>11, <2>1, <2>2 DEF VcWrite
<1>12. ASSUME NEW c \in Callers, CallReturn(c)
       PROVE  CloseInv' /\ NoLostCaller'
  <2>1. /\ pc[c] = "woken" /\ pc' = [pc EXCEPT ![c] = "idle"]
        /\ vmsg' = [vmsg EXCEPT ![c] = Freed] /\ UNCHANGED <<open, mounted, replys>>
    BY <1>12 DEF CallReturn, CallAnswered, CallInterrupted, CallSignalled,
                 CallOrphaned, Leave
  <2>2. \A d \in Devs : closer'[d] # "none" => closer[d] # "none"
    BY <1>12 DEF CallReturn, CallAnswered, CallInterrupted, CallSignalled,
                 CallOrphaned, CountDown
  <2>3. /\ pc'[c] = "idle"
        /\ \A b \in Callers : b # c => pc'[b] = pc[b] /\ vmsg'[b] = vmsg[b]
    BY <1>2, <2>1
  <2>4. CloseInv'
    BY <2>1, <2>2, <2>3, CloseFrame
  <2>5. CASE UNCHANGED requests
    <3>1. \A b \in Callers : pc'[b] = "asleep" =>
            pc[b] = "asleep" /\ vmsg'[b] = vmsg[b] /\ open'[vmsg[b].dev]
      BY <2>1, <2>3, SleepsOnOpen
    <3>2. NoLostCaller'
      BY <2>1, <2>5, <3>1, FoundFrame
    <3> QED
      BY <2>4, <3>2
  <2>6. CASE requests' = [requests EXCEPT ![vmsg[c].dev] = Append(@, SignalMsg(c))]
    <3>1. SignalMsg(c) \in Message /\ vmsg[c].dev \in Devs
      BY <1>2 DEF SignalMsg, Message, Vmsg
    <3>2. PICK m \in Message, d \in Devs : m = SignalMsg(c) /\ d = vmsg[c].dev
      BY <3>1
    <3>3. /\ requests' = [requests EXCEPT ![d] = Append(requests[d], m)]
          /\ UNCHANGED <<replys, open>> /\ pc[c] # "asleep" /\ pc'[c] # "asleep"
      BY <2>1, <2>3, <2>6, <3>2
    <3>4. NoLostCaller'
      BY <2>3, <3>3, FoundAppend
    <3> QED
      BY <2>4, <3>4
  <2> QED
    BY <1>12, <2>4, <2>5, <2>6
    DEF CallReturn, CallAnswered, CallInterrupted, CallSignalled, CallOrphaned, INSQUE
<1>13. ASSUME NEW c \in Callers, NEW d \in Devs, CallStart(c, d)
       PROVE  CloseInv' /\ NoLostCaller'
  <2>1. /\ pc[c] = "idle" /\ open[d] /\ mounted[d]
        /\ pc' = [pc EXCEPT ![c] = "asleep"]
        /\ vmsg' = [vmsg EXCEPT ![c] = Fresh(d, NextUnique(d))]
        /\ requests' = [requests EXCEPT ![d] =
             Append(@, [op |-> "call", caller |-> c, unique |-> vmsg'[c].unique])]
        /\ UNCHANGED <<open, replys, mounted, closer>>
    BY <1>3, <1>13 DEF CallStart, HasVnodes, INSQUE, CallMsg
  <2>2. /\ vmsg'[c].dev = d /\ pc'[c] = "asleep"
        /\ \A b \in Callers : b # c => pc'[b] = pc[b] /\ vmsg'[b] = vmsg[b]
    BY <1>2, <2>1 DEF Fresh
  <2>3. vmsg'[c].unique \in Nat
    BY <1>1 DEF TypeOK, Vmsg
  <2>4. PICK m \in Message : m = [op |-> "call", caller |-> c, unique |-> vmsg'[c].unique]
    BY <2>3 DEF Message
  <2>5. NoLostCaller'
    BY <2>1, <2>2, <2>4, FoundAppend
  <2>6. CloseInv'
    BY <2>1, <2>2, CloseFrame
  <2> QED
    BY <2>5, <2>6
<1>14. ASSUME NEW c \in Callers, NEW d \in Devs, CallRefused(c, d)
       PROVE  CloseInv' /\ NoLostCaller'
  <2>1. UNCHANGED <<open, mounted, closer, requests, replys, pc, vmsg>>
    BY <1>14 DEF CallRefused
  <2> QED
    BY <2>1, CloseFrame, FoundFrame, SleepsOnOpen
<1>15. \A d \in Devs, seq \in 1..MaxCalls : ~VcWriteFault(d, seq)
  BY DEF VcWriteFault, Calm
<1> QED
  BY <1>1, <1>4, <1>5, <1>6, <1>7, <1>8, <1>10, <1>11, <1>12, <1>13, <1>14, <1>15
  DEF Next, VenusStep, CalmInv

\* Where no reply is lost half-way and Venus is restarted only when its
\* predecessor is gone, nobody sleeps whom neither reply nor close can find.
THEOREM UpcallNoLostCaller == ASSUME Calm PROVE Safe => []NoLostCaller
<1>1. Init => CalmInv
  <2>1. Init => CloseInv /\ NoLostCaller
    BY DEF Init, CloseInv, NoLostCaller
  <2> QED
    BY <2>1, InitMatch DEF CalmInv
<1>2. CalmInv /\ [Next]_vars => CalmInv'
  BY NextCalm
<1>3. CalmInv => NoLostCaller
  BY DEF CalmInv
<1> QED
  BY <1>1, <1>2, <1>3, PTL DEF Safe
-----------------------------------------------------------------------------
(* The channel keeps the promise of CodaRpc.                               *)

\* No reply is too long, there is memory for every message, and Venus is restarted
\* only when its predecessor is gone.  A reply may fault.
Plain == Env \subseteq {"copyfault"}

RpcInv == MatchInv /\ WokenInv

LEMMA NextWoken ==
  ASSUME Plain, RpcInv, [Next]_vars
  PROVE  WokenInv'
<1>1. /\ open \in [Devs -> BOOLEAN] /\ pc \in [Callers -> {"idle", "asleep", "woken"}]
      /\ vmsg \in [Callers -> Vmsg]
  BY DEF RpcInv, MatchInv, TypeOK
<1>2. ASSUME \A c \in Callers : pc'[c] = "woken" =>
               \/ vmsg'[c].write
               \/ ~open'[vmsg'[c].dev]
               \/ /\ pc[c] = "woken" /\ open[vmsg[c].dev]
                  /\ vmsg'[c].write = vmsg[c].write
      PROVE  WokenInv'
  BY <1>2 DEF RpcInv, WokenInv
<1>3. CASE UNCHANGED vars
  BY <1>2, <1>3 DEF vars
<1>4. ASSUME NEW d \in Devs, VcOpen(d)
      PROVE  WokenInv'
  <2>1. InCall(d) = {}
    BY <1>4 DEF VcOpen, MayOpen, Plain
  <2> QED
    BY <1>1, <1>2, <1>4, <2>1 DEF VcOpen, InCall
<1>5. ASSUME NEW d \in Devs,
             Mount(d) \/ VcCloseBare(d) \/ VcCloseUnmount(d)
      PROVE  WokenInv'
  <2>1. /\ UNCHANGED <<pc, vmsg>>
        /\ \A e \in Devs : open'[e] => open[e]
    BY <1>1, <1>5 DEF Mount, VcCloseBare, VcCloseUnmount
  <2>2. \A c \in Callers : vmsg[c].dev \in Devs
    BY <1>1 DEF Vmsg
  <2> QED
    BY <1>2, <2>1, <2>2
<1>6. ASSUME NEW d \in Devs, VcRead(d)
      PROVE  WokenInv'
  <2>1. \A v \in Vmsg : /\ [v EXCEPT !.read = TRUE].dev = v.dev
                        /\ [v EXCEPT !.read = TRUE].write = v.write
    BY DEF Vmsg
  <2>2. \A c \in Callers : vmsg'[c] = vmsg[c] \/ vmsg'[c] = [vmsg[c] EXCEPT !.read = TRUE]
    BY <1>1, <1>6 DEF VcRead
  <2>3. \A c \in Callers : vmsg'[c].dev = vmsg[c].dev /\ vmsg'[c].write = vmsg[c].write
    BY <1>1, <2>1, <2>2
  <2>4. UNCHANGED <<pc, open>>
    BY <1>6 DEF VcRead
  <2> QED
    BY <1>2, <2>3, <2>4
<1>7. ASSUME NEW d \in Devs, VcClose(d)
      PROVE  WokenInv'
  <2>1. \A c \in Waiting(d) : vmsg[c].dev = d
    <3>1. ASSUME NEW c \in On(requests[d]) PROVE vmsg[c].dev = d
      <4>1. PICK i \in DOMAIN requests[d] : requests[d][i] = CallMsg(c)
        BY DEF On
      <4>2. IsCall(requests[d][i]) /\ requests[d][i].caller = c
        BY <4>1 DEF CallMsg, IsCall
      <4>3. Expects(d, requests[d][i], FALSE)
        BY <4>2, QueueFacts DEF RpcInv
      <4> QED
        BY <4>2, <4>3 DEF Expects
    <3>2. ASSUME NEW c \in On(replys[d]) PROVE vmsg[c].dev = d
      <4>1. PICK i \in DOMAIN replys[d] : replys[d][i] = CallMsg(c)
        BY DEF On
      <4>2. replys[d][i].caller = c
        BY <4>1 DEF CallMsg
      <4>3. Expects(d, replys[d][i], TRUE)
        BY QueueFacts DEF RpcInv
      <4> QED
        BY <4>2, <4>3 DEF Expects
    <3> QED
      BY <3>1, <3>2 DEF Waiting
  <2>2. /\ UNCHANGED vmsg /\ open' = [open EXCEPT ![d] = FALSE]
        /\ pc' = [c \in Callers |-> IF c \in Waiting(d) THEN "woken" ELSE pc[c]]
    BY <1>7 DEF VcClose, Wakeup
  <2>3. \A e \in Devs : open'[e] => open[e] /\ e # d
    BY <1>1, <2>2
  <2>4. \A c \in Callers : vmsg[c].dev \in Devs
    BY <1>1 DEF Vmsg
  <2> QED
    BY <1>2, <2>1, <2>2, <2>3, <2>4
<1>8. ASSUME NEW d \in Devs, NEW seq, VcWriteFault(d, seq)
      PROVE  WokenInv'
  <2>1. UNCHANGED <<pc, open, vmsg>>
    BY <1>8 DEF VcWriteFault
  <2> QED
    BY <1>2, <2>1
<1>9. ASSUME NEW d \in Devs, NEW seq, NEW r \in Results, VcWrite(d, seq, r)
      PROVE  WokenInv'
  <2>1. PICK i \in DOMAIN replys[d] :
          /\ Wakeup({replys[d][i].caller}) /\ UNCHANGED open
          /\ vmsg' = [vmsg EXCEPT ![replys[d][i].caller].write = TRUE,
                                  ![replys[d][i].caller].result = r]
    BY <1>9 DEF VcWrite, Awaiting
  <2>2. \A v \in Vmsg : [v EXCEPT !.write = TRUE, !.result = r].write
    BY DEF Vmsg
  <2>3. \A c \in Callers : c = replys[d][i].caller => vmsg'[c].write
    BY <1>1, <2>1, <2>2
  <2>4. \A c \in Callers : c # replys[d][i].caller =>
                             vmsg'[c] = vmsg[c] /\ pc'[c] = pc[c]
    BY <1>1, <2>1 DEF Wakeup
  <2> QED
    BY <1>2, <2>1, <2>3, <2>4
<1>10. ASSUME NEW c \in Callers, CallReturn(c)
       PROVE  WokenInv'
  <2>1. /\ pc' = [pc EXCEPT ![c] = "idle"] /\ vmsg' = [vmsg EXCEPT ![c] = Freed]
        /\ UNCHANGED open
    BY <1>10 DEF CallReturn, CallAnswered, CallInterrupted, CallSignalled,
                 CallOrphaned, Leave
  <2> QED
    BY <1>1, <1>2, <2>1
<1>11. ASSUME NEW c \in Callers, NEW d \in Devs, CallStart(c, d)
       PROVE  WokenInv'
  <2>1. /\ pc' = [pc EXCEPT ![c] = "asleep"] /\ UNCHANGED open
        /\ vmsg' = [vmsg EXCEPT ![c] = Fresh(d, NextUnique(d))]
    BY <1>11 DEF CallStart
  <2> QED
    BY <1>1, <1>2, <2>1
<1>12. ASSUME NEW c \in Callers, NEW d \in Devs, CallRefused(c, d)
       PROVE  WokenInv'
  BY <1>2, <1>12 DEF CallRefused
<1>13. \A d \in Devs, seq \in 1..MaxCalls : ~VcWriteTooLong(d, seq)
  BY DEF VcWriteTooLong, Plain
<1> QED
  BY <1>3, <1>4, <1>5, <1>6, <1>7, <1>8, <1>9, <1>10, <1>11, <1>12, <1>13
  DEF Next, VenusStep

\* How far a call has come changes for one caller only.
LEMMA PhaseOne ==
  ASSUME NEW c \in Callers,
         \A b \in Callers : b # c => pc'[b] = pc[b] /\ vmsg'[b] = vmsg[b],
         UNCHANGED open
  PROVE  /\ PhaseOf' = [PhaseOf EXCEPT ![c] = PhaseOf'[c]]
         /\ TargetOf' = [TargetOf EXCEPT ![c] = vmsg'[c].dev]
         /\ AnswerOf' = [AnswerOf EXCEPT ![c] = vmsg'[c].result]
<1>1. /\ DOMAIN PhaseOf = Callers
      /\ PhaseOf' = [b \in Callers |-> PhaseOf'[b]]
      /\ PhaseOf = [b \in Callers |-> PhaseOf[b]]
  BY DEF PhaseOf
<1>2. \A b \in Callers : b # c => PhaseOf'[b] = PhaseOf[b]
  BY DEF PhaseOf
<1>3. PhaseOf' = [PhaseOf EXCEPT ![c] = PhaseOf'[c]]
  BY <1>1, <1>2
<1>4. TargetOf' = [TargetOf EXCEPT ![c] = vmsg'[c].dev]
  BY DEF TargetOf
<1>5. AnswerOf' = [AnswerOf EXCEPT ![c] = vmsg'[c].result]
  BY DEF AnswerOf
<1> QED
  BY <1>3, <1>4, <1>5

\* The outcome of one caller changes.
LEMMA OutcomeOne ==
  ASSUME TypeOK, NEW c \in Callers, NEW r, ret' = [ret EXCEPT ![c] = r]
  PROVE  OutcomeOf' = [OutcomeOf EXCEPT ![c] = [status |-> r.status, result |-> r.result]]
<1>1. ret \in [Callers -> [dev : Devs, unique : Nat, status : Status, result : Results]]
  BY DEF TypeOK
<1>2. \A b \in Callers : ret'[b] = IF b = c THEN r ELSE ret[b]
  BY <1>1
<1> QED
  BY <1>2 DEF OutcomeOf
\* The device is opened, and nobody is in a call to it; or it is closed, and who
\* is in a call to it is an orphan.
LEMMA AttachStep ==
  ASSUME RpcInv, Plain, NEW d \in Devs, VcOpen(d)
  PROVE  Rpc!Attach(d)
<1>1. /\ InCall(d) = {} /\ ~open[d] /\ open' = [open EXCEPT ![d] = TRUE]
      /\ UNCHANGED <<pc, vmsg, ret>> /\ open \in [Devs -> BOOLEAN]
  BY DEF VcOpen, MayOpen, Plain, RpcInv, MatchInv, TypeOK
<1>2. \A c \in Callers : pc[c] # "idle" => open'[vmsg[c].dev] = open[vmsg[c].dev]
  <2>1. \A c \in Callers : vmsg[c].dev \in Devs
    BY DEF RpcInv, MatchInv, TypeOK, Vmsg
  <2> QED
    BY <1>1, <2>1 DEF InCall
<1>3. UNCHANGED PhaseOf
  <2>1. \A c \in Callers : PhaseOf'[c] = PhaseOf[c]
    BY <1>1, <1>2 DEF PhaseOf
  <2> QED
    BY <2>1 DEF PhaseOf
<1>4. UNCHANGED <<TargetOf, AnswerOf, OutcomeOf>>
  BY <1>1 DEF TargetOf, AnswerOf, OutcomeOf
<1> QED
  BY <1>1, <1>3, <1>4 DEF Rpc!Attach

LEMMA DieStep ==
  ASSUME RpcInv, NEW d \in Devs, VcCloseBare(d) \/ VcClose(d)
  PROVE  Rpc!Die(d)
<1>1. /\ open[d] /\ open' = [open EXCEPT ![d] = FALSE] /\ UNCHANGED <<vmsg, ret>>
      /\ open \in [Devs -> BOOLEAN] /\ pc \in [Callers -> {"idle", "asleep", "woken"}]
  BY DEF VcCloseBare, VcClose, RpcInv, MatchInv, TypeOK
<1>2. \A c \in Callers : vmsg[c].dev \in Devs
  BY DEF RpcInv, MatchInv, TypeOK, Vmsg
<1>3. \A c \in Callers : pc'[c] = "idle" <=> pc[c] = "idle"
  <2>1. CASE VcCloseBare(d)
    BY <2>1 DEF VcCloseBare
  <2>2. CASE VcClose(d)
    <3>1. \A c \in Waiting(d) : pc[c] # "idle"
      <4>1. ASSUME NEW c \in On(requests[d]) PROVE pc[c] # "idle"
        <5>1. PICK i \in DOMAIN requests[d] : requests[d][i] = CallMsg(c)
          BY DEF On
        <5>2. IsCall(requests[d][i]) /\ requests[d][i].caller = c
          BY <5>1 DEF CallMsg, IsCall
        <5>3. Expects(d, requests[d][i], FALSE)
          BY <5>2, QueueFacts DEF RpcInv
        <5> QED
          BY <5>2, <5>3 DEF Expects
      <4>2. ASSUME NEW c \in On(replys[d]) PROVE pc[c] # "idle"
        <5>1. PICK i \in DOMAIN replys[d] : replys[d][i] = CallMsg(c)
          BY DEF On
        <5>2. replys[d][i].caller = c
          BY <5>1 DEF CallMsg
        <5>3. Expects(d, replys[d][i], TRUE)
          BY QueueFacts DEF RpcInv
        <5> QED
          BY <5>2, <5>3 DEF Expects
      <4> QED
        BY <4>1, <4>2 DEF Waiting
    <3> QED
      BY <2>2, <3>1 DEF VcClose, Wakeup
  <2> QED
    BY <2>1, <2>2
<1>4. \A c \in Callers : open'[vmsg[c].dev] = (open[vmsg[c].dev] /\ vmsg[c].dev # d)
  BY <1>1, <1>2
<1>5. \A c \in Callers : TargetOf[c] = vmsg[c].dev /\ (PhaseOf[c] = "idle" <=> pc[c] = "idle")
  BY DEF TargetOf, PhaseOf
<1>6. PhaseOf' = [c \in Callers |-> IF PhaseOf[c] # "idle" /\ TargetOf[c] = d
                                    THEN "orphaned" ELSE PhaseOf[c]]
  <2>1. \A c \in Callers : PhaseOf'[c] = IF PhaseOf[c] # "idle" /\ TargetOf[c] = d
                                         THEN "orphaned" ELSE PhaseOf[c]
    <3> TAKE c \in Callers
    <3>1. CASE pc[c] = "idle"
      BY <1>3, <1>5, <3>1 DEF PhaseOf
    <3>2. CASE pc[c] # "idle" /\ vmsg[c].dev = d
      <4>1. pc'[c] # "idle" /\ ~open'[vmsg'[c].dev]
        BY <1>1, <1>3, <1>4, <3>2
      <4>2. PhaseOf'[c] = "orphaned"
        BY <4>1 DEF PhaseOf
      <4> QED
        BY <1>5, <3>2, <4>2
    <3>3. CASE pc[c] # "idle" /\ vmsg[c].dev # d
      <4>1. /\ pc'[c] # "idle" /\ vmsg'[c] = vmsg[c]
            /\ open'[vmsg'[c].dev] = open[vmsg[c].dev]
        BY <1>1, <1>2, <1>3, <3>3
      <4>2. PhaseOf'[c] = PhaseOf[c]
        BY <3>3, <4>1 DEF PhaseOf
      <4> QED
        BY <1>5, <3>3, <4>2
    <3> QED
      BY <3>1, <3>2, <3>3
  <2> QED
    BY <2>1 DEF PhaseOf
<1>7. UNCHANGED <<TargetOf, AnswerOf, OutcomeOf>>
  BY <1>1 DEF TargetOf, AnswerOf, OutcomeOf
<1> QED
  BY <1>1, <1>6, <1>7 DEF Rpc!Die

\* Venus takes a request by reading it; reading a signal is nothing to a caller.
LEMMA TakeStep ==
  ASSUME RpcInv, NEW d \in Devs, VcRead(d)
  PROVE  (\E c \in Callers : Rpc!Take(c)) \/ UNCHANGED Rpc!rpcVars
<1>1. requests \in [Devs -> Seq(Message)] /\ vmsg \in [Callers -> Vmsg]
  BY DEF RpcInv, MatchInv, TypeOK
<1>2. /\ open[d] /\ requests[d] # <<>> /\ UNCHANGED <<open, pc, ret>>
      /\ \/ /\ IsCall(Head(requests[d]))
            /\ vmsg' = [vmsg EXCEPT ![Head(requests[d]).caller].read = TRUE]
         \/ ~IsCall(Head(requests[d])) /\ UNCHANGED vmsg
  BY DEF VcRead
<1>3. CASE UNCHANGED vmsg
  BY <1>2, <1>3 DEF Rpc!rpcVars, PhaseOf, TargetOf, AnswerOf, OutcomeOf
<1>4. CASE IsCall(Head(requests[d])) /\ ~UNCHANGED vmsg
  <2>1. 1 \in DOMAIN requests[d] /\ Head(requests[d]) = requests[d][1]
    BY <1>1, <1>2
  <2>2. PICK c \in Callers : c = Head(requests[d]).caller
    BY <2>1, QueueFacts DEF RpcInv
  <2>3. Expects(d, requests[d][1], FALSE)
    BY <1>4, <2>1, QueueFacts DEF RpcInv
  <2>4. pc[c] = "asleep" /\ vmsg[c].dev = d /\ ~vmsg[c].read /\ ~vmsg[c].write
    BY <2>1, <2>2, <2>3 DEF Expects
  <2>5. vmsg' = [vmsg EXCEPT ![c].read = TRUE]
    BY <1>2, <1>4, <2>2
  <2>6. vmsg'[c] = [vmsg[c] EXCEPT !.read = TRUE] /\ vmsg[c] \in Vmsg
    BY <1>1, <2>5
  <2>7. /\ vmsg'[c].dev = vmsg[c].dev /\ vmsg'[c].result = vmsg[c].result
        /\ vmsg'[c].read /\ vmsg'[c].write = vmsg[c].write
    BY <2>6 DEF Vmsg
  <2>8. \A b \in Callers : b # c => pc'[b] = pc[b] /\ vmsg'[b] = vmsg[b]
    BY <1>1, <1>2, <2>5
  <2>9. PhaseOf[c] = "sent" /\ PhaseOf'[c] = "taken"
    <3>1. PhaseOf[c] = "sent"
      BY <1>2, <2>4 DEF PhaseOf
    <3>2. pc'[c] # "idle" /\ open'[vmsg'[c].dev]
      BY <1>2, <2>4, <2>7
    <3>3. PhaseOf'[c] = "taken"
      BY <2>4, <2>7, <3>2 DEF PhaseOf
    <3> QED
      BY <3>1, <3>3
  <2>10. UNCHANGED <<TargetOf, AnswerOf>>
    <3>1. \A b \in Callers : vmsg'[b].dev = vmsg[b].dev /\ vmsg'[b].result = vmsg[b].result
      BY <2>7, <2>8
    <3> QED
      BY <3>1 DEF TargetOf, AnswerOf
  <2>11. UNCHANGED <<open, OutcomeOf>>
    BY <1>2 DEF OutcomeOf
  <2>12. PhaseOf' = [PhaseOf EXCEPT ![c] = "taken"]
    BY <1>2, <2>8, <2>9, PhaseOne
  <2>13. Rpc!Take(c)
    BY <2>9, <2>10, <2>11, <2>12 DEF Rpc!Take
  <2> QED
    BY <2>13
<1> QED
  BY <1>2, <1>3, <1>4

\* The reply Venus writes is the answer to the call that waits for it.
LEMMA AnswerStep ==
  ASSUME RpcInv, NEW d \in Devs, NEW seq, NEW r \in Results, VcWrite(d, seq, r)
  PROVE  \E c \in Callers : Rpc!Answer(c, r)
<1>1. pc \in [Callers -> {"idle", "asleep", "woken"}] /\ vmsg \in [Callers -> Vmsg]
  BY DEF RpcInv, MatchInv, TypeOK
<1>2. PICK i \in DOMAIN replys[d] :
        /\ Wakeup({replys[d][i].caller})
        /\ vmsg' = [vmsg EXCEPT ![replys[d][i].caller].write = TRUE,
                                ![replys[d][i].caller].result = r]
  BY DEF VcWrite, Awaiting
<1>3. PICK c \in Callers : c = replys[d][i].caller
  BY QueueFacts DEF RpcInv
<1>4. Expects(d, replys[d][i], TRUE)
  BY QueueFacts DEF RpcInv
<1>5. pc[c] = "asleep" /\ vmsg[c].dev = d /\ vmsg[c].read /\ ~vmsg[c].write
  BY <1>3, <1>4 DEF Expects
<1>6. open[d] /\ UNCHANGED <<open, ret>>
  BY DEF VcWrite
<1>7. vmsg'[c] = [vmsg[c] EXCEPT !.write = TRUE, !.result = r] /\ vmsg[c] \in Vmsg
  BY <1>1, <1>2, <1>3
<1>8. vmsg'[c].dev = vmsg[c].dev /\ vmsg'[c].result = r /\ vmsg'[c].write
  BY <1>7 DEF Vmsg
<1>9. pc'[c] = "woken" /\ \A b \in Callers : b # c => pc'[b] = pc[b] /\ vmsg'[b] = vmsg[b]
  BY <1>1, <1>2, <1>3 DEF Wakeup
<1>10. PhaseOf[c] = "taken"
  BY <1>5, <1>6 DEF PhaseOf
<1>11. PhaseOf'[c] = "answered"
  <2>1. pc'[c] # "idle" /\ open'[vmsg'[c].dev]
    BY <1>5, <1>6, <1>8, <1>9
  <2> QED
    BY <1>8, <2>1 DEF PhaseOf
<1>12. /\ PhaseOf' = [PhaseOf EXCEPT ![c] = "answered"]
       /\ AnswerOf' = [AnswerOf EXCEPT ![c] = r]
  BY <1>6, <1>8, <1>9, <1>11, PhaseOne
<1>13. UNCHANGED <<open, TargetOf, OutcomeOf>>
  <2>1. \A b \in Callers : vmsg'[b].dev = vmsg[b].dev
    BY <1>8, <1>9
  <2> QED
    BY <1>6, <2>1 DEF TargetOf, OutcomeOf
<1>14. Rpc!Answer(c, r)
  BY <1>10, <1>12, <1>13 DEF Rpc!Answer
<1> QED
  BY <1>14

\* A call begins, or is refused because the device is closed.
LEMMA IssueStep ==
  ASSUME RpcInv, NEW c \in Callers, NEW d \in Devs, CallStart(c, d)
  PROVE  Rpc!Issue(c, d)
<1>1. pc \in [Callers -> {"idle", "asleep", "woken"}] /\ vmsg \in [Callers -> Vmsg]
  BY DEF RpcInv, MatchInv, TypeOK
<1>2. /\ pc[c] = "idle" /\ open[d] /\ UNCHANGED <<open, ret>>
      /\ pc' = [pc EXCEPT ![c] = "asleep"]
      /\ vmsg' = [vmsg EXCEPT ![c] = Fresh(d, NextUnique(d))]
  BY DEF CallStart
<1>3. /\ vmsg'[c].dev = d /\ ~vmsg'[c].read /\ ~vmsg'[c].write
      /\ vmsg'[c].result = AnyResult /\ pc'[c] = "asleep"
  BY <1>1, <1>2 DEF Fresh
<1>4. \A b \in Callers : b # c => pc'[b] = pc[b] /\ vmsg'[b] = vmsg[b]
  BY <1>1, <1>2
<1>5. PhaseOf[c] = "idle"
  BY <1>2 DEF PhaseOf
<1>6. PhaseOf'[c] = "sent"
  <2>1. pc'[c] # "idle" /\ open'[vmsg'[c].dev]
    BY <1>2, <1>3
  <2> QED
    BY <1>3, <2>1 DEF PhaseOf
<1>7. /\ PhaseOf' = [PhaseOf EXCEPT ![c] = "sent"]
      /\ TargetOf' = [TargetOf EXCEPT ![c] = d]
      /\ AnswerOf' = [AnswerOf EXCEPT ![c] = AnyResult]
  BY <1>2, <1>3, <1>4, <1>6, PhaseOne
<1>8. UNCHANGED OutcomeOf
  BY <1>2 DEF OutcomeOf
<1> QED
  BY <1>2, <1>5, <1>7, <1>8, AnyInSets DEF Rpc!Issue

LEMMA RefuseStep ==
  ASSUME RpcInv, Plain, NEW c \in Callers, NEW d \in Devs, CallRefused(c, d)
  PROVE  Rpc!Refuse(c)
<1>1. /\ pc[c] = "idle" /\ ~open[d] /\ UNCHANGED <<open, pc, vmsg>>
      /\ ret' = [ret EXCEPT ![c] = Return(d, 0, "ENODEV", AnyResult)]
  BY DEF CallRefused, Plain
<1>2. OutcomeOf' = [OutcomeOf EXCEPT ![c] = [status |-> "ENODEV", result |-> AnyResult]]
  <2>1. TypeOK
    BY DEF RpcInv, MatchInv
  <2>2. /\ Return(d, 0, "ENODEV", AnyResult).status = "ENODEV"
        /\ Return(d, 0, "ENODEV", AnyResult).result = AnyResult
    BY DEF Return
  <2> QED
    BY <1>1, <2>1, <2>2, OutcomeOne
<1>3. PhaseOf[c] = "idle" /\ UNCHANGED <<PhaseOf, TargetOf, AnswerOf>>
  BY <1>1 DEF PhaseOf, TargetOf, AnswerOf
<1> QED
  BY <1>1, <1>2, <1>3, AnyInSets DEF Rpc!Refuse, Rpc!NoDevice

\* A call that returns has been answered, or is an orphan.
LEMMA ReturnStep ==
  ASSUME RpcInv, NEW c \in Callers, CallReturn(c)
  PROVE  Rpc!Return(c) \/ Rpc!Fail(c)
<1>1. /\ pc \in [Callers -> {"idle", "asleep", "woken"}] /\ vmsg \in [Callers -> Vmsg]
      /\ TypeOK
  BY DEF RpcInv, MatchInv, TypeOK
<1>2. CallAnswered(c) \/ CallOrphaned(c)
  BY DEF CallReturn, CallInterrupted, CallSignalled, RpcInv, WokenInv
<1>3. /\ pc[c] = "woken" /\ UNCHANGED open
      /\ pc' = [pc EXCEPT ![c] = "idle"] /\ vmsg' = [vmsg EXCEPT ![c] = Freed]
  BY <1>2 DEF CallAnswered, CallOrphaned, Leave
<1>4. pc'[c] = "idle" /\ vmsg'[c].dev = AnyDev /\ vmsg'[c].result = AnyResult
  BY <1>1, <1>3 DEF Freed, Fresh
<1>5. \A b \in Callers : b # c => pc'[b] = pc[b] /\ vmsg'[b] = vmsg[b]
  BY <1>1, <1>3
<1>6. PhaseOf'[c] = "idle"
  BY <1>4 DEF PhaseOf
<1>7. Rpc!Forget(c)
  <2>1. /\ PhaseOf' = [PhaseOf EXCEPT ![c] = "idle"]
        /\ TargetOf' = [TargetOf EXCEPT ![c] = AnyDev]
        /\ AnswerOf' = [AnswerOf EXCEPT ![c] = AnyResult]
    BY <1>3, <1>4, <1>5, <1>6, PhaseOne
  <2> QED
    BY <1>3, <2>1, AnyInSets DEF Rpc!Forget
<1>8. CASE CallAnswered(c)
  <2>1. /\ open[vmsg[c].dev] /\ vmsg[c].write
        /\ ret' = [ret EXCEPT ![c] = Return(vmsg[c].dev, vmsg[c].unique, "ok",
                                            vmsg[c].result)]
    BY <1>8 DEF CallAnswered, Leave
  <2>2. PhaseOf[c] = "answered" /\ AnswerOf[c] = vmsg[c].result
    BY <1>3, <2>1 DEF PhaseOf, AnswerOf
  <2>3. OutcomeOf' = [OutcomeOf EXCEPT ![c] = [status |-> "ok", result |-> vmsg[c].result]]
    <3> DEFINE r == Return(vmsg[c].dev, vmsg[c].unique, "ok", vmsg[c].result)
    <3>1. r.status = "ok" /\ r.result = vmsg[c].result
      BY DEF Return
    <3>2. ret' = [ret EXCEPT ![c] = r]
      BY <2>1
    <3> HIDE DEF r
    <3>3. OutcomeOf' = [OutcomeOf EXCEPT ![c] = [status |-> r.status, result |-> r.result]]
      BY <1>1, <3>2, OutcomeOne
    <3> QED
      BY <3>1, <3>3
  <2>4. Rpc!Return(c)
    BY <1>7, <2>2, <2>3 DEF Rpc!Return, Rpc!Got
  <2> QED
    BY <2>4
<1>9. CASE CallOrphaned(c)
  <2>1. /\ ~open[vmsg[c].dev]
        /\ ret' = [ret EXCEPT ![c] = Return(vmsg[c].dev, vmsg[c].unique, "ENODEV",
                                            AnyResult)]
    BY <1>9 DEF CallOrphaned, Leave
  <2>2. PhaseOf[c] = "orphaned"
    BY <1>3, <2>1 DEF PhaseOf
  <2>3. OutcomeOf' = [OutcomeOf EXCEPT ![c] = [status |-> "ENODEV", result |-> AnyResult]]
    <3> DEFINE r == Return(vmsg[c].dev, vmsg[c].unique, "ENODEV", AnyResult)
    <3>1. r.status = "ENODEV" /\ r.result = AnyResult
      BY DEF Return
    <3>2. ret' = [ret EXCEPT ![c] = r]
      BY <2>1
    <3> HIDE DEF r
    <3>3. OutcomeOf' = [OutcomeOf EXCEPT ![c] = [status |-> r.status, result |-> r.result]]
      BY <1>1, <3>2, OutcomeOne
    <3> QED
      BY <3>1, <3>3
  <2>4. Rpc!Fail(c)
    BY <1>7, <2>2, <2>3, AnyInSets DEF Rpc!Fail, Rpc!NoDevice
  <2> QED
    BY <2>4
<1> QED
  BY <1>2, <1>8, <1>9

LEMMA RpcStep ==
  ASSUME RpcInv, Plain, [Next]_vars
  PROVE  [Rpc!Next]_Rpc!rpcVars
<1>1. CASE UNCHANGED vars
  <2>1. UNCHANGED <<open, PhaseOf, TargetOf, AnswerOf, OutcomeOf>>
    BY <1>1 DEF vars, PhaseOf, TargetOf, AnswerOf, OutcomeOf
  <2> QED
    BY <2>1 DEF Rpc!rpcVars
<1>2. ASSUME UNCHANGED <<open, pc, vmsg, ret>>
      PROVE  UNCHANGED Rpc!rpcVars
  <2>1. UNCHANGED <<open, PhaseOf, TargetOf, AnswerOf, OutcomeOf>>
    BY <1>2 DEF PhaseOf, TargetOf, AnswerOf, OutcomeOf
  <2> QED
    BY <2>1 DEF Rpc!rpcVars
<1>3. ASSUME NEW d \in Devs, VenusStep(d) \/ VcCloseUnmount(d)
      PROVE  [Rpc!Next]_Rpc!rpcVars
  <2>1. CASE VcOpen(d)
    BY <2>1, AttachStep DEF Rpc!Next
  <2>2. CASE VcCloseBare(d) \/ VcClose(d)
    BY <2>2, DieStep DEF Rpc!Next
  <2>3. CASE VcRead(d)
    BY <2>3, TakeStep DEF Rpc!Next
  <2>4. CASE Mount(d) \/ VcCloseUnmount(d)
    BY <1>2, <2>4 DEF Mount, VcCloseUnmount
  <2>5. ASSUME NEW seq \in 1..MaxCalls, VcWriteTooLong(d, seq)
        PROVE  FALSE
    BY <2>5 DEF VcWriteTooLong, Plain
  <2>6. ASSUME NEW seq \in 1..MaxCalls, VcWriteFault(d, seq)
        PROVE  [Rpc!Next]_Rpc!rpcVars
    BY <1>2, <2>6 DEF VcWriteFault
  <2>7. ASSUME NEW seq \in 1..MaxCalls, NEW r \in Results, VcWrite(d, seq, r)
        PROVE  [Rpc!Next]_Rpc!rpcVars
    BY <2>7, AnswerStep DEF Rpc!Next
  <2> QED
    BY <1>3, <2>1, <2>2, <2>3, <2>4, <2>5, <2>6, <2>7 DEF VenusStep
<1>4. ASSUME NEW c \in Callers, CallReturn(c)
      PROVE  [Rpc!Next]_Rpc!rpcVars
  BY <1>4, ReturnStep DEF Rpc!Next
<1>5. ASSUME NEW c \in Callers, NEW d \in Devs, CallStart(c, d)
      PROVE  [Rpc!Next]_Rpc!rpcVars
  BY <1>5, IssueStep DEF Rpc!Next
<1>6. ASSUME NEW c \in Callers, NEW d \in Devs, CallRefused(c, d)
      PROVE  [Rpc!Next]_Rpc!rpcVars
  BY <1>6, RefuseStep DEF Rpc!Next
<1> QED
  BY <1>1, <1>3, <1>4, <1>5, <1>6 DEF Next

LEMMA RpcInit == Init => Rpc!Init
<1> SUFFICES ASSUME Init PROVE Rpc!Init
  OBVIOUS
<1>1. /\ open = [d \in Devs |-> FALSE] /\ pc = [c \in Callers |-> "idle"]
      /\ vmsg = [c \in Callers |-> Freed]
      /\ ret = [c \in Callers |-> Return(AnyDev, 0, "none", AnyResult)]
  BY DEF Init
<1>2. PhaseOf = [c \in Callers |-> "idle"]
  BY <1>1 DEF PhaseOf
<1>3. TargetOf \in [Callers -> Devs] /\ AnswerOf \in [Callers -> Results]
  BY <1>1, AnyInSets DEF TargetOf, AnswerOf, Freed, Fresh
<1>4. OutcomeOf = [c \in Callers |-> [status |-> "none", result |-> AnyResult]]
  BY <1>1 DEF OutcomeOf, Return
<1> QED
  BY <1>1, <1>2, <1>3, <1>4, AnyInSets DEF Rpc!Init, Rpc!Nothing

\* Requests are taken once and answered once, by Venus, and fail only when it is
\* gone: every step of the queues, sequence numbers and wakeups is one of CodaRpc,
\* or nothing to it.  (That calls also end is for TLC, see CallersGetOut.)
THEOREM UpcallImplementsRpc == ASSUME Plain PROVE Safe => Rpc!Safe
<1>1. Init => RpcInv
  <2>1. Init => WokenInv
    BY DEF Init, WokenInv
  <2> QED
    BY <2>1, InitMatch DEF RpcInv
<1>2. RpcInv /\ [Next]_vars => RpcInv'
  BY NextMatch, NextWoken DEF RpcInv
<1>3. RpcInv /\ [Next]_vars => [Rpc!Next]_Rpc!rpcVars
  BY RpcStep
<1> QED
  BY <1>1, <1>2, <1>3, RpcInit, PTL DEF Safe, Rpc!Safe
=============================================================================
