------------------------------ MODULE CodaFile ------------------------------
(***************************************************************************)
(* One Coda file or directory and the container that holds its contents:   *)
(* coda_open, coda_close, coda_rdwr, coda_pagein, coda_readdir,            *)
(* coda_getattr and coda_setattr of coda_vnops.c.  A container is a local  *)
(* file of Venus; what Venus does is taken from the replies the code uses. *)
(*                                                                         *)
(* A thread opens, reads and sets attributes with the vnode locked; it     *)
(* closes, pages in and gets attributes without the lock.  It may lose the *)
(* kernel funnel wherever it sleeps: in an upcall, in VFS_VGET, in reading *)
(* or writing the container and in closing it.                             *)
(***************************************************************************)
EXTENDS Integers, FiniteSets

CONSTANTS
  Threads,     \* threads of the kernel
  Containers,  \* container files
  Null,        \* no container, no attributes, no thread
  Kinds,       \* subset of {"reg", "dir"}: what the vnode may be
  MaxVersion,  \* bound on the changes of the contents
  MaxOpens,    \* bound on the opens Venus or the cnode counts at a time
  MaxFailed,   \* bound on the opens that fail after they were counted
  MaxGrabs,    \* bound on the references coda_rdwr and coda_pagein leave behind
  Env          \* misfortunes: see Prompt, Shared and the actions that name them

Modes == {"r", "w"}
Versions == 0..MaxVersion

ASSUME FileAssumption ==
  /\ IsFiniteSet(Threads) /\ Containers # {}
  /\ Null \notin Containers \cup Threads \cup Versions
  /\ Kinds \subseteq {"reg", "dir"}
  /\ MaxVersion \in Nat /\ MaxOpens \in Nat /\ MaxGrabs \in Nat /\ MaxFailed \in Nat
  /\ Env \subseteq {"slow", "shared", "failing", "interrupt", "replaced", "unmount"}

VARIABLES
  kind,      \* v_type
  lock,      \* who holds c_lock
  cnode,     \* c_ovp, c_ocount, c_owrite, c_device and c_inode, c_vattr, C_UNMOUNTING
  use,       \* references of the vnode that coda_open took
  refs,      \* references of each container
  opens,     \* how often each container is open
  fd,        \* the mode of the descriptor of each thread, "no" without one
  pc,        \* where each thread is
  venus,     \* the container Venus uses for the file and how often it is open
  data,      \* the version of the contents each container has
  failed,    \* history: how often coda_open failed after it had counted the open
  grabbed,   \* history: references of each container nobody will release
  panicked   \* coda_open called panic

vars == <<kind, lock, cnode, use, refs, opens, fd, pc, venus, data, failed, grabbed, panicked>>

Idle == [at |-> "idle", mode |-> "r", got |-> Null, inner |-> FALSE]

TypeOK ==
  /\ kind \in {"reg", "dir"} /\ lock \in Threads \cup {Null}
  /\ cnode \in [ovp : Containers \cup {Null}, ocount : Nat, owrite : Nat,
                inode : Containers \cup {Null}, vattr : Versions \cup {Null},
                unmounting : BOOLEAN]
  /\ use \in 0..MaxOpens /\ refs \in [Containers -> Nat] /\ opens \in [Containers -> Nat]
  /\ fd \in [Threads -> Modes \cup {"no"}]
  /\ pc \in [Threads -> [at : {"idle", "open", "grab", "io", "wrote", "vclose", "close",
                               "getattr", "answered", "setattr", "set"},
                         mode : Modes, got : Containers \cup Versions \cup {Null},
                         inner : BOOLEAN]]
  /\ venus \in [file : Containers, opens : 0..MaxOpens]
  /\ data \in [Containers -> Versions]
  /\ failed \in [Modes -> 0..MaxFailed]
  /\ grabbed \in [Containers -> 0..MaxGrabs] /\ panicked \in BOOLEAN

Init ==
  /\ kind \in Kinds /\ lock = Null
  /\ cnode = [ovp |-> Null, ocount |-> 0, owrite |-> 0, inode |-> Null, vattr |-> Null,
              unmounting |-> FALSE]
  /\ use = 0
  /\ refs = [c \in Containers |-> 0] /\ opens = [c \in Containers |-> 0]
  /\ fd = [t \in Threads |-> "no"] /\ pc = [t \in Threads |-> Idle]
  /\ venus \in [file : Containers, opens : {0}]
  /\ data = [c \in Containers |-> 0]
  /\ failed = [m \in Modes |-> 0]
  /\ grabbed = [c \in Containers |-> 0] /\ panicked = FALSE

-----------------------------------------------------------------------------

At(t, s) == pc[t].at = s
Go(t, s) == pc' = [pc EXCEPT ![t].at = s]

\* Unless "slow" is in Env, a thread whose getattr or setattr was answered runs
\* before anything else happens to the file.  Venus itself is Null.
Prompt(t) ==
  "slow" \in Env \/ \A u \in Threads \ {t} : pc[u].at \notin {"answered", "set"}

\* Unless "shared" is in Env, nobody uses c_ovp without having the file open.
Shared(t) == "shared" \in Env \/ fd[t] # "no" \/ cnode.ovp = Null

Lock(t) == lock = Null /\ lock' = t
Unlocked(t) == IF lock = t THEN Null ELSE lock

-----------------------------------------------------------------------------
(* coda_open                                                               *)

\* venus_open, on behalf of a user or, inner, of coda_rdwr, coda_pagein and
\* coda_readdir.
Venus_open(t, m, inner) ==
  pc' = [pc EXCEPT ![t] = [at |-> "open", mode |-> m, got |-> Null, inner |-> inner]]

coda_open(t, m) ==
  /\ Prompt(t) /\ At(t, "idle") /\ fd[t] = "no" /\ Lock(t)
  /\ kind = "dir" => m = "r"
  /\ Venus_open(t, m, FALSE)
  /\ UNCHANGED <<kind, cnode, use, refs, opens, fd, venus, data, failed, grabbed, panicked>>

OpenAnswer(t) ==
  /\ Prompt(t) /\ At(t, "open") /\ ~cnode.unmounting /\ venus.opens < MaxOpens
  /\ pc' = [pc EXCEPT ![t].at = "grab", ![t].got = venus.file]
  /\ venus' = [venus EXCEPT !.opens = @ + 1]
  /\ UNCHANGED <<kind, lock, cnode, use, refs, opens, fd, data, failed, grabbed, panicked>>

\* coda_open returns an error: that of venus_open, when Venus refuses, a signal
\* arrives or the device is closed (Venus undoes an open whose answer nobody
\* takes), or that of coda_grab_vnode, which Venus is not told.
OpenFails(t) ==
  /\ Prompt(t)
  /\ \/ At(t, "open")
     \/ At(t, "grab") /\ "failing" \in Env
  /\ pc' = [pc EXCEPT ![t] = Idle] /\ lock' = Unlocked(t)
  /\ UNCHANGED <<kind, cnode, use, refs, opens, fd, venus, data, failed, grabbed, panicked>>

\* What coda_open does to the cnode once it has the container c.
Opened(c, m) ==
  [cnode EXCEPT !.ovp = IF @ = Null THEN c ELSE @, !.ocount = @ + 1, !.inode = c,
                !.owrite = IF m = "w" THEN @ + 1 ELSE @,
                !.vattr = IF m = "w" THEN Null ELSE @]

\* The container has been found: count the open, remember the container, open it.
OpenDone(t) ==
  LET c == pc[t].got  m == pc[t].mode IN
  /\ Prompt(t) /\ At(t, "grab") /\ use < MaxOpens
  /\ panicked' = (panicked \/ cnode.ovp \notin {Null, c})
  /\ cnode' = Opened(c, m) /\ use' = use + 1
  /\ refs' = [refs EXCEPT ![c] = @ + 1] /\ opens' = [opens EXCEPT ![c] = @ + 1]
  /\ IF pc[t].inner
       THEN Go(t, "io") /\ UNCHANGED <<fd, lock>>
       ELSE /\ pc' = [pc EXCEPT ![t] = Idle]
            /\ fd' = [fd EXCEPT ![t] = m] /\ lock' = Unlocked(t)
  /\ UNCHANGED <<kind, venus, data, failed, grabbed>>

\* VOP_OPEN of the container fails: only the reference of the container is
\* given back.
OpenContainerFails(t) ==
  LET c == pc[t].got IN
  /\ Prompt(t) /\ At(t, "grab") /\ "failing" \in Env /\ use < MaxOpens
  /\ failed[pc[t].mode] < MaxFailed
  /\ failed' = [failed EXCEPT ![pc[t].mode] = @ + 1]
  /\ panicked' = (panicked \/ cnode.ovp \notin {Null, c})
  /\ cnode' = Opened(c, pc[t].mode) /\ use' = use + 1
  /\ pc' = [pc EXCEPT ![t] = Idle] /\ lock' = Unlocked(t)
  /\ UNCHANGED <<kind, refs, opens, fd, venus, data, grabbed>>

-----------------------------------------------------------------------------
(* coda_close                                                              *)

\* The close returns: a user's descriptor is gone, coda_rdwr goes on.
Returns(t) ==
  /\ pc' = [pc EXCEPT ![t] = Idle]
  /\ IF pc[t].inner THEN UNCHANGED fd /\ lock' = Unlocked(t)
     ELSE fd' = [fd EXCEPT ![t] = "no"] /\ UNCHANGED lock

\* A user closes its descriptor, or coda_rdwr, coda_pagein or coda_readdir
\* closes what it opened.
Closing(t) ==
  IF pc[t].inner THEN At(t, "wrote") \/ (At(t, "io") /\ pc[t].mode = "r")
  ELSE At(t, "idle") /\ fd[t] # "no"

\* vrele of the container
Released_Not(c) == refs
Released(c) == [refs EXCEPT ![c] = @ - 1]

\* Directories stay open.
CloseDirectory(t) ==
  /\ Prompt(t) /\ Closing(t) /\ kind = "dir"
  /\ Returns(t)
  /\ UNCHANGED <<kind, cnode, use, refs, opens, venus, data, failed, grabbed, panicked>>

\* coda_rdwr drops the attributes after it has closed what it opened for writing.
Flushed(t) ==
  IF pc[t].inner /\ pc[t].mode = "w" THEN [cnode EXCEPT !.vattr = Null] ELSE cnode

\* NODEV: the container is closed, but the cnode keeps it.
CloseUnmounting(t) ==
  /\ Prompt(t) /\ Closing(t) /\ kind = "reg" /\ cnode.unmounting /\ cnode.ovp # Null
  /\ opens' = [opens EXCEPT ![cnode.ovp] = @ - 1]
  /\ refs' = Released(cnode.ovp)
  /\ cnode' = Flushed(t) /\ Returns(t)
  /\ UNCHANGED <<kind, use, venus, data, failed, grabbed, panicked>>

coda_close(t) ==
  /\ Prompt(t) /\ Closing(t) /\ kind = "reg" /\ ~cnode.unmounting /\ cnode.ovp # Null
  /\ opens' = [opens EXCEPT ![cnode.ovp] = @ - 1]
  /\ pc' = [pc EXCEPT ![t].at = "vclose",
                      ![t].mode = IF pc[t].inner THEN @ ELSE fd[t]]
  /\ UNCHANGED <<kind, lock, cnode, use, refs, fd, venus, data, failed, grabbed, panicked>>

\* What coda_close does to the cnode.
Closed_KeepsContainer(m) ==
  [cnode EXCEPT !.ocount = @ - 1, !.owrite = IF m = "w" THEN @ - 1 ELSE @]
Closed_NotWrite(m) ==
  [cnode EXCEPT !.ocount = @ - 1, !.ovp = IF cnode.ocount = 1 THEN Null ELSE @]
Closed(m) ==
  [cnode EXCEPT !.ocount = @ - 1, !.ovp = IF cnode.ocount = 1 THEN Null ELSE @,
                !.owrite = IF m = "w" THEN @ - 1 ELSE @]

\* The container has been closed: give it back, count, and tell Venus.
CloseCounts(t) ==
  /\ Prompt(t) /\ At(t, "vclose")
  /\ refs' = Released(cnode.ovp)
  /\ cnode' = Closed(pc[t].mode)
  /\ Go(t, "close")
  /\ UNCHANGED <<kind, lock, use, opens, fd, venus, data, failed, grabbed, panicked>>

\* venus_close returns, after Venus has closed the file or without that.
CloseDone(t, told) ==
  /\ Prompt(t) /\ At(t, "close")
  /\ IF told THEN ~cnode.unmounting ELSE "interrupt" \in Env \/ cnode.unmounting
  /\ venus' = IF told THEN [venus EXCEPT !.opens = @ - 1] ELSE venus
  /\ use' = use - 1
  /\ cnode' = Flushed(t) /\ Returns(t)
  /\ UNCHANGED <<kind, refs, opens, data, failed, grabbed, panicked>>

-----------------------------------------------------------------------------
(* coda_rdwr, coda_pagein, coda_readdir                                    *)

\* Who may read or write: a process with a descriptor for that, or the kernel
\* itself, which reads programs and writes cores.
MayDo(t, m) == fd[t] \in {m, "w", "no"}

\* Which container to use: the open one, the one of the pair <c_device, c_inode>,
\* which is not given back afterwards, or that of an internal open.
\* VOP_READ or VOP_WRITE of container c begins.
Use(t, m, c) ==
  pc' = [pc EXCEPT ![t] = [at |-> "io", mode |-> m, got |-> c, inner |-> FALSE]]

\* coda_grab_vnode
Grabbed_Dropped(c) == UNCHANGED <<refs, grabbed>>
Grabbed(c) ==
  /\ grabbed[c] < MaxGrabs
  /\ refs' = [refs EXCEPT ![c] = @ + 1] /\ grabbed' = [grabbed EXCEPT ![c] = @ + 1]

Acquire(t, m, core) ==
  \/ /\ cnode.ovp # Null
     /\ Use(t, m, cnode.ovp) /\ UNCHANGED <<refs, grabbed>>
  \/ /\ cnode.ovp = Null /\ cnode.inode # Null /\ ~core
     /\ Use(t, m, cnode.inode) /\ Grabbed(cnode.inode)
  \/ /\ cnode.ovp = Null /\ (cnode.inode = Null \/ core)
     /\ Venus_open(t, m, TRUE)
     /\ UNCHANGED <<refs, grabbed>>

\* Without a descriptor only cores are written.
coda_rdwr(t, m) ==
  /\ Prompt(t) /\ kind = "reg" /\ At(t, "idle") /\ MayDo(t, m) /\ Lock(t)
  /\ Shared(t) /\ Acquire(t, m, m = "w")
  /\ UNCHANGED <<kind, cnode, use, opens, fd, venus, data, failed, panicked>>

coda_pagein(t) ==
  /\ Prompt(t) /\ kind = "reg" /\ At(t, "idle") /\ fd[t] = "no"
  /\ Shared(t) /\ Acquire(t, "r", FALSE)
  /\ UNCHANGED <<kind, lock, cnode, use, opens, fd, venus, data, failed, panicked>>

coda_readdir(t) ==
  /\ Prompt(t) /\ kind = "dir" /\ At(t, "idle") /\ MayDo(t, "r") /\ Lock(t)
  /\ Shared(t) /\ Acquire(t, "r", TRUE)
  /\ UNCHANGED <<kind, cnode, use, opens, fd, venus, data, failed, panicked>>

\* VOP_WRITE of the container, which may fail.
Write(t) ==
  /\ Prompt(t) /\ At(t, "io") /\ pc[t].mode = "w"
  /\ \E v \in {data[pc[t].got], data[pc[t].got] + 1} \cap Versions :
       data' = [data EXCEPT ![pc[t].got] = v]
  /\ Go(t, "wrote")
  /\ UNCHANGED <<kind, lock, cnode, use, refs, opens, fd, venus, failed, grabbed, panicked>>

\* The call returns unless it has to close what it opened.
RdwrDone(t) ==
  /\ Prompt(t) /\ ~pc[t].inner
  /\ At(t, "wrote") \/ (At(t, "io") /\ pc[t].mode = "r")
  /\ cnode' = IF pc[t].mode = "w" THEN [cnode EXCEPT !.vattr = Null] ELSE cnode
  /\ pc' = [pc EXCEPT ![t] = Idle] /\ lock' = Unlocked(t)
  /\ UNCHANGED <<kind, use, refs, opens, fd, venus, data, failed, grabbed, panicked>>

-----------------------------------------------------------------------------
(* coda_getattr, coda_setattr                                              *)

coda_getattr(t) ==
  /\ Prompt(t) /\ At(t, "idle") /\ ~cnode.unmounting /\ cnode.vattr = Null
  /\ Go(t, "getattr")
  /\ UNCHANGED <<kind, lock, cnode, use, refs, opens, fd, venus, data, failed, grabbed, panicked>>

\* Venus reads the attributes off the container.
GetattrAnswer(t) ==
  /\ Prompt(t) /\ At(t, "getattr") /\ ~cnode.unmounting
  /\ pc' = [pc EXCEPT ![t].at = "answered", ![t].got = data[venus.file]]
  /\ UNCHANGED <<kind, lock, cnode, use, refs, opens, fd, venus, data, failed, grabbed, panicked>>

\* Attributes are stored, unless there was an error, only while nobody has the file open for writing.
Kept_Always(v) == [cnode EXCEPT !.vattr = v]
Kept(v) == IF cnode.owrite = 0 THEN [cnode EXCEPT !.vattr = v] ELSE cnode

GetattrDone(t) ==
  /\ At(t, "answered") \/ (At(t, "getattr") /\ Prompt(t))
  /\ cnode' = IF At(t, "answered") THEN Kept(pc[t].got) ELSE cnode
  /\ pc' = [pc EXCEPT ![t] = Idle]
  /\ UNCHANGED <<kind, lock, use, refs, opens, fd, venus, data, failed, grabbed, panicked>>

coda_setattr(t) ==
  /\ Prompt(t) /\ At(t, "idle") /\ Lock(t)
  /\ Go(t, "setattr")
  /\ UNCHANGED <<kind, cnode, use, refs, opens, fd, venus, data, failed, grabbed, panicked>>

\* Venus changes the container.
SetattrAnswer(t) ==
  /\ Prompt(t) /\ At(t, "setattr") /\ ~cnode.unmounting /\ data[venus.file] < MaxVersion
  /\ data' = [data EXCEPT ![venus.file] = @ + 1]
  /\ Go(t, "set")
  /\ UNCHANGED <<kind, lock, cnode, use, refs, opens, fd, venus, failed, grabbed, panicked>>

SetattrDone(t) ==
  /\ At(t, "set") \/ (At(t, "setattr") /\ Prompt(t))
  /\ cnode' = IF At(t, "set") THEN [cnode EXCEPT !.vattr = Null] ELSE cnode
  /\ pc' = [pc EXCEPT ![t] = Idle] /\ lock' = Unlocked(t)
  /\ UNCHANGED <<kind, use, refs, opens, fd, venus, data, failed, grabbed, panicked>>

-----------------------------------------------------------------------------
(* Venus and the device                                                    *)

\* Nobody has the file open as far as Venus knows: it may get new contents in
\* another container, and CODA_ZAPFILE tells the kernel.
Replaced(c) ==
  LET v == data[venus.file] + 1 IN
  /\ Prompt(Null)
  /\ "replaced" \in Env /\ ~cnode.unmounting /\ venus.opens = 0 /\ c # venus.file
  /\ v \in Versions
  /\ venus' = [venus EXCEPT !.file = c] /\ data' = [data EXCEPT ![c] = v]
  /\ cnode' = [cnode EXCEPT !.vattr = Null]
  /\ UNCHANGED <<kind, lock, use, refs, opens, fd, pc, failed, grabbed, panicked>>

\* Venus closes its device: coda_unmounting marks the cnode.
Unmounting ==
  /\ Prompt(Null)
  /\ "unmount" \in Env /\ ~cnode.unmounting
  /\ cnode' = [cnode EXCEPT !.unmounting = TRUE]
  /\ UNCHANGED <<kind, lock, use, refs, opens, fd, pc, venus, data, failed, grabbed, panicked>>

Step(t) ==
  \/ \E m \in Modes : coda_open(t, m) \/ coda_rdwr(t, m)
  \/ OpenAnswer(t) \/ OpenFails(t) \/ OpenDone(t) \/ OpenContainerFails(t)
  \/ CloseDirectory(t) \/ CloseUnmounting(t) \/ coda_close(t) \/ CloseCounts(t)
  \/ \E told \in BOOLEAN : CloseDone(t, told)
  \/ coda_pagein(t) \/ coda_readdir(t) \/ Write(t) \/ RdwrDone(t)
  \/ coda_getattr(t) \/ GetattrAnswer(t) \/ GetattrDone(t)
  \/ coda_setattr(t) \/ SetattrAnswer(t) \/ SetattrDone(t)

Next == (\E t \in Threads : Step(t)) \/ (\E c \in Containers : Replaced(c)) \/ Unmounting

Spec == Init /\ [][Next]_vars

-----------------------------------------------------------------------------
(* Properties                                                              *)

\* The threads with an open that coda_close has not counted yet.
Opener(t) ==
  \/ fd[t] # "no" /\ pc[t].at # "close"
  \/ pc[t].inner /\ pc[t].at \in {"io", "wrote", "vclose"}
Writer(t) ==
  /\ Opener(t)
  /\ IF pc[t].inner THEN pc[t].mode = "w" ELSE fd[t] = "w"
Number(P(_)) == Cardinality({t \in Threads : P(t)})
Failures == failed["r"] + failed["w"]

\* A container has one reference for each open of the file, one for each pair
\* that was looked up again, and is open as often as the file, less the closes
\* under way.  That is what keeps coda_close, at coda_vnops.c:510, from giving
\* back a reference or closing a container somebody else needs.
RefsRight ==
  kind = "reg" =>
    \A c \in Containers :
      LET users == IF c = cnode.ovp THEN Number(Opener) ELSE 0 IN
      /\ refs[c] = users + grabbed[c]
      /\ opens[c] = IF c = cnode.ovp
                      THEN Number(LAMBDA t : Opener(t) /\ ~At(t, "vclose")) ELSE 0

\* c_ocount and c_owrite count the opens of a file, and those that failed late;
\* coda_open's reference of the vnode is there until venus_close is over.
CountsRight ==
  /\ TypeOK
  /\ kind = "reg" /\ ~cnode.unmounting =>
       /\ cnode.ocount = Number(Opener) + Failures
       /\ cnode.owrite = Number(Writer) + failed["w"]
       /\ (cnode.ovp = Null) = (cnode.ocount = 0)
       /\ use = cnode.ocount + Number(LAMBDA t : At(t, "close"))

\* A container that is read or written is referenced: coda_rdwr does so itself
\* or relies on the descriptor of its caller.
UsedIsHeld == \A t \in Threads : pc[t].at = "io" => refs[pc[t].got] > 0

\* Who has the file open reads and writes the contents Venus has; and coda_open does
\* not find the file open with another container, at coda_vnops.c:412, which would
\* be a panic, though Venus changes containers between opens.
ReadsRight ==
  /\ ~panicked
  /\ \A t \in Threads : pc[t].at = "io" /\ Opener(t) => pc[t].got = venus.file

\* Cached attributes are those of the contents.  The exception is an answer to
\* coda_setattr that its thread has not acted on.
AttrRight ==
  cnode.vattr # Null /\ (\A t \in Threads : pc[t].at # "set") =>
    cnode.vattr = data[venus.file]

\* coda_vnops.c:403 "Keep a reference until the close comes in.": with nobody
\* having it open, the file holds nothing.
ClosedIsReleased ==
  (\A t \in Threads : fd[t] = "no" /\ pc[t].at = "idle") => use = 0
=============================================================================
