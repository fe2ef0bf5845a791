----------------------------- MODULE CodaVenus -----------------------------
(***************************************************************************)
(* The buffers of upcalls: coda_venus.c, the structures of coda.h, and     *)
(* read, write and select of the device as far as they copy bytes or wake  *)
(* Venus.  A caller makes one buffer, big enough for the request and the   *)
(* reply, appends the names to the request, and takes the reply out of the *)
(* same bytes.  coda_readlink and coda_ioctl are here for what they hold   *)
(* while they wait; the symlink is the one link whose value is cached.     *)
(*                                                                         *)
(* Sizes are in bytes; those of the types that depend on the machine are   *)
(* constants.  The sizes of a pioctl are signed and 16 bits wide.          *)
(***************************************************************************)
EXTENDS Integers, Sequences, FiniteSets

CONSTANTS
  Callers,    \* threads
  None,       \* no thread
  Word,       \* sizeof int, long and of a pointer
  Align,      \* alignment of a u_quad_t in a structure
  Vattr,      \* sizeof struct coda_vattr
  Quad,       \* sizeof dev_t and ino_t of coda_open_out
  InputArgs,  \* sizeof union inputArgs
  OutputArgs, \* sizeof union outputArgs
  SizeT,      \* how many values a size_t has
  Names,      \* lengths of names
  Paths,      \* lengths of the paths of symlinks
  DataSizes,  \* in_size of a pioctl
  OutSizes,   \* out_size of a pioctl
  MaxPath,    \* CODA_MAXPATHLEN
  MaxData,    \* VC_MAXDATASIZE
  MaxQueue,   \* bound on the queue: signals of interrupted callers
  Env         \* misfortunes, see below

(* "short"    Venus sends less than the structure of the reply              *)
(* "long"     Venus sends more than the caller asked for                    *)
(* "wild"     a reply says that it has more data than Venus has sent        *)
(* "nomem"    venus_readlink finds no memory for the path                   *)
(* "toomuch"  a pioctl has more data than VC_MAXDATASIZE                    *)

InHdr == 5 * Word
OutHdr == 3 * Word
Fid == 16

\* Where a structure that holds a u_quad_t may begin, or end.
Padded(n) == n + ((0 - n) % Align)

Sizes(in, out) == [in |-> in, out |-> out]

\* The structures, by opcode; where there is none the header stands alone.
Structs ==
  [ root     |-> Sizes(InHdr, OutHdr + Fid),
    open     |-> Sizes(InHdr + Fid + Word, OutHdr + Quad),
    close    |-> Sizes(InHdr + Fid + Word, OutHdr),
    ioctl    |-> Sizes(InHdr + Fid + 4 * Word, OutHdr + 2 * Word),
    getattr  |-> Sizes(InHdr + Fid, Padded(OutHdr) + Vattr),
    setattr  |-> Sizes(Padded(InHdr + Fid) + Vattr, OutHdr),
    access   |-> Sizes(InHdr + Fid + Word, OutHdr) ]

NameStructs ==
  [ lookup   |-> Sizes(InHdr + Fid + 2 * Word, OutHdr + Fid + Word),
    create   |-> Sizes(Padded(Padded(InHdr + Fid) + Vattr + 3 * Word),
                       Padded(OutHdr + Fid) + Vattr),
    remove   |-> Sizes(InHdr + Fid + Word, OutHdr),
    link     |-> Sizes(InHdr + 2 * Fid + Word, OutHdr),
    rename   |-> Sizes(InHdr + 2 * Fid + 2 * Word, OutHdr),
    mkdir    |-> Sizes(Padded(Padded(InHdr + Fid) + Vattr + Word),
                       Padded(OutHdr + Fid) + Vattr),
    rmdir    |-> Sizes(InHdr + Fid + Word, OutHdr) ]

DirStructs ==
  [ readdir  |-> Sizes(InHdr + Fid + 2 * Word, OutHdr + 2 * Word),
    symlink  |-> Sizes(Padded(Padded(InHdr + Fid + Word) + Vattr + Word), OutHdr),
    readlink |-> Sizes(InHdr + Fid, OutHdr + 2 * Word),
    fsync    |-> Sizes(InHdr + Fid, OutHdr),
    vget     |-> Sizes(InHdr + Fid, OutHdr + Fid + Word) ]

AllStructs ==
  {Structs[o] : o \in DOMAIN Structs} \cup {NameStructs[o] : o \in DOMAIN NameStructs}
    \cup {DirStructs[o] : o \in DOMAIN DirStructs}

\* VC_MAXMSGSIZE
MaxMsg == InputArgs + OutputArgs + MaxData

ASSUME VenusAssumption ==
  /\ None \notin Callers
  /\ Word \in Nat \ {0} /\ Align \in {4, 8} /\ Vattr \in Nat /\ Quad \in Nat
  /\ MaxPath \in Nat /\ MaxData \in Nat /\ MaxQueue \in Nat
  \* The unions are as large as their largest member.
  /\ InputArgs \in Nat /\ OutputArgs \in Nat
  /\ InputArgs \in {s.in : s \in AllStructs} /\ OutputArgs \in {s.out : s \in AllStructs}
  /\ \A s \in AllStructs : s.in <= InputArgs /\ s.out <= OutputArgs
  /\ Names \subseteq 1..255 /\ Paths \subseteq 0..MaxPath
  /\ \A n \in DataSizes \cup OutSizes : n \in Int /\ -32768 <= n /\ n <= 32767
  /\ Env \subseteq {"short", "long", "wild", "nomem", "toomuch"}
  \* vm_inSize and vm_outSize are 16 bits wide, a size_t is wider.
  /\ MaxMsg < 65536 /\ InputArgs + MaxPath + 512 < 65536
  /\ SizeT \in Nat /\ SizeT >= 131072

VARIABLES
  requests,   \* vc_requests: callers, and "signal" for a CODA_SIGNAL
  replys,     \* vc_replys: callers whose message Venus has read
  venus,      \* Venus runs, sleeps in select, or was woken there
  open,       \* Venus has the device open
  msg,        \* the message of a caller, NoMsg without
  copying,    \* callers that copy the data of a pioctl in
  reply,      \* what Venus has answered it
  held,       \* what a caller holds: its buffer, a vnode
  leaked,     \* what callers have returned without releasing
  owner,      \* who has the symlink locked
  symlink,    \* C_SYMLINK: the path is cached
  unread      \* history: why callers have used bytes of a reply nobody wrote

vars == <<requests, replys, venus, open, msg, copying, reply, held, leaked, owner, symlink, unread>>

NoMsg == [op |-> "no", size |-> 0, isize |-> 0, osize |-> 0, out |-> 0, pieces |-> {},
          data |-> 0, want |-> 0]

\* How many bytes Venus has sent, the result in the header, and the fields
\* of the structure that say how much data follows and where.
Reply(sent, result, len, data) == [sent |-> sent, result |-> result, len |-> len, data |-> data]
Unanswered == Reply(-1, 0, 0, 0)
Refused == Reply(-2, 0, 0, 0)

-----------------------------------------------------------------------------
(* Making a message.                                                       *)

Piece(at, len) == [at |-> at, len |-> len]

\* A signed size becomes the length of a copy.
Unsigned(n) == IF n < 0 THEN n + SizeT ELSE n

DECL(op, s) ==
  [op |-> op, size |-> s.in, isize |-> s.in, osize |-> s.out, out |-> s.out,
   pieces |-> {Piece(0, s.in)}, data |-> 0, want |-> 0]

More(m, n) == [m EXCEPT !.size = @ + n]

ALLOC(m) == [m EXCEPT !.size = IF m.osize > @ THEN m.osize ELSE @]

\* The name goes to the end of the request, and a zero after it.
STRCPY(m, len) ==
  [m EXCEPT !.pieces = @ \cup {Piece(m.isize, len + 1)}, !.isize = @ + len + 1]

STRCPY_NoZero(m, len) ==
  [m EXCEPT !.pieces = @ \cup {Piece(m.isize, len + 1)}, !.isize = @ + len]

venus_root == ALLOC(DECL("root", Structs.root))
venus_open == ALLOC(DECL("open", Structs.open))
venus_close == ALLOC(DECL("close", Structs.close))
venus_getattr == ALLOC(DECL("getattr", Structs.getattr))
venus_setattr == ALLOC(DECL("setattr", Structs.setattr))
venus_access == ALLOC(DECL("access", Structs.access))
venus_fsync == ALLOC(DECL("fsync", DirStructs.fsync))
venus_fhtovp == ALLOC(DECL("vget", DirStructs.vget))

\* The buffer has the largest size there is; n and w are in_size and out_size.
venus_ioctl(n, w) ==
  LET m == ALLOC([DECL("ioctl", Structs.ioctl) EXCEPT !.size = MaxMsg])
  IN  [m EXCEPT !.pieces = @ \cup {Piece(Structs.ioctl.in, Unsigned(n))},
                !.isize = @ + n, !.osize = MaxMsg, !.data = n, !.want = w]

venus_readlink ==
  [ALLOC(More(DECL("readlink", DirStructs.readlink), MaxPath)) EXCEPT !.osize = @ + MaxPath]

\* Nobody calls it: coda_readdir reads the container.
venus_readdir ==
  [ALLOC([DECL("readdir", DirStructs.readdir) EXCEPT !.size = MaxMsg]) EXCEPT !.osize = MaxMsg]

venus_lookup(n) == STRCPY(ALLOC(More(DECL("lookup", NameStructs.lookup), n + 1)), n)
venus_create(n) == STRCPY(ALLOC(More(DECL("create", NameStructs.create), n + 1)), n)
venus_remove(n) == STRCPY(ALLOC(More(DECL("remove", NameStructs.remove), n + 1)), n)
venus_link(n) == STRCPY(ALLOC(More(DECL("link", NameStructs.link), n + 1)), n)
venus_mkdir(n) == STRCPY(ALLOC(More(DECL("mkdir", NameStructs.mkdir), n + 1)), n)
venus_rmdir(n) == STRCPY(ALLOC(More(DECL("rmdir", NameStructs.rmdir), n + 1)), n)

venus_rename_OneZero(n, t) ==
  STRCPY(STRCPY(ALLOC(More(DECL("rename", NameStructs.rename), n + t + 1)), n), t)
venus_rename(n, t) ==
  STRCPY(STRCPY(ALLOC(More(DECL("rename", NameStructs.rename), n + 1 + t + 1)), n), t)

venus_symlink(l, n) ==
  STRCPY(STRCPY(ALLOC(More(DECL("symlink", DirStructs.symlink), l + 1 + n + 1)), l), n)

Simple == {venus_root, venus_open, venus_close, venus_getattr, venus_setattr, venus_access,
           venus_fsync, venus_fhtovp, venus_readdir}
Named == {venus_lookup(n) : n \in Names} \cup {venus_create(n) : n \in Names}
           \cup {venus_remove(n) : n \in Names} \cup {venus_link(n) : n \in Names}
           \cup {venus_mkdir(n) : n \in Names} \cup {venus_rmdir(n) : n \in Names}
Twice == {venus_rename(n, t) : n, t \in Names} \cup {venus_symlink(l, n) : l \in Paths, n \in Names}
Calls == Simple \cup Named \cup Twice

-----------------------------------------------------------------------------

Opcodes ==
  {"no", "root", "open", "close", "ioctl", "getattr", "setattr", "access", "lookup", "create",
   "remove", "link", "rename", "mkdir", "rmdir", "readdir", "symlink", "readlink", "fsync", "vget"}

Message == [op : Opcodes, size : Nat, isize : Int, osize : Nat, out : Nat,
            pieces : SUBSET [at : Nat, len : Nat], data : Int, want : Int]

TypeOK ==
  /\ requests \in Seq(Callers \cup {"signal"}) /\ replys \subseteq Callers
  /\ venus \in {"runs", "asleep"} /\ open \in BOOLEAN
  /\ msg \in [Callers -> Message] /\ copying \subseteq Callers
  /\ reply \in [Callers -> [sent : Int, result : {0, 1}, len : Int, data : Int]]
  /\ held \in [Callers -> SUBSET {"buffer", "vnode"}] /\ leaked \subseteq {"buffer", "vnode"}
  /\ owner \in Callers \cup {None} /\ symlink \in BOOLEAN
  /\ unread \subseteq {"reply", "out_size"}

Init ==
  /\ requests = <<>> /\ replys = {} /\ venus = "runs" /\ open = TRUE
  /\ msg = [c \in Callers |-> NoMsg] /\ copying = {}
  /\ reply = [c \in Callers |-> Unanswered]
  /\ held = [c \in Callers |-> {}] /\ leaked = {}
  /\ owner = None /\ symlink = FALSE /\ unread = {}

Idle(c) == msg[c] = NoMsg
Waits(c) == ~Idle(c) /\ c \notin copying

coda_call_Silent(c, m) ==
  /\ open /\ Len(requests) < MaxQueue
  /\ msg' = [msg EXCEPT ![c] = m] /\ reply' = [reply EXCEPT ![c] = Unanswered]
  /\ requests' = Append(requests, c) /\ UNCHANGED venus

\* The message is queued and Venus woken, if it sleeps in select.  To a closed
\* device nothing is sent, and the caller is back where it was.
coda_call(c, m) ==
  /\ open /\ Len(requests) < MaxQueue
  /\ msg' = [msg EXCEPT ![c] = m] /\ reply' = [reply EXCEPT ![c] = Unanswered]
  /\ requests' = Append(requests, c) /\ venus' = "runs"

\* Any operation that holds nothing but its buffer while it waits.
Ask(c) ==
  /\ Idle(c)
  /\ \E m \in Calls : coda_call(c, m)
  /\ held' = [held EXCEPT ![c] = @ \cup {"buffer"}]
  /\ UNCHANGED <<replys, open, copying, leaked, owner, symlink, unread>>

\* With the symlink locked, by its caller; a cached path is not asked for.
coda_readlink(c) ==
  /\ Idle(c) /\ owner = None /\ ~symlink
  /\ coda_call(c, venus_readlink)
  /\ owner' = c /\ held' = [held EXCEPT ![c] = @ \cup {"buffer"}]
  /\ UNCHANGED <<replys, open, copying, leaked, symlink, unread>>

\* The vnode namei has found is referenced until the end.  The size of the data is
\* compared as it is, and copyin begins.
coda_ioctl(c) ==
  /\ Idle(c)
  /\ \E n \in {k \in DataSizes : k <= MaxData}, w \in OutSizes :
       msg' = [msg EXCEPT ![c] = venus_ioctl(n, w)]
  /\ copying' = copying \cup {c}
  /\ held' = [held EXCEPT ![c] = @ \cup {"buffer", "vnode"}]
  /\ UNCHANGED <<requests, replys, venus, open, reply, leaked, owner, symlink, unread>>

\* More data than VC_MAXDATASIZE: EINVAL, and the reference stays.
IoctlTooMuch(c) ==
  /\ "toomuch" \in Env /\ Idle(c) /\ \E n \in DataSizes : n > MaxData
  /\ leaked' = leaked \cup {"vnode"}
  /\ UNCHANGED <<requests, replys, venus, open, msg, copying, reply, held, owner, symlink, unread>>

\* The data are there.  A copy of nearly all there is to address never gets here.
CopiedIn(c) ==
  /\ c \in copying /\ msg[c].data >= 0
  /\ coda_call(c, msg[c])
  /\ copying' = copying \ {c}
  /\ UNCHANGED <<replys, open, held, leaked, owner, symlink, unread>>

-----------------------------------------------------------------------------
(* Venus.                                                                  *)

vc_nb_select ==
  /\ open /\ venus = "runs" /\ requests = <<>>
  /\ venus' = "asleep"
  /\ UNCHANGED <<requests, replys, open, msg, copying, reply, held, leaked, owner, symlink, unread>>

\* vm_inSize bytes are copied out; a signal is freed.
vc_nb_read ==
  /\ open /\ venus = "runs" /\ requests # <<>>
  /\ requests' = Tail(requests)
  /\ replys' = replys \cup ({Head(requests)} \ {"signal"})
  /\ UNCHANGED <<venus, open, msg, copying, reply, held, leaked, owner, symlink, unread>>

\* How many bytes Venus may put behind the structure of a reply.
WithData == {"ioctl", "readlink", "readdir"}
Data(m) == IF m.op \in WithData THEN {0, m.osize - m.out} \cup ({m.want} \cap 0..(m.osize - m.out))
           ELSE {0}

\* What Venus answers: an error as a header, or the structure and what it says
\* comes after it.
Truthful(m) ==
  {Reply(OutHdr, 1, 0, 0)}
    \cup {Reply(m.out + k, e, k, m.out) : k \in Data(m), e \in {0, 1}}

TooShort == IF "short" \in Env THEN {Reply(OutHdr, 0, 0, 0)} ELSE {}
Untrue(m) == IF "wild" \in Env /\ m.op \in WithData THEN {Reply(m.out, 0, 1, m.out)} ELSE {}
TooLong(m) ==
  IF "long" \in Env
  THEN {Reply(m.osize + j, 0, m.osize + j - m.out, m.out) : j \in {1, 9}} ELSE {}

Answers(m) == Truthful(m) \cup TooShort \cup Untrue(m) \cup TooLong(m)

Accepted(m, n) == ~(m.osize < n - 2 * Word)   \* "more data than asked for"

Written_LessHeader(m, n) == IF n < m.osize - 2 * Word THEN n ELSE m.osize - 2 * Word
Written(m, n) ==                              \* uiomove: the end of what is copied in
  IF n < m.osize THEN n ELSE m.osize

\* A reply; one that is too long takes the message off the queue all the same.
vc_nb_write(c) ==
  /\ open /\ venus = "runs" /\ c \in replys
  /\ replys' = replys \ {c}
  /\ \E r \in Answers(msg[c]) :
       reply' = [reply EXCEPT ![c] = IF Accepted(msg[c], r.sent) THEN r ELSE Refused]
  /\ UNCHANGED <<requests, venus, open, msg, copying, held, leaked, owner, symlink, unread>>

\* Whoever waits is woken, signals are freed.
vc_nb_close ==
  /\ open
  /\ open' = FALSE /\ venus' = "runs" /\ requests' = <<>> /\ replys' = {}
  /\ UNCHANGED <<msg, copying, reply, held, leaked, owner, symlink, unread>>

\* The next Venus, when the close has seen the callers out it has woken.
vc_nb_open ==
  /\ ~open /\ \A c \in Callers : Waits(c) => reply[c] # Unanswered
  /\ open' = TRUE
  /\ UNCHANGED <<requests, replys, venus, msg, copying, reply, held, leaked, owner, symlink, unread>>

-----------------------------------------------------------------------------
(* The caller again.                                                       *)

\* A caller looks at the structure of the reply if there was no error, and takes
\* the data behind it; venus_ioctl takes none if there are more than out_size.
TakesData(m, r) == m.op \in {"readlink", "readdir"} \/ (m.op = "ioctl" /\ ~(r.len > m.want))
Uses(m, r) ==
  IF r.result # 0 THEN OutHdr
  ELSE IF TakesData(m, r) /\ r.data + r.len > m.out THEN r.data + r.len ELSE m.out

\* Where the copyout of venus_ioctl ends, which is one of out_size bytes.
CopiesOut(m, r) ==
  IF r.result = 0 /\ m.op = "ioctl" /\ TakesData(m, r) THEN r.data + Unsigned(m.want) ELSE 0

\* Why bytes are used that Venus has not written: the reply has less than it says,
\* or out_size is more than the reply has.
Unwritten(m, r) ==
  (IF Uses(m, r) > Written(m, r.sent) THEN {"reply"} ELSE {})
    \cup (IF CopiesOut(m, r) > Written(m, r.sent) /\ m.want > r.len THEN {"out_size"} ELSE {})

\* The buffer is freed, and with it the message and its reply.
Frees(c) == msg' = [msg EXCEPT ![c] = NoMsg] /\ reply' = [reply EXCEPT ![c] = Unanswered]
Releases(c, what) == held' = [held EXCEPT ![c] = @ \ what]
Unlocks(c) == owner' = IF owner = c THEN None ELSE owner

\* copyin has failed, or the device was closed meanwhile.
CopyFails(c) ==
  /\ c \in copying
  /\ copying' = copying \ {c}
  /\ Frees(c) /\ Releases(c, {"buffer", "vnode"})
  /\ UNCHANGED <<requests, replys, venus, open, leaked, owner, symlink, unread>>

Answered_KeepsVnode(c) ==
  /\ open /\ Waits(c) /\ reply[c].sent > 0
  /\ unread' = unread \cup Unwritten(msg[c], reply[c])
  /\ symlink' = (symlink \/ (owner = c /\ reply[c].result = 0))
  /\ Frees(c) /\ Releases(c, {"buffer"}) /\ Unlocks(c)
  /\ UNCHANGED <<requests, replys, venus, open, copying, leaked>>

\* The reply is taken out and the buffer freed; the path becomes the cached one.
Answered(c) ==
  /\ open /\ Waits(c) /\ reply[c].sent > 0
  /\ unread' = unread \cup Unwritten(msg[c], reply[c])
  /\ symlink' = (symlink \/ (owner = c /\ reply[c].result = 0))
  /\ Frees(c) /\ Releases(c, {"buffer", "vnode"}) /\ Unlocks(c)
  /\ UNCHANGED <<requests, replys, venus, open, copying, leaked>>

\* venus_readlink returns ENOMEM without CODA_FREE.
ReadlinkNoMemory(c) ==
  /\ "nomem" \in Env /\ open /\ Waits(c) /\ reply[c].sent > 0 /\ reply[c].result = 0 /\ owner = c
  /\ leaked' = leaked \cup held[c]
  /\ Frees(c) /\ Releases(c, {"buffer"}) /\ Unlocks(c)
  /\ UNCHANGED <<requests, replys, venus, open, copying, symlink, unread>>

REMQUE(q, i) == [j \in 1..(Len(q) - 1) |-> IF j < i THEN q[j] ELSE q[j + 1]]

\* A signal, or a reply that was refused: the message leaves its queue, Venus is
\* sent a signal if it has read it.
Interrupted(c) ==
  /\ open /\ Waits(c) /\ reply[c].sent < 0
  /\ \/ /\ \E i \in DOMAIN requests : requests[i] = c /\ requests' = REMQUE(requests, i)
        /\ UNCHANGED venus
     \/ /\ (\A i \in DOMAIN requests : requests[i] # c) /\ Len(requests) < MaxQueue
        /\ requests' = Append(requests, "signal") /\ venus' = "runs"
  /\ replys' = replys \ {c}
  /\ Frees(c) /\ Releases(c, {"buffer", "vnode"}) /\ Unlocks(c)
  /\ UNCHANGED <<open, copying, leaked, symlink, unread>>

\* Venus has closed the device: ENODEV, answered or not.
VenusDied(c) ==
  /\ ~open /\ Waits(c)
  /\ Frees(c) /\ Releases(c, {"buffer", "vnode"}) /\ Unlocks(c)
  /\ UNCHANGED <<requests, replys, venus, open, copying, leaked, symlink, unread>>

\* coda_inactive frees the cached path.
Forget ==
  /\ symlink /\ owner = None
  /\ symlink' = FALSE
  /\ UNCHANGED <<requests, replys, venus, open, msg, copying, reply, held, leaked, owner, unread>>

OfCaller(c) ==
  \/ Ask(c) \/ coda_readlink(c) \/ coda_ioctl(c) \/ IoctlTooMuch(c) \/ CopiedIn(c)
  \/ CopyFails(c) \/ Answered(c) \/ ReadlinkNoMemory(c) \/ Interrupted(c) \/ VenusDied(c)

Next ==
  \/ vc_nb_select \/ vc_nb_read \/ vc_nb_close \/ vc_nb_open \/ Forget
  \/ \E c \in Callers : OfCaller(c) \/ vc_nb_write(c)

Spec == Init /\ [][Next]_vars

-----------------------------------------------------------------------------
(* Properties.                                                             *)

Ends(p) == p.at + p.len
Apart(p, q) == Ends(p) <= q.at \/ Ends(q) <= p.at

\* Everything of a request lies in the buffer, in front of its end and apart from
\* the rest of it, so does the longest reply that is accepted, and both lengths
\* are kept in 16 bits: "|buffer| >= inSize" (coda_call).
Fits(m) ==
  /\ \A p \in m.pieces : Ends(p) <= m.isize
  /\ \A p, q \in m.pieces : p # q => Apart(p, q)
  /\ m.isize <= m.size /\ m.osize <= m.size
  /\ 0 <= m.isize /\ m.isize < 65536 /\ m.osize < 65536

\* So it is for every message, on the way into its buffer, on a queue or read, but
\* for one that is being copied in with a negative in_size: coda_ioctl bounds the
\* size from above only, and copyin takes it for one of nearly all of memory.
BuffersFit ==
  \A c \in Callers : ~Idle(c) => Fits(msg[c]) \/ (c \in copying /\ msg[c].data < 0)

\* What a caller uses of a reply Venus has written, and it is not the caller's own
\* request or what the memory held before: but for venus_ioctl, which copies
\* out_size bytes out where the reply has less.
ReadsReply == unread \subseteq {"out_size"}

\* Who has returned holds neither buffer nor vnode nor the lock of the symlink, but
\* for what is known to leak.
Released == \A c \in Callers : Idle(c) => held[c] = {} /\ owner # c

\* Venus does not sleep while a message waits: no wakeup is lost between select
\* and read.
VenusWoken == venus = "asleep" => requests = <<>>
=============================================================================
