-------------------------- MODULE CodaVenusProofs --------------------------
(***************************************************************************)
(* Theorems about CodaVenus: for sizes of any machine, names and paths of  *)
(* any length the system calls allow, any number of callers, and, but for  *)
(* the last one, every combination of misfortunes.                         *)
(***************************************************************************)
EXTENDS CodaVenus, TLAPS

-----------------------------------------------------------------------------
(* Making a message.                                                       *)

\* What has been put into a request so far lies in front of its end, apart.
Packed(m) ==
  /\ m \in Message /\ m.isize \in Nat
  /\ \A p \in m.pieces : Ends(p) <= m.isize
  /\ \A p, q \in m.pieces : p # q => Apart(p, q)

\* What the request of an upcall is and what its caller relies on.
Good(m) ==
  /\ Packed(m) /\ Fits(m) /\ m.op # "no"
  /\ OutHdr <= m.out /\ m.out <= m.osize

LEMMA PieceType ==
  ASSUME NEW at \in Nat, NEW len \in Nat
  PROVE  Piece(at, len) \in [at : Nat, len : Nat] /\ Ends(Piece(at, len)) = at + len
  BY DEF Piece, Ends

\* What the steps below know of the fields of a message.
Has(m, op, size, isize, osize, out) ==
  /\ m.op = op /\ m.size = size /\ m.isize = isize /\ m.osize = osize /\ m.out = out

\* A request with nothing but its structure.
LEMMA DeclPacked ==
  ASSUME NEW op \in Opcodes, NEW in \in Nat, NEW out \in Nat,
         NEW m, m = DECL(op, Sizes(in, out))
  PROVE  Packed(m) /\ Has(m, op, in, in, out, out)
<1>1. m = [op |-> op, size |-> in, isize |-> in, osize |-> out, out |-> out,
           pieces |-> {Piece(0, in)}, data |-> 0, want |-> 0]
  BY DEF DECL, Sizes
<1>2. m \in Message
  BY <1>1, PieceType DEF Message
<1>3. \A p \in m.pieces : Ends(p) <= in
  BY <1>1, PieceType
<1> QED
  BY <1>1, <1>2, <1>3 DEF Packed, Has

\* Making room changes nothing but the size.
LEMMA MorePacked ==
  ASSUME NEW m, Packed(m), NEW n \in Nat, NEW k, k = More(m, n)
  PROVE  Packed(k) /\ Has(k, m.op, m.size + n, m.isize, m.osize, m.out)
<1>1. m \in Message
  BY DEF Packed
<1>2. k \in Message
  BY <1>1 DEF Message, More
<1> QED
  BY <1>1, <1>2 DEF Packed, Message, More, Has

LEMMA AllocPacked ==
  ASSUME NEW m, Packed(m), NEW k, k = ALLOC(m)
  PROVE  /\ Packed(k)
         /\ Has(k, m.op, IF m.osize > m.size THEN m.osize ELSE m.size, m.isize, m.osize, m.out)
<1>1. m \in Message
  BY DEF Packed
<1>2. k \in Message
  BY <1>1 DEF Message, ALLOC
<1> QED
  BY <1>1, <1>2 DEF Packed, Message, ALLOC, Has

\* A name is put behind what is there.
LEMMA StrcpyPacked ==
  ASSUME NEW m, Packed(m), NEW n \in Nat, NEW k, k = STRCPY(m, n)
  PROVE  Packed(k) /\ Has(k, m.op, m.size, m.isize + n + 1, m.osize, m.out)
<1>1. m \in Message /\ m.isize \in Nat /\ m.isize + n + 1 \in Nat
  BY DEF Packed, Message
<1>a. PICK new : new = Piece(m.isize, n + 1)
  OBVIOUS
<1>2. new \in [at : Nat, len : Nat] /\ new.at = m.isize /\ Ends(new) = m.isize + n + 1
  BY <1>1, <1>a DEF Piece, Ends
<1>3. k = [m EXCEPT !.pieces = m.pieces \cup {new}, !.isize = m.isize + n + 1]
  BY <1>a DEF STRCPY
<1>4. /\ k.pieces = m.pieces \cup {new} /\ k.isize = m.isize + n + 1
      /\ k.op = m.op /\ k.size = m.size /\ k.osize = m.osize /\ k.out = m.out
  BY <1>1, <1>3 DEF Message
<1>b. m.pieces \cup {new} \in SUBSET [at : Nat, len : Nat] /\ m.isize + n + 1 \in Int
  BY <1>1, <1>2 DEF Message
<1>5. k \in Message
  BY <1>1, <1>3, <1>b DEF Message
<1>6. \A p \in m.pieces : p \in [at : Nat, len : Nat] /\ Ends(p) \in Nat
                          /\ Ends(p) <= m.isize
  BY <1>1 DEF Packed, Message, Ends
<1>7. \A p \in k.pieces : Ends(p) <= k.isize
  BY <1>1, <1>2, <1>4, <1>6
<1>8. \A p, q \in k.pieces : p # q => Apart(p, q)
  BY <1>2, <1>4, <1>6 DEF Packed, Apart
<1> QED
  BY <1>4, <1>5, <1>7, <1>8 DEF Packed, Has

LEMMA PackedGood ==
  ASSUME NEW m, Packed(m), NEW op, NEW size, NEW isize, NEW osize, NEW out,
         Has(m, op, size, isize, osize, out),
         op # "no", isize <= size, osize <= size,
         isize < 65536, osize < 65536, OutHdr <= out, out <= osize
  PROVE  Good(m)
  BY DEF Good, Fits, Packed, Has

\* Sizes of a request and a reply that 16 bits can count, with two names.
Fine(s) ==
  /\ s = Sizes(s.in, s.out) /\ s.in \in Nat /\ s.out \in Nat
  /\ s.in + MaxPath + 512 < 65536 /\ s.out < 65536 /\ OutHdr <= s.out

LEMMA PlainGood ==
  ASSUME NEW op \in Opcodes, op # "no", NEW s, Fine(s), MaxPath \in Nat
  PROVE  Good(ALLOC(DECL(op, s)))
<1>1. PICK in \in Nat, out \in Nat :
        /\ s = Sizes(in, out) /\ in < 65536 /\ out < 65536 /\ OutHdr <= out
  BY DEF Fine
<1>2. PICK d : d = DECL(op, Sizes(in, out))
  OBVIOUS
<1>3. Packed(d) /\ Has(d, op, in, in, out, out)
  BY <1>2, DeclPacked
<1>4. PICK m : m = ALLOC(d)
  OBVIOUS
<1>5. /\ Packed(m)
      /\ Has(m, d.op, IF d.osize > d.size THEN d.osize ELSE d.size, d.isize, d.osize, d.out)
  BY <1>3, <1>4, AllocPacked
<1>6. Has(m, op, IF out > in THEN out ELSE in, in, out, out)
  BY <1>3, <1>5 DEF Has
<1>7. (IF out > in THEN out ELSE in) \in Nat
  OBVIOUS
<1>8. Good(m)
  BY <1>1, <1>5, <1>6, <1>7, PackedGood
<1> QED
  BY <1>1, <1>2, <1>4, <1>8

\* The room made for one name, or two, is room enough for them.
LEMMA RoomMade ==
  ASSUME NEW op \in Opcodes, NEW in \in Nat, NEW out \in Nat, NEW k \in Nat,
         NEW m, m = ALLOC(More(DECL(op, Sizes(in, out)), k))
  PROVE  Packed(m) /\ Has(m, op, IF out > in + k THEN out ELSE in + k, in, out, out)
<1>1. PICK d : d = DECL(op, Sizes(in, out))
  OBVIOUS
<1>2. Packed(d) /\ Has(d, op, in, in, out, out)
  BY <1>1, DeclPacked
<1>3. PICK w : w = More(d, k)
  OBVIOUS
<1>4. Packed(w) /\ Has(w, op, in + k, in, out, out)
  <2>1. Packed(w) /\ Has(w, d.op, d.size + k, d.isize, d.osize, d.out)
    BY <1>2, <1>3, MorePacked
  <2> QED
    BY <1>2, <2>1 DEF Has
<1>5. m = ALLOC(w)
  BY <1>1, <1>3
<1>6. /\ Packed(m)
      /\ Has(m, w.op, IF w.osize > w.size THEN w.osize ELSE w.size, w.isize, w.osize, w.out)
  BY <1>4, <1>5, AllocPacked
<1> QED
  BY <1>4, <1>6 DEF Has

LEMMA NamedGood ==
  ASSUME NEW op \in Opcodes, op # "no", NEW s, Fine(s), NEW n \in Nat, n <= 255,
         MaxPath \in Nat
  PROVE  Good(STRCPY(ALLOC(More(DECL(op, s), n + 1)), n))
<1>1. PICK in \in Nat, out \in Nat :
        s = Sizes(in, out) /\ in + n + 1 < 65536 /\ out < 65536 /\ OutHdr <= out
  BY DEF Fine
<1>2. PICK room \in Nat : room = n + 1
  OBVIOUS
<1>3. PICK m : m = ALLOC(More(DECL(op, Sizes(in, out)), room))
  OBVIOUS
<1>4. PICK size : size = IF out > in + room THEN out ELSE in + room
  OBVIOUS
<1>5. Packed(m) /\ Has(m, op, size, in, out, out)
  BY <1>3, <1>4, RoomMade
<1>6. PICK k : k = STRCPY(m, n)
  OBVIOUS
<1>7. Packed(k) /\ Has(k, m.op, m.size, m.isize + n + 1, m.osize, m.out)
  BY <1>5, <1>6, StrcpyPacked
<1>8. Has(k, op, size, in + n + 1, out, out)
  BY <1>5, <1>7 DEF Has
<1>9. in + n + 1 <= size /\ out <= size
  BY <1>2, <1>4
<1>10. Good(k)
  BY <1>1, <1>7, <1>8, <1>9, PackedGood
<1> QED
  BY <1>1, <1>2, <1>3, <1>6, <1>10

LEMMA TwiceGood ==
  ASSUME NEW op \in Opcodes, op # "no", NEW s, Fine(s), MaxPath \in Nat,
         NEW n \in Nat, NEW t \in Nat, n + t <= MaxPath + 510
  PROVE  Good(STRCPY(STRCPY(ALLOC(More(DECL(op, s), n + 1 + t + 1)), n), t))
<1>1. PICK in \in Nat, out \in Nat :
        s = Sizes(in, out) /\ in + n + t + 2 < 65536 /\ out < 65536 /\ OutHdr <= out
  BY DEF Fine
<1>2. PICK room \in Nat : room = n + 1 + t + 1
  OBVIOUS
<1>3. PICK m : m = ALLOC(More(DECL(op, Sizes(in, out)), room))
  OBVIOUS
<1>4. PICK size : size = IF out > in + room THEN out ELSE in + room
  OBVIOUS
<1>5. Packed(m) /\ Has(m, op, size, in, out, out)
  BY <1>3, <1>4, RoomMade
<1>6. PICK k : k = STRCPY(m, n)
  OBVIOUS
<1>7. Packed(k) /\ Has(k, op, size, in + n + 1, out, out)
  <2>1. Packed(k) /\ Has(k, m.op, m.size, m.isize + n + 1, m.osize, m.out)
    BY <1>5, <1>6, StrcpyPacked
  <2> QED
    BY <1>5, <2>1 DEF Has
<1>8. PICK j : j = STRCPY(k, t)
  OBVIOUS
<1>9. Packed(j) /\ Has(j, k.op, k.size, k.isize + t + 1, k.osize, k.out)
  BY <1>7, <1>8, StrcpyPacked
<1>10. Has(j, op, size, in + n + 1 + t + 1, out, out)
  BY <1>7, <1>9 DEF Has
<1>11. /\ in + n + 1 + t + 1 <= size /\ out <= size
       /\ in + n + 1 + t + 1 < 65536
  BY <1>1, <1>2, <1>4
<1>12. Good(j)
  BY <1>1, <1>9, <1>10, <1>11, PackedGood
<1> QED
  BY <1>1, <1>2, <1>3, <1>6, <1>8, <1>12

-----------------------------------------------------------------------------
(* Every upcall there is.                                                  *)

LEMMA PaddedMore ==
  \A n \in Nat : Padded(n) \in Nat /\ n <= Padded(n)
<1> SUFFICES ASSUME NEW n \in Nat PROVE Padded(n) \in Nat /\ n <= Padded(n)
  OBVIOUS
<1>1. Align = 4 \/ Align = 8
  BY VenusAssumption
<1>2. (0 - n) % 4 \in 0..3 /\ (0 - n) % 8 \in 0..7
  OBVIOUS
<1> QED
  BY <1>1, <1>2 DEF Padded

LEMMA SizesOfWords ==
  /\ InHdr \in Nat /\ OutHdr \in Nat /\ Fid = 16
  /\ Word \in Nat /\ Word > 0 /\ Vattr \in Nat /\ Quad \in Nat /\ MaxPath \in Nat
  /\ MaxMsg \in Nat /\ MaxData \in Nat /\ MaxMsg < 65536
  /\ OutHdr <= InHdr
  /\ InHdr + Fid + 4 * Word + MaxData <= MaxMsg
  /\ OutHdr + 2 * Word <= MaxMsg
  /\ InHdr + Fid + MaxPath + 512 < 65536
<1>1. /\ Structs.ioctl.out = OutHdr + 2 * Word
      /\ Structs.ioctl.in = InHdr + Fid + 4 * Word
  BY DEF Structs, Sizes
<1>2. /\ Word \in Nat \ {0} /\ Vattr \in Nat /\ Quad \in Nat /\ InputArgs \in Nat
      /\ OutputArgs \in Nat /\ MaxPath \in Nat /\ MaxData \in Nat /\ MaxMsg < 65536
      /\ InputArgs + MaxPath + 512 < 65536
      /\ \A s \in AllStructs : s.in <= InputArgs /\ s.out <= OutputArgs
  BY VenusAssumption
<1>3. Structs.ioctl \in AllStructs
  BY DEF AllStructs, Structs
<1>4. Structs.ioctl.in <= InputArgs /\ Structs.ioctl.out <= OutputArgs
  BY <1>2, <1>3
<1> QED
  BY <1>1, <1>2, <1>4 DEF InHdr, OutHdr, Fid, MaxMsg

LEMMA NamesAreShort ==
  /\ \A n \in Names : n \in Nat /\ n <= 255
  /\ \A l \in Paths : l \in Nat /\ l <= MaxPath
<1>1. Names \subseteq 1..255 /\ Paths \subseteq 0..MaxPath
  BY VenusAssumption
<1> QED
  BY <1>1, SizesOfWords

LEMMA PioctlSizes ==
  /\ \A n \in DataSizes : n \in Int /\ -32768 <= n
  /\ \A w \in OutSizes : w \in Int
  /\ SizeT \in Nat /\ SizeT >= 131072
  BY VenusAssumption

LEMMA SizesFine ==
  ASSUME NEW in \in Nat, NEW out \in Nat, OutHdr <= out,
         NEW s \in AllStructs, s = Sizes(in, out)
  PROVE  Fine(s)
<1>1. s.in = in /\ s.out = out
  BY DEF Sizes
<1>2. in <= InputArgs /\ out <= OutputArgs
  <2>1. s.in <= InputArgs /\ s.out <= OutputArgs
    BY VenusAssumption
  <2> QED
    BY <1>1, <2>1
<1>3. /\ InputArgs \in Nat /\ OutputArgs \in Nat /\ MaxPath \in Nat /\ MaxData \in Nat
      /\ InputArgs + MaxPath + 512 < 65536 /\ InputArgs + OutputArgs + MaxData < 65536
  BY VenusAssumption DEF MaxMsg
<1>4. in + MaxPath + 512 < 65536 /\ out < 65536
  BY <1>2, <1>3
<1> QED
  BY <1>1, <1>4 DEF Fine

LEMMA StructsFine ==
  /\ Fine(Structs.root) /\ Fine(Structs.open) /\ Fine(Structs.close)
  /\ Fine(Structs.getattr) /\ Fine(Structs.setattr) /\ Fine(Structs.access)
<1> USE SizesOfWords
<1>0. /\ Structs.root \in AllStructs /\ Structs.open \in AllStructs
      /\ Structs.close \in AllStructs /\ Structs.getattr \in AllStructs
      /\ Structs.setattr \in AllStructs /\ Structs.access \in AllStructs
  BY DEF AllStructs, Structs
<1>1. Structs.root = Sizes(InHdr, OutHdr + Fid)
  BY DEF Structs
<1>2. Structs.open = Sizes(InHdr + Fid + Word, OutHdr + Quad)
  BY DEF Structs
<1>3. Structs.close = Sizes(InHdr + Fid + Word, OutHdr)
  BY DEF Structs
<1>4. Structs.getattr = Sizes(InHdr + Fid, Padded(OutHdr) + Vattr)
  BY DEF Structs
<1>5. Structs.setattr = Sizes(Padded(InHdr + Fid) + Vattr, OutHdr)
  BY DEF Structs
<1>6. Structs.access = Sizes(InHdr + Fid + Word, OutHdr)
  BY DEF Structs
<1>7. Padded(OutHdr) \in Nat /\ OutHdr <= Padded(OutHdr) /\ Padded(InHdr + Fid) \in Nat
  BY PaddedMore
<1>8. Fine(Structs.root) /\ Fine(Structs.open)
  BY <1>0, <1>1, <1>2, SizesFine
<1>9. Fine(Structs.close) /\ Fine(Structs.access)
  BY <1>0, <1>3, <1>6, SizesFine
<1>10. Fine(Structs.getattr)
  BY <1>0, <1>4, <1>7, SizesFine
<1>11. Fine(Structs.setattr)
  BY <1>0, <1>5, <1>7, SizesFine
<1> QED
  BY <1>8, <1>9, <1>10, <1>11

LEMMA NameStructsFine ==
  /\ Fine(NameStructs.lookup) /\ Fine(NameStructs.create) /\ Fine(NameStructs.remove)
  /\ Fine(NameStructs.link) /\ Fine(NameStructs.rename) /\ Fine(NameStructs.mkdir)
  /\ Fine(NameStructs.rmdir)
<1> USE SizesOfWords
<1>0. /\ NameStructs.lookup \in AllStructs /\ NameStructs.create \in AllStructs
      /\ NameStructs.remove \in AllStructs /\ NameStructs.link \in AllStructs
      /\ NameStructs.rename \in AllStructs /\ NameStructs.mkdir \in AllStructs
      /\ NameStructs.rmdir \in AllStructs
  BY DEF AllStructs, NameStructs
<1>1. PICK create \in Nat, mkdir \in Nat, made \in Nat :
        /\ create = Padded(Padded(InHdr + Fid) + Vattr + 3 * Word)
        /\ mkdir = Padded(Padded(InHdr + Fid) + Vattr + Word)
        /\ made = Padded(OutHdr + Fid) + Vattr /\ OutHdr <= made
  <2>1. Padded(InHdr + Fid) \in Nat /\ Padded(OutHdr + Fid) \in Nat
        /\ OutHdr + Fid <= Padded(OutHdr + Fid)
    BY PaddedMore
  <2>2. /\ Padded(Padded(InHdr + Fid) + Vattr + 3 * Word) \in Nat
        /\ Padded(Padded(InHdr + Fid) + Vattr + Word) \in Nat
    BY <2>1, PaddedMore
  <2>3. Padded(OutHdr + Fid) + Vattr \in Nat /\ OutHdr <= Padded(OutHdr + Fid) + Vattr
    BY <2>1
  <2> QED
    BY <2>2, <2>3
<1>2. NameStructs.lookup = Sizes(InHdr + Fid + 2 * Word, OutHdr + Fid + Word)
  BY DEF NameStructs
<1>3. NameStructs.create = Sizes(create, made) /\ NameStructs.mkdir = Sizes(mkdir, made)
  BY <1>1 DEF NameStructs
<1>4. /\ NameStructs.remove = Sizes(InHdr + Fid + Word, OutHdr)
      /\ NameStructs.rmdir = Sizes(InHdr + Fid + Word, OutHdr)
  BY DEF NameStructs
<1>5. /\ NameStructs.link = Sizes(InHdr + 2 * Fid + Word, OutHdr)
      /\ NameStructs.rename = Sizes(InHdr + 2 * Fid + 2 * Word, OutHdr)
  BY DEF NameStructs
<1>6. Fine(NameStructs.lookup)
  BY <1>0, <1>2, SizesFine
<1>7. Fine(NameStructs.create) /\ Fine(NameStructs.mkdir)
  BY <1>0, <1>1, <1>3, SizesFine
<1>8. Fine(NameStructs.remove) /\ Fine(NameStructs.rmdir)
  BY <1>0, <1>4, SizesFine
<1>9. Fine(NameStructs.link) /\ Fine(NameStructs.rename)
  BY <1>0, <1>5, SizesFine
<1> QED
  BY <1>6, <1>7, <1>8, <1>9

LEMMA DirStructsFine ==
  /\ Fine(DirStructs.symlink) /\ Fine(DirStructs.fsync) /\ Fine(DirStructs.vget)
<1> USE SizesOfWords
<1>0. /\ DirStructs.symlink \in AllStructs /\ DirStructs.fsync \in AllStructs
      /\ DirStructs.vget \in AllStructs
  BY DEF AllStructs, DirStructs
<1>1. PICK in \in Nat : in = Padded(Padded(InHdr + Fid + Word) + Vattr + Word)
  <2>1. Padded(InHdr + Fid + Word) \in Nat
    BY PaddedMore
  <2>2. Padded(Padded(InHdr + Fid + Word) + Vattr + Word) \in Nat
    BY <2>1, PaddedMore
  <2> QED
    BY <2>2
<1>2. DirStructs.symlink = Sizes(in, OutHdr)
  BY <1>1 DEF DirStructs
<1>3. /\ DirStructs.fsync = Sizes(InHdr + Fid, OutHdr)
      /\ DirStructs.vget = Sizes(InHdr + Fid, OutHdr + Fid + Word)
  BY DEF DirStructs
<1>4. Fine(DirStructs.symlink)
  BY <1>0, <1>1, <1>2, SizesFine
<1>5. Fine(DirStructs.fsync) /\ Fine(DirStructs.vget)
  BY <1>0, <1>3, SizesFine
<1> QED
  BY <1>4, <1>5

LEMMA Operations ==
  {"root", "open", "close", "getattr", "setattr", "access", "fsync", "vget", "lookup",
   "create", "remove", "link", "mkdir", "rmdir", "rename", "symlink", "readdir", "readlink", "ioctl"}
    \subseteq Opcodes \ {"no"}
  BY DEF Opcodes

LEMMA SimpleGood == \A m \in Simple \ {venus_readdir} : Good(m)
<1>0. MaxPath \in Nat
  BY SizesOfWords
<1>1. Good(venus_root)
  <2>1. Fine(Structs.root)
    BY StructsFine
  <2>2. Good(ALLOC(DECL("root", Structs.root)))
    BY Operations, <1>0, <2>1, PlainGood
  <2> QED
    BY <2>2 DEF venus_root
<1>2. Good(venus_open)
  <2>1. Fine(Structs.open)
    BY StructsFine
  <2>2. Good(ALLOC(DECL("open", Structs.open)))
    BY Operations, <1>0, <2>1, PlainGood
  <2> QED
    BY <2>2 DEF venus_open
<1>3. Good(venus_close)
  <2>1. Fine(Structs.close)
    BY StructsFine
  <2>2. Good(ALLOC(DECL("close", Structs.close)))
    BY Operations, <1>0, <2>1, PlainGood
  <2> QED
    BY <2>2 DEF venus_close
<1>4. Good(venus_getattr)
  <2>1. Fine(Structs.getattr)
    BY StructsFine
  <2>2. Good(ALLOC(DECL("getattr", Structs.getattr)))
    BY Operations, <1>0, <2>1, PlainGood
  <2> QED
    BY <2>2 DEF venus_getattr
<1>5. Good(venus_setattr)
  <2>1. Fine(Structs.setattr)
    BY StructsFine
  <2>2. Good(ALLOC(DECL("setattr", Structs.setattr)))
    BY Operations, <1>0, <2>1, PlainGood
  <2> QED
    BY <2>2 DEF venus_setattr
<1>6. Good(venus_access)
  <2>1. Fine(Structs.access)
    BY StructsFine
  <2>2. Good(ALLOC(DECL("access", Structs.access)))
    BY Operations, <1>0, <2>1, PlainGood
  <2> QED
    BY <2>2 DEF venus_access
<1>7. Good(venus_fsync)
  <2>1. Fine(DirStructs.fsync)
    BY DirStructsFine
  <2>2. Good(ALLOC(DECL("fsync", DirStructs.fsync)))
    BY Operations, <1>0, <2>1, PlainGood
  <2> QED
    BY <2>2 DEF venus_fsync
<1>8. Good(venus_fhtovp)
  <2>1. Fine(DirStructs.vget)
    BY DirStructsFine
  <2>2. Good(ALLOC(DECL("vget", DirStructs.vget)))
    BY Operations, <1>0, <2>1, PlainGood
  <2> QED
    BY <2>2 DEF venus_fhtovp
<1> QED
  BY <1>1, <1>2, <1>3, <1>4, <1>5, <1>6, <1>7, <1>8 DEF Simple

LEMMA NamedAllGood == \A m \in Named : Good(m)
<1> SUFFICES ASSUME NEW n \in Names
             PROVE  /\ Good(venus_lookup(n)) /\ Good(venus_create(n)) /\ Good(venus_remove(n))
                    /\ Good(venus_link(n)) /\ Good(venus_mkdir(n)) /\ Good(venus_rmdir(n))
  BY DEF Named
<1>0. n \in Nat /\ n <= 255 /\ MaxPath \in Nat
  BY NamesAreShort, SizesOfWords
<1>1. Good(venus_lookup(n))
  <2>1. Good(STRCPY(ALLOC(More(DECL("lookup", NameStructs.lookup), n + 1)), n))
    BY Operations, <1>0, NameStructsFine, NamedGood
  <2> QED
    BY <2>1 DEF venus_lookup
<1>2. Good(venus_create(n))
  <2>1. Good(STRCPY(ALLOC(More(DECL("create", NameStructs.create), n + 1)), n))
    BY Operations, <1>0, NameStructsFine, NamedGood
  <2> QED
    BY <2>1 DEF venus_create
<1>3. Good(venus_remove(n))
  <2>1. Good(STRCPY(ALLOC(More(DECL("remove", NameStructs.remove), n + 1)), n))
    BY Operations, <1>0, NameStructsFine, NamedGood
  <2> QED
    BY <2>1 DEF venus_remove
<1>4. Good(venus_link(n))
  <2>1. Good(STRCPY(ALLOC(More(DECL("link", NameStructs.link), n + 1)), n))
    BY Operations, <1>0, NameStructsFine, NamedGood
  <2> QED
    BY <2>1 DEF venus_link
<1>5. Good(venus_mkdir(n))
  <2>1. Good(STRCPY(ALLOC(More(DECL("mkdir", NameStructs.mkdir), n + 1)), n))
    BY Operations, <1>0, NameStructsFine, NamedGood
  <2> QED
    BY <2>1 DEF venus_mkdir
<1>6. Good(venus_rmdir(n))
  <2>1. Good(STRCPY(ALLOC(More(DECL("rmdir", NameStructs.rmdir), n + 1)), n))
    BY Operations, <1>0, NameStructsFine, NamedGood
  <2> QED
    BY <2>1 DEF venus_rmdir
<1> QED
  BY <1>1, <1>2, <1>3, <1>4, <1>5, <1>6

\* The longest path is not longer than CODA_MAXPATHLEN, which 16 bits can count.
LEMMA TwiceAllGood == \A m \in Twice : Good(m)
<1>1. ASSUME NEW n \in Names, NEW t \in Names PROVE Good(venus_rename(n, t))
  <2>1. n \in Nat /\ t \in Nat /\ MaxPath \in Nat /\ n + t <= MaxPath + 510
    BY NamesAreShort, SizesOfWords
  <2>2. Good(STRCPY(STRCPY(ALLOC(More(DECL("rename", NameStructs.rename), n + 1 + t + 1)), n), t))
    BY Operations, <2>1, NameStructsFine, TwiceGood
  <2> QED
    BY <2>2 DEF venus_rename
<1>2. ASSUME NEW l \in Paths, NEW n \in Names PROVE Good(venus_symlink(l, n))
  <2>1. n \in Nat /\ l \in Nat /\ MaxPath \in Nat /\ l + n <= MaxPath + 510
    BY NamesAreShort, SizesOfWords
  <2>2. Good(STRCPY(STRCPY(ALLOC(More(DECL("symlink", DirStructs.symlink), l + 1 + n + 1)), l), n))
    BY Operations, <2>1, DirStructsFine, TwiceGood
  <2> QED
    BY <2>2 DEF venus_symlink
<1> QED
  BY <1>1, <1>2 DEF Twice

\* readdir, readlink and ioctl make room for data in the reply.
LEMMA ReaddirGood == Good(venus_readdir)
<1>0. PICK op \in Opcodes : op = "readdir" /\ op # "no"
  BY Operations
<1>1. PICK d : d = DECL(op, DirStructs.readdir)
  OBVIOUS
<1>2. DirStructs.readdir = Sizes(InHdr + Fid + 2 * Word, OutHdr + 2 * Word)
  BY DEF DirStructs
<1>3. PICK in \in Nat, out \in Nat :
        /\ DirStructs.readdir = Sizes(in, out)
        /\ in <= MaxMsg /\ out <= MaxMsg /\ OutHdr <= out
  BY <1>2, SizesOfWords
<1>4. Packed(d) /\ Has(d, op, in, in, out, out)
  BY <1>1, <1>3, <1>0, DeclPacked
<1>5. PICK m : m = [d EXCEPT !.size = MaxMsg]
  OBVIOUS
<1>6. Packed(m) /\ Has(m, op, MaxMsg, in, out, out)
  BY <1>4, <1>5, SizesOfWords DEF Packed, Has, Message
<1>7. PICK k : k = ALLOC(m)
  OBVIOUS
<1>8. /\ Packed(k)
      /\ Has(k, m.op, IF m.osize > m.size THEN m.osize ELSE m.size, m.isize, m.osize, m.out)
  BY <1>6, <1>7, AllocPacked
<1>9. Has(k, op, MaxMsg, in, out, out)
  BY <1>3, <1>6, <1>8, SizesOfWords DEF Has
<1>10. PICK j : j = [k EXCEPT !.osize = MaxMsg]
  OBVIOUS
<1>11. Packed(j) /\ Has(j, op, MaxMsg, in, MaxMsg, out)
  BY <1>8, <1>9, <1>10, SizesOfWords DEF Packed, Has, Message
<1>12. Good(j)
  BY <1>3, <1>11, <1>0, SizesOfWords, PackedGood
<1> QED
  BY <1>0, <1>1, <1>5, <1>7, <1>10, <1>12 DEF venus_readdir

LEMMA ReadlinkGood == Good(venus_readlink)
<1>0. PICK op \in Opcodes : op = "readlink" /\ op # "no"
  BY Operations
<1>1. DirStructs.readlink = Sizes(InHdr + Fid, OutHdr + 2 * Word)
  BY DEF DirStructs
<1>2. PICK in \in Nat, out \in Nat :
        /\ DirStructs.readlink = Sizes(in, out) /\ OutHdr <= out
        /\ out <= in + MaxPath \/ out > in + MaxPath
        /\ in < 65536 /\ out + MaxPath < 65536 /\ out <= in
  BY <1>1, SizesOfWords DEF InHdr, OutHdr
<1>3. PICK m : m = ALLOC(More(DECL(op, DirStructs.readlink), MaxPath))
  OBVIOUS
<1>4. PICK size : size = IF out > in + MaxPath THEN out ELSE in + MaxPath
  OBVIOUS
<1>5. Packed(m) /\ Has(m, op, size, in, out, out)
  BY <1>2, <1>3, <1>4, SizesOfWords, <1>0, RoomMade
<1>6. PICK k : k = [m EXCEPT !.osize = m.osize + MaxPath]
  OBVIOUS
<1>7. Packed(k) /\ Has(k, op, size, in, out + MaxPath, out)
  BY <1>5, <1>6, SizesOfWords DEF Packed, Has, Message
<1>8. in <= size /\ out + MaxPath <= size
  BY <1>2, <1>4, SizesOfWords
<1>9. Good(k)
  BY <1>2, <1>7, <1>8, <1>0, SizesOfWords, PackedGood
<1> QED
  BY <1>0, <1>3, <1>6, <1>9 DEF venus_readlink

\* The request of a pioctl without its data, in a buffer of the largest size.
Bare == ALLOC([DECL("ioctl", Structs.ioctl) EXCEPT !.size = MaxMsg])

LEMMA IoctlBare ==
  ASSUME NEW m, m = Bare
  PROVE  \E in \in Nat, out \in Nat :
           /\ Packed(m) /\ Has(m, "ioctl", MaxMsg, in, out, out)
           /\ Structs.ioctl.in = in
           /\ in + MaxData <= MaxMsg /\ out <= MaxMsg /\ OutHdr <= out
<1>0. PICK op \in Opcodes : op = "ioctl"
  BY Operations
<1>1. Structs.ioctl = Sizes(InHdr + Fid + 4 * Word, OutHdr + 2 * Word)
  BY DEF Structs
<1>2. PICK in \in Nat, out \in Nat :
        /\ Structs.ioctl = Sizes(in, out) /\ Structs.ioctl.in = in
        /\ in + MaxData <= MaxMsg /\ out <= MaxMsg /\ OutHdr <= out
  <2>1. /\ InHdr + Fid + 4 * Word \in Nat /\ OutHdr + 2 * Word \in Nat
        /\ InHdr + Fid + 4 * Word + MaxData <= MaxMsg
        /\ OutHdr + 2 * Word <= MaxMsg /\ OutHdr <= OutHdr + 2 * Word
    BY SizesOfWords
  <2>2. Structs.ioctl.in = InHdr + Fid + 4 * Word
    BY <1>1 DEF Sizes
  <2> QED
    BY <1>1, <2>1, <2>2
<1>3. PICK d : d = DECL(op, Structs.ioctl)
  OBVIOUS
<1>4. Packed(d) /\ Has(d, op, in, in, out, out)
  BY <1>2, <1>3, <1>0, DeclPacked
<1>5. PICK e : e = [d EXCEPT !.size = MaxMsg]
  OBVIOUS
<1>6. /\ Packed(e) /\ Has(e, op, MaxMsg, in, out, out)
  BY <1>4, <1>5, SizesOfWords DEF Packed, Has, Message
<1>7. m = ALLOC(e)
  BY <1>0, <1>3, <1>5 DEF Bare
<1>8. /\ Packed(m)
      /\ Has(m, e.op, IF e.osize > e.size THEN e.osize ELSE e.size, e.isize, e.osize, e.out)
  BY <1>6, <1>7, AllocPacked
<1>9. Packed(m) /\ Has(m, op, MaxMsg, in, out, out)
  BY <1>2, <1>6, <1>8, SizesOfWords DEF Has
<1> QED
  BY <1>0, <1>2, <1>9

LEMMA UnsignedNat ==
  ASSUME NEW n \in Int, -32768 <= n
  PROVE  Unsigned(n) \in Nat /\ (n >= 0 => Unsigned(n) = n)
  BY PioctlSizes DEF Unsigned

\* The message of a pioctl, once its data are in it.
Filled(m, P, i, n, w) ==
  [m EXCEPT !.pieces = P, !.isize = i, !.osize = MaxMsg, !.data = n, !.want = w]

LEMMA FilledIs ==
  ASSUME NEW m \in Message, NEW P \in SUBSET [at : Nat, len : Nat], NEW i \in Int,
         NEW n \in Int, NEW w \in Int, NEW k, k = Filled(m, P, i, n, w)
  PROVE  /\ k \in Message
         /\ k.pieces = P /\ k.isize = i /\ k.osize = MaxMsg /\ k.data = n
         /\ k.op = m.op /\ k.size = m.size /\ k.out = m.out
<1>1. k = [op |-> m.op, size |-> m.size, isize |-> i, osize |-> MaxMsg, out |-> m.out,
           pieces |-> P, data |-> n, want |-> w]
  BY DEF Message, Filled
<1>2. m.op \in Opcodes /\ m.size \in Nat /\ m.out \in Nat /\ MaxMsg \in Nat
  BY SizesOfWords DEF Message
<1> QED
  BY <1>1, <1>2 DEF Message

\* With its data, of whatever size coda_ioctl has let through.
LEMMA IoctlMade ==
  ASSUME NEW n \in Int, -32768 <= n, NEW w \in Int, n <= MaxData,
         NEW k, k = venus_ioctl(n, w)
  PROVE  /\ k \in Message /\ k.op # "no" /\ k.data = n
         /\ n >= 0 => Good(k)
<1>1. PICK m : m = Bare
  OBVIOUS
<1>2. PICK in \in Nat, out \in Nat :
        /\ Packed(m) /\ Has(m, "ioctl", MaxMsg, in, out, out)
        /\ Structs.ioctl.in = in
        /\ in + MaxData <= MaxMsg /\ out <= MaxMsg /\ OutHdr <= out
  BY <1>1, IoctlBare
<1>3. PICK len \in Nat : len = Unsigned(n) /\ (n >= 0 => len = n)
  BY UnsignedNat
<1>4. PICK p : p = Piece(in, len)
  OBVIOUS
<1>5. p \in [at : Nat, len : Nat] /\ p.at = in /\ Ends(p) = in + len
  BY <1>4 DEF Piece, Ends
<1>6. m \in Message /\ m.isize = in /\ m.op = "ioctl" /\ m.size = MaxMsg /\ m.out = out
  BY <1>2 DEF Packed, Has
<1>7. in + n \in Int /\ n \in Int /\ w \in Int /\ MaxMsg \in Nat
  BY SizesOfWords
<1>8. k = Filled(m, m.pieces \cup {p}, in + n, n, w)
  <2>1. k = Filled(m, m.pieces \cup {Piece(Structs.ioctl.in, Unsigned(n))}, m.isize + n, n, w)
    BY <1>1 DEF venus_ioctl, Bare, Filled
  <2>2. Piece(Structs.ioctl.in, Unsigned(n)) = p /\ m.isize + n = in + n
    BY <1>2, <1>3, <1>4, <1>6
  <2> QED
    BY <2>1, <2>2
<1>9. /\ k \in Message /\ k.pieces = m.pieces \cup {p} /\ k.isize = in + n
      /\ k.osize = MaxMsg /\ k.data = n /\ k.op = "ioctl" /\ k.size = MaxMsg /\ k.out = out
  <2>1. m.pieces \cup {p} \in SUBSET [at : Nat, len : Nat]
    BY <1>5, <1>6 DEF Message
  <2> QED
    BY <1>6, <1>7, <1>8, <2>1, FilledIs
<1>10. ASSUME n >= 0 PROVE Good(k)
  <2>1. Ends(p) = in + n /\ in + n \in Nat
    BY <1>3, <1>5, <1>10
  <2>2. \A q \in m.pieces : q \in [at : Nat, len : Nat] /\ Ends(q) \in Nat /\ Ends(q) <= in
    BY <1>2, <1>6 DEF Packed, Message, Ends
  <2>3. \A q \in k.pieces : Ends(q) <= k.isize
    BY <1>9, <1>10, <2>1, <2>2
  <2>4. \A q, r \in k.pieces : q # r => Apart(q, r)
    BY <1>2, <1>5, <1>9, <2>2 DEF Packed, Apart
  <2>5. Packed(k)
    BY <1>9, <2>1, <2>3, <2>4 DEF Packed
  <2>6. Has(k, "ioctl", MaxMsg, in + n, MaxMsg, out)
    BY <1>9 DEF Has
  <2>7. in + n <= MaxMsg /\ MaxMsg < 65536 /\ MaxMsg \in Nat
    BY <1>2, SizesOfWords
  <2> QED
    BY <1>2, <2>1, <2>5, <2>6, <2>7, PackedGood
<1> QED
  BY <1>9, <1>10

\* The messages there can be, but for pioctls.
Requests == Calls \cup {venus_readlink}

LEMMA RequestsGood == \A m \in Requests : Good(m)
<1>1. \A m \in Simple \cup Named \cup Twice : Good(m)
  BY SimpleGood, ReaddirGood, NamedAllGood, TwiceAllGood
<1> QED
  BY <1>1, ReadlinkGood DEF Requests, Calls

-----------------------------------------------------------------------------
(* Types and messages.                                                     *)

\* A message is as its caller relies on, but while data of a negative size are
\* being copied into it.
Half(m) == m \in Message /\ m.op # "no" /\ m.data < 0
MsgInv ==
  /\ \A c \in Callers : Idle(c) \/ Good(msg[c]) \/ (c \in copying /\ Half(msg[c]))
  /\ \A c \in copying : ~Idle(c)

ReplyType == [sent : Int, result : {0, 1}, len : Int, data : Int]

LEMMA GoodNotNone == \A m : Good(m) \/ Half(m) => m # NoMsg
  BY DEF Good, Half, NoMsg

LEMMA ReplyTypes == Unanswered \in ReplyType /\ Refused \in ReplyType
  BY DEF Unanswered, Refused, Reply, ReplyType

LEMMA CallMsg ==
  ASSUME TypeOK, MsgInv, NEW c \in Callers, NEW m, Good(m), coda_call(c, m),
         copying' = copying \ {c}
  PROVE  /\ requests' \in Seq(Callers \cup {"signal"}) /\ venus' \in {"runs", "asleep"}
         /\ msg' \in [Callers -> Message] /\ MsgInv' /\ reply' \in [Callers -> ReplyType]
<1>1. m \in Message /\ m # NoMsg
  BY GoodNotNone DEF Good, Packed
<1>2. msg' = [msg EXCEPT ![c] = m] /\ msg \in [Callers -> Message] /\ copying \subseteq Callers
  BY DEF coda_call, TypeOK
<1>3. MsgInv'
  BY <1>1, <1>2 DEF MsgInv, Idle
<1>4. reply' \in [Callers -> ReplyType]
  BY ReplyTypes DEF coda_call, TypeOK, ReplyType
<1> QED
  BY <1>1, <1>2, <1>3, <1>4 DEF coda_call, TypeOK

LEMMA NoMsgType == NoMsg \in Message
  BY DEF NoMsg, Message, Opcodes

\* A caller that has its reply, or none, gives its message up.
LEMMA MsgGone ==
  ASSUME TypeOK, MsgInv, NEW c \in Callers, Frees(c), copying' = copying \ {c}
  PROVE  /\ msg' \in [Callers -> Message] /\ MsgInv' /\ copying' \subseteq Callers
         /\ reply' \in [Callers -> ReplyType]
<1>1. msg' = [msg EXCEPT ![c] = NoMsg] /\ reply' = [reply EXCEPT ![c] = Unanswered]
  BY DEF Frees
<1>2. /\ msg \in [Callers -> Message] /\ reply \in [Callers -> ReplyType]
      /\ copying \subseteq Callers
  BY DEF TypeOK, ReplyType
<1>3. MsgInv'
  BY <1>1, <1>2 DEF MsgInv, Idle
<1> QED
  BY <1>1, <1>2, <1>3, NoMsgType, ReplyTypes

LEMMA RemqueType ==
  ASSUME NEW S, NEW q \in Seq(S), NEW i \in DOMAIN q
  PROVE  REMQUE(q, i) \in Seq(S)
<1>1. Len(q) \in Nat /\ DOMAIN q = 1..Len(q) /\ \A j \in 1..Len(q) : q[j] \in S
  OBVIOUS
<1>2. Len(q) - 1 \in Nat
  BY <1>1
<1>3. \A j \in 1..(Len(q) - 1) : j \in 1..Len(q) /\ j + 1 \in 1..Len(q)
  BY <1>1
<1>4. \A j \in 1..(Len(q) - 1) : (IF j < i THEN q[j] ELSE q[j + 1]) \in S
  BY <1>1, <1>3
<1>5. REMQUE(q, i) \in [1..(Len(q) - 1) -> S]
  BY <1>4 DEF REMQUE
<1> QED
  BY <1>2, <1>5

\* What a caller that waits leaves of the copies under way.
LEMMA NotCopying ==
  ASSUME NEW c, c \notin copying, UNCHANGED copying
  PROVE  copying' = copying \ {c}
  OBVIOUS

LEMMA CallerType ==
  ASSUME TypeOK, MsgInv, NEW c \in Callers, OfCaller(c)
  PROVE  TypeOK' /\ MsgInv'
<1>0. /\ copying \subseteq Callers /\ reply \in [Callers -> ReplyType]
      /\ msg \in [Callers -> Message] /\ \A d \in copying : ~Idle(d)
  BY DEF TypeOK, MsgInv, ReplyType
<1>1. CASE Ask(c)
  <2>1. PICK m \in Calls : coda_call(c, m)
    BY <1>1 DEF Ask
  <2>2. Good(m)
    BY RequestsGood DEF Requests
  <2>3. copying' = copying \ {c}
    BY <1>0, <1>1 DEF Ask
  <2> QED
    BY <1>1, <2>1, <2>2, <2>3, CallMsg DEF Ask, TypeOK, ReplyType
<1>2. CASE coda_readlink(c)
  <2>1. copying' = copying \ {c}
    BY <1>0, <1>2 DEF coda_readlink
  <2> QED
    BY <1>2, <2>1, ReadlinkGood, CallMsg DEF coda_readlink, TypeOK, ReplyType
<1>3. CASE coda_ioctl(c)
  <2>1. PICK n \in DataSizes, w \in OutSizes :
          n <= MaxData /\ msg' = [msg EXCEPT ![c] = venus_ioctl(n, w)]
    BY <1>3 DEF coda_ioctl
  <2>2. PICK k : k = venus_ioctl(n, w)
    OBVIOUS
  <2>3. n \in Int /\ -32768 <= n /\ w \in Int
    BY PioctlSizes
  <2>4. k \in Message /\ k.op # "no" /\ k.data = n /\ (n >= 0 => Good(k))
    BY <2>1, <2>2, <2>3, IoctlMade
  <2>5. Good(k) \/ Half(k)
    BY <2>3, <2>4 DEF Half
  <2>6. k # NoMsg
    BY <2>5, GoodNotNone
  <2>7. msg' = [msg EXCEPT ![c] = k] /\ copying' = copying \cup {c}
    BY <1>3, <2>1, <2>2 DEF coda_ioctl
  <2>8. msg' \in [Callers -> Message] /\ MsgInv'
    BY <1>0, <2>4, <2>5, <2>6, <2>7 DEF MsgInv, Idle
  <2> QED
    BY <1>3, <2>7, <2>8 DEF coda_ioctl, TypeOK
<1>4. CASE IoctlTooMuch(c)
  BY <1>4 DEF IoctlTooMuch, TypeOK, MsgInv, Idle
<1>5. CASE CopiedIn(c)
  <2>1. c \in copying /\ msg[c].data >= 0 /\ coda_call(c, msg[c]) /\ copying' = copying \ {c}
    BY <1>5 DEF CopiedIn
  <2>2. msg[c].data \in Int
    BY <1>0 DEF Message
  <2>3. Good(msg[c])
    BY <1>0, <2>1, <2>2 DEF MsgInv, Half
  <2> QED
    BY <1>5, <2>1, <2>3, CallMsg DEF CopiedIn, TypeOK, ReplyType
<1>6. CASE CopyFails(c)
  BY <1>6, MsgGone DEF CopyFails, Releases, TypeOK, ReplyType
<1>7. CASE Answered(c)
  <2>1. unread' \subseteq {"reply", "out_size"} /\ symlink' \in BOOLEAN
    BY <1>7 DEF Answered, TypeOK, Unwritten
  <2>2. copying' = copying \ {c} /\ Frees(c)
    BY <1>7 DEF Answered, Waits
  <2> QED
    BY <1>7, <2>1, <2>2, MsgGone DEF Answered, Releases, Unlocks, TypeOK, ReplyType
<1>8. CASE ReadlinkNoMemory(c)
  <2>1. copying' = copying \ {c} /\ Frees(c)
    BY <1>8 DEF ReadlinkNoMemory, Waits
  <2> QED
    BY <1>8, <2>1, MsgGone DEF ReadlinkNoMemory, Releases, Unlocks, TypeOK, ReplyType
<1>9. CASE Interrupted(c)
  <2>1. requests' \in Seq(Callers \cup {"signal"}) /\ venus' \in {"runs", "asleep"}
    <3>1. requests \in Seq(Callers \cup {"signal"}) /\ venus \in {"runs", "asleep"}
      BY DEF TypeOK
    <3>2. Append(requests, "signal") \in Seq(Callers \cup {"signal"})
      BY <3>1
    <3>3. \A i \in DOMAIN requests : REMQUE(requests, i) \in Seq(Callers \cup {"signal"})
      BY <3>1, RemqueType
    <3> QED
      BY <1>9, <3>1, <3>2, <3>3 DEF Interrupted
  <2>2. copying' = copying \ {c} /\ Frees(c)
    BY <1>9 DEF Interrupted, Waits
  <2> QED
    BY <1>9, <2>1, <2>2, MsgGone DEF Interrupted, Releases, Unlocks, TypeOK, ReplyType
<1>10. CASE VenusDied(c)
  <2>1. copying' = copying \ {c} /\ Frees(c)
    BY <1>10 DEF VenusDied, Waits
  <2> QED
    BY <1>10, <2>1, MsgGone DEF VenusDied, Releases, Unlocks, TypeOK, ReplyType
<1> QED
  BY <1>1, <1>2, <1>3, <1>4, <1>5, <1>6, <1>7, <1>8, <1>9, <1>10 DEF OfCaller

\* What Venus sends keeps its type.
LEMMA AnswersType ==
  ASSUME NEW m \in Message, NEW r \in Answers(m)
  PROVE  r \in ReplyType
<1>1. m.out \in Nat /\ m.osize \in Nat /\ m.want \in Int /\ OutHdr \in Nat
  BY SizesOfWords DEF Message
<1>2. Data(m) \subseteq Int
  BY <1>1 DEF Data
<1>3. \A sent \in Int : \A e \in {0, 1} : \A len \in Int : \A data \in Int :
        Reply(sent, e, len, data) \in ReplyType
  BY DEF Reply, ReplyType
<1>4. Reply(OutHdr, 1, 0, 0) \in ReplyType /\ Reply(OutHdr, 0, 0, 0) \in ReplyType
  <2>1. OutHdr \in Int /\ 0 \in Int /\ 0 \in {0, 1} /\ 1 \in {0, 1}
    BY <1>1
  <2> QED
    BY <1>3, <2>1
<1>5. m.out \in Int /\ m.osize + 1 \in Int /\ m.osize + 9 \in Int
      /\ m.osize + 1 - m.out \in Int /\ m.osize + 9 - m.out \in Int
  BY <1>1
<1>6. Reply(m.out, 0, 1, m.out) \in ReplyType
  <2>1. 0 \in {0, 1} /\ 1 \in Int
    OBVIOUS
  <2> QED
    BY <1>3, <1>5, <2>1
<1>7. Truthful(m) \subseteq ReplyType
  <2>1. \A k \in Data(m), e \in {0, 1} : Reply(m.out + k, e, k, m.out) \in ReplyType
    <3>1. SUFFICES ASSUME NEW k \in Data(m), NEW e \in {0, 1}
                   PROVE  Reply(m.out + k, e, k, m.out) \in ReplyType
      OBVIOUS
    <3>2. k \in Int /\ m.out + k \in Int /\ m.out \in Int
      BY <1>1, <1>2
    <3> QED
      BY <1>3, <3>2
  <2> QED
    BY <1>4, <2>1 DEF Truthful
<1>8. TooShort \subseteq ReplyType /\ Untrue(m) \subseteq ReplyType
  BY <1>4, <1>6 DEF TooShort, Untrue
<1>9. TooLong(m) \subseteq ReplyType
  <2>1. /\ Reply(m.osize + 1, 0, m.osize + 1 - m.out, m.out) \in ReplyType
        /\ Reply(m.osize + 9, 0, m.osize + 9 - m.out, m.out) \in ReplyType
    BY <1>3, <1>5
  <2> QED
    BY <2>1 DEF TooLong
<1> QED
  BY <1>7, <1>8, <1>9 DEF Answers

LEMMA InitType == Init => TypeOK /\ MsgInv
<1> SUFFICES ASSUME Init PROVE TypeOK /\ MsgInv
  OBVIOUS
<1>1. msg \in [Callers -> Message] /\ MsgInv
  BY NoMsgType DEF Init, MsgInv, Idle
<1>2. requests \in Seq(Callers \cup {"signal"}) /\ replys \subseteq Callers
  BY DEF Init
<1>3. reply \in [Callers -> ReplyType] /\ held \in [Callers -> SUBSET {"buffer", "vnode"}]
  BY ReplyTypes DEF Init
<1> QED
  BY <1>1, <1>2, <1>3 DEF Init, TypeOK, ReplyType

LEMMA NextType == TypeOK /\ MsgInv /\ [Next]_vars => (TypeOK /\ MsgInv)'
<1> SUFFICES ASSUME TypeOK, MsgInv, [Next]_vars PROVE TypeOK' /\ MsgInv'
  OBVIOUS
<1>1. CASE vc_nb_select
  BY <1>1 DEF vc_nb_select, TypeOK, MsgInv, Idle
<1>2. CASE vc_nb_read
  <2>1. requests \in Seq(Callers \cup {"signal"}) /\ requests # <<>>
    BY <1>2 DEF vc_nb_read, TypeOK
  <2>2. Head(requests) \in Callers \cup {"signal"} /\ Tail(requests) \in Seq(Callers \cup {"signal"})
    BY <2>1
  <2>3. requests' \in Seq(Callers \cup {"signal"}) /\ replys' \subseteq Callers
    BY <1>2, <2>2 DEF vc_nb_read, TypeOK
  <2> QED
    BY <1>2, <2>3 DEF vc_nb_read, TypeOK, MsgInv, Idle
<1>3. CASE vc_nb_close
  <2>1. requests' \in Seq(Callers \cup {"signal"}) /\ replys' \subseteq Callers
    BY <1>3 DEF vc_nb_close
  <2> QED
    BY <1>3, <2>1 DEF vc_nb_close, TypeOK, MsgInv, Idle
<1>4. CASE vc_nb_open
  BY <1>4 DEF vc_nb_open, TypeOK, MsgInv, Idle
<1>5. CASE Forget
  BY <1>5 DEF Forget, TypeOK, MsgInv, Idle
<1>6. ASSUME NEW c \in Callers, vc_nb_write(c) PROVE TypeOK' /\ MsgInv'
  <2>1. PICK r \in Answers(msg[c]) :
          reply' = [reply EXCEPT ![c] = IF Accepted(msg[c], r.sent) THEN r ELSE Refused]
    BY <1>6 DEF vc_nb_write
  <2>2. msg[c] \in Message /\ reply \in [Callers -> ReplyType]
    BY DEF TypeOK, ReplyType
  <2>3. (IF Accepted(msg[c], r.sent) THEN r ELSE Refused) \in ReplyType
    BY <2>2, AnswersType, ReplyTypes
  <2>4. reply' \in [Callers -> ReplyType]
    BY <2>1, <2>2, <2>3
  <2> QED
    BY <1>6, <2>4 DEF vc_nb_write, TypeOK, MsgInv, Idle, ReplyType
<1>7. CASE \E c \in Callers : OfCaller(c)
  BY <1>7, CallerType
<1>8. CASE UNCHANGED vars
  BY <1>8 DEF vars, TypeOK, MsgInv, Idle
<1> QED
  BY <1>1, <1>2, <1>3, <1>4, <1>5, <1>6, <1>7, <1>8 DEF Next

\* Every variable of the marshalling keeps its type.
THEOREM VenusTypeOK == Spec => []TypeOK
<1>1. Spec => [](TypeOK /\ MsgInv)
  BY InitType, NextType, PTL DEF Spec
<1>2. TypeOK /\ MsgInv => TypeOK
  OBVIOUS
<1> QED
  BY <1>1, <1>2, PTL

\* Every request on its way or under way, with names and paths of any length the
\* system calls accept, pioctls of any 16-bit size and on a machine of any word
\* size, fits into its buffer together with its longest reply (venus_* of
\* coda_venus.c), unless it is being copied in with a negative in_size, which
\* coda_ioctl lets through.
THEOREM VenusBuffersFit == Spec => []BuffersFit
<1>1. Spec => [](TypeOK /\ MsgInv)
  BY InitType, NextType, PTL DEF Spec
<1>2. MsgInv => BuffersFit
  BY DEF MsgInv, BuffersFit, Good, Half
<1> QED
  BY <1>1, <1>2, PTL

-----------------------------------------------------------------------------
(* What callers hold.                                                      *)

\* Besides, who reads a symlink waits for Venus and has no vnode of a pioctl.
HoldsInv ==
  /\ Released
  /\ \A c \in Callers : owner = c => "vnode" \notin held[c] /\ c \notin copying

Inv == TypeOK /\ MsgInv /\ HoldsInv

LEMMA NextHolds == Inv /\ [Next]_vars => HoldsInv'
<1> SUFFICES ASSUME Inv, [Next]_vars PROVE HoldsInv'
  OBVIOUS
<1>t. TypeOK /\ MsgInv /\ HoldsInv
  BY DEF Inv
<1>f. /\ msg \in [Callers -> Message] /\ held \in [Callers -> SUBSET {"buffer", "vnode"}]
      /\ None \notin Callers /\ copying \subseteq Callers
      /\ \A c \in copying : ~Idle(c)
  <2>1. None \notin Callers
    BY VenusAssumption
  <2> QED
    BY <1>t, <2>1 DEF TypeOK, MsgInv
<1>1. CASE vc_nb_select \/ vc_nb_read \/ vc_nb_close \/ vc_nb_open \/ Forget
  BY <1>1, <1>t
    DEF vc_nb_select, vc_nb_read, vc_nb_close, vc_nb_open, Forget, HoldsInv, Released, Idle
<1>2. ASSUME NEW c \in Callers, vc_nb_write(c) PROVE HoldsInv'
  BY <1>2, <1>t DEF vc_nb_write, HoldsInv, Released, Idle
<1>3. ASSUME NEW c \in Callers, OfCaller(c) PROVE HoldsInv'
  <2>1. CASE Ask(c)
    <3>1. PICK m \in Calls : coda_call(c, m)
      BY <2>1 DEF Ask
    <3>2. m # NoMsg
      BY GoodNotNone, RequestsGood DEF Requests
    <3>3. msg' = [msg EXCEPT ![c] = m]
      BY <3>1 DEF coda_call
    <3> QED
      BY <2>1, <1>t, <1>f, <3>2, <3>3 DEF Ask, HoldsInv, Released, Idle
  <2>2. CASE coda_readlink(c)
    <3>1. venus_readlink # NoMsg /\ msg' = [msg EXCEPT ![c] = venus_readlink]
      BY <2>2, GoodNotNone, ReadlinkGood DEF coda_readlink, coda_call
    <3> QED
      BY <2>2, <1>t, <1>f, <3>1 DEF coda_readlink, HoldsInv, Released, Idle
  <2>3. CASE coda_ioctl(c)
    <3>1. PICK k : msg' = [msg EXCEPT ![c] = k] /\ k # NoMsg
      <4>1. PICK n \in DataSizes, w \in OutSizes :
              n <= MaxData /\ msg' = [msg EXCEPT ![c] = venus_ioctl(n, w)]
        BY <2>3 DEF coda_ioctl
      <4>2. PICK k : k = venus_ioctl(n, w)
        OBVIOUS
      <4>3. k.op # "no"
        BY <4>1, <4>2, IoctlMade, PioctlSizes
      <4>4. k # NoMsg
        BY <4>3 DEF NoMsg
      <4> QED
        BY <4>1, <4>2, <4>4
    <3> QED
      BY <2>3, <1>t, <1>f, <3>1 DEF coda_ioctl, HoldsInv, Released, Idle
  <2>4. CASE IoctlTooMuch(c)
    BY <2>4, <1>t DEF IoctlTooMuch, HoldsInv, Released, Idle
  <2>5. CASE CopiedIn(c)
    <3>1. msg' = [msg EXCEPT ![c] = msg[c]]
      BY <2>5 DEF CopiedIn, coda_call
    <3>2. msg' = msg
      BY <1>f, <3>1
    <3> QED
      BY <2>5, <1>t, <1>f, <3>2 DEF CopiedIn, HoldsInv, Released, Idle
  <2>6. CASE CopyFails(c)
    BY <2>6, <1>t, <1>f DEF CopyFails, Frees, Releases, HoldsInv, Released, Idle
  <2>7. CASE Answered(c)
    BY <2>7, <1>t, <1>f DEF Answered, Frees, Releases, Unlocks, HoldsInv, Released, Idle
  <2>8. CASE ReadlinkNoMemory(c)
    BY <2>8, <1>t, <1>f DEF ReadlinkNoMemory, Frees, Releases, Unlocks, HoldsInv, Released, Idle
  <2>9. CASE Interrupted(c)
    BY <2>9, <1>t, <1>f DEF Interrupted, Frees, Releases, Unlocks, HoldsInv, Released, Idle
  <2>10. CASE VenusDied(c)
    BY <2>10, <1>t, <1>f DEF VenusDied, Frees, Releases, Unlocks, HoldsInv, Released, Idle
  <2> QED
    BY <1>3, <2>1, <2>2, <2>3, <2>4, <2>5, <2>6, <2>7, <2>8, <2>9, <2>10 DEF OfCaller
<1>4. CASE UNCHANGED vars
  BY <1>4, <1>t DEF vars, HoldsInv, Released, Idle
<1> QED
  BY <1>1, <1>2, <1>3, <1>4 DEF Next

\* Nobody returns with its buffer, the vnode of its pioctl or the lock of the
\* symlink, whatever goes wrong: a copy that fails, a signal, a reply that is
\* refused, Venus closing the device.  The two paths of coda_ioctl and
\* venus_readlink that the model says leak are not returns with something held:
\* what they leave behind goes to "leaked".
THEOREM VenusReleased == Spec => []Released
<1>1. Init => HoldsInv
  BY VenusAssumption DEF Init, HoldsInv, Released
<1>2. Init => Inv
  BY <1>1, InitType DEF Inv
<1>3. Inv /\ [Next]_vars => Inv'
  BY NextType, NextHolds DEF Inv
<1>4. Inv => Released
  BY DEF Inv, HoldsInv
<1> QED
  BY <1>2, <1>3, <1>4, PTL DEF Spec

-----------------------------------------------------------------------------
(* The replies.                                                            *)

\* A reply that keeps to the protocol: the header of an error, or the structure
\* and as much data as it says, and no more than was asked for.
Honest(m, r) ==
  /\ OutHdr <= r.sent /\ r.sent <= m.osize
  /\ r.result # 0 \/ (m.out <= r.sent /\ r.data + r.len <= r.sent)

RepliesInv ==
  /\ unread \subseteq {"out_size"}
  /\ \A c \in Callers : Waits(c) /\ reply[c].sent > 0 => Honest(msg[c], reply[c])

\* Whatever a caller does with an honest reply, out_size is the only reason for
\* which it goes on past the end of what Venus wrote.
LEMMA UsesWritten ==
  ASSUME NEW m, Good(m), NEW r \in ReplyType, Honest(m, r)
  PROVE  Unwritten(m, r) \subseteq {"out_size"}
<1>1. m.out \in Nat /\ m.osize \in Nat /\ OutHdr \in Nat /\ OutHdr <= m.out /\ m.out <= m.osize
  BY SizesOfWords DEF Good, Packed, Message
<1>2. r.sent \in Int /\ r.len \in Int /\ r.data \in Int /\ r.result \in {0, 1}
  BY DEF ReplyType
<1>3. Written(m, r.sent) = r.sent
  BY <1>1, <1>2 DEF Written, Honest
<1>4. Uses(m, r) <= r.sent
  BY <1>1, <1>2 DEF Uses, Honest
<1>5. Uses(m, r) \in Int
  BY <1>1, <1>2 DEF Uses
<1>6. ~(Uses(m, r) > Written(m, r.sent))
  BY <1>2, <1>3, <1>4, <1>5
<1> QED
  BY <1>6 DEF Unwritten

\* Without misfortunes the answers of Venus are honest, and accepted.
LEMMA AnswersHonest ==
  ASSUME Env \cap {"short", "long", "wild"} = {}, NEW m, Good(m), NEW r \in Answers(m)
  PROVE  Honest(m, r)
<1>1. /\ m.out \in Nat /\ m.osize \in Nat /\ m.want \in Int /\ OutHdr \in Nat
      /\ OutHdr <= m.out /\ m.out <= m.osize
  BY SizesOfWords DEF Good, Packed, Message
<1>2. \/ r = Reply(OutHdr, 1, 0, 0)
      \/ \E k \in Data(m), e \in {0, 1} : r = Reply(m.out + k, e, k, m.out)
  <2>1. TooShort = {} /\ Untrue(m) = {} /\ TooLong(m) = {}
    BY DEF TooShort, Untrue, TooLong
  <2>2. r \in Truthful(m)
    BY <2>1 DEF Answers
  <2> QED
    BY <2>2 DEF Truthful
<1>3. Data(m) \subseteq 0..(m.osize - m.out)
  BY <1>1 DEF Data
<1>4. CASE r = Reply(OutHdr, 1, 0, 0)
  BY <1>1, <1>4 DEF Reply, Honest
<1>5. ASSUME NEW k \in Data(m), NEW e \in {0, 1}, r = Reply(m.out + k, e, k, m.out)
      PROVE  Honest(m, r)
  <2>1. k \in Nat /\ k <= m.osize - m.out
    BY <1>1, <1>3
  <2>2. r.sent = m.out + k /\ r.len = k /\ r.data = m.out
    BY <1>5 DEF Reply
  <2> QED
    BY <1>1, <2>1, <2>2 DEF Honest
<1> QED
  BY <1>2, <1>4, <1>5

LEMMA NextReplies ==
  ASSUME Env \cap {"short", "long", "wild"} = {}
  PROVE  TypeOK /\ MsgInv /\ RepliesInv /\ [Next]_vars => RepliesInv'
<1> SUFFICES ASSUME TypeOK, MsgInv, RepliesInv, [Next]_vars PROVE RepliesInv'
  OBVIOUS
<1>f. /\ msg \in [Callers -> Message] /\ reply \in [Callers -> ReplyType]
      /\ copying \subseteq Callers /\ \A c \in copying : ~Idle(c)
  BY DEF TypeOK, ReplyType, MsgInv
<1>u. Unanswered.sent = -1 /\ Refused.sent = -2
  BY DEF Unanswered, Refused, Reply
<1>1. CASE vc_nb_select \/ vc_nb_read \/ vc_nb_close \/ vc_nb_open \/ Forget \/ UNCHANGED vars
  BY <1>1 DEF vc_nb_select, vc_nb_read, vc_nb_close, vc_nb_open, Forget, vars, RepliesInv,
              Idle, Waits
<1>a. ASSUME NEW c \in Callers, Frees(c), UNCHANGED unread,
             copying' = copying \/ copying' = copying \ {c}
      PROVE  RepliesInv'
  BY <1>a, <1>f, <1>u DEF Frees, RepliesInv, Idle, Waits
<1>b. ASSUME NEW c \in Callers, NEW m, coda_call(c, m), UNCHANGED unread,
             copying' = copying \/ copying' = copying \ {c}
      PROVE  RepliesInv'
  BY <1>b, <1>f, <1>u DEF coda_call, RepliesInv, Idle, Waits
<1>2. ASSUME NEW c \in Callers, vc_nb_write(c) PROVE RepliesInv'
  <2>1. PICK r \in Answers(msg[c]) :
          reply' = [reply EXCEPT ![c] = IF Accepted(msg[c], r.sent) THEN r ELSE Refused]
    BY <1>2 DEF vc_nb_write
  <2>2. UNCHANGED <<msg, copying, unread>>
    BY <1>2 DEF vc_nb_write
  <2>3. Waits(c) => Good(msg[c])
    BY DEF MsgInv, Waits
  <2>4. Waits(c) => Honest(msg[c], r)
    BY <2>3, AnswersHonest
  <2>5. reply'[c] = r \/ reply'[c] = Refused
    BY <1>f, <2>1
  <2>6. \A d \in Callers \ {c} : reply'[d] = reply[d]
    BY <1>f, <2>1
  <2> QED
    BY <1>u, <2>2, <2>4, <2>5, <2>6 DEF RepliesInv, Idle, Waits
<1>3. ASSUME NEW c \in Callers, OfCaller(c) PROVE RepliesInv'
  <2>1. CASE Answered(c)
    <3>1. Good(msg[c]) /\ Honest(msg[c], reply[c]) /\ reply[c] \in ReplyType
      BY <1>f, <2>1 DEF Answered, MsgInv, RepliesInv, Waits
    <3>2. Unwritten(msg[c], reply[c]) \subseteq {"out_size"}
      BY <3>1, UsesWritten
    <3>3. unread' \subseteq {"out_size"}
      BY <2>1, <3>2 DEF Answered, RepliesInv
    <3>4. Frees(c) /\ copying' = copying
      BY <2>1 DEF Answered
    <3> QED
      BY <1>f, <1>u, <3>3, <3>4 DEF Frees, RepliesInv, Idle, Waits
  <2>2. CASE CopyFails(c)
    BY <2>2, <1>a DEF CopyFails
  <2>3. CASE ReadlinkNoMemory(c)
    BY <2>3, <1>a DEF ReadlinkNoMemory
  <2>4. CASE Interrupted(c)
    BY <2>4, <1>a DEF Interrupted
  <2>5. CASE VenusDied(c)
    BY <2>5, <1>a DEF VenusDied
  <2>6. CASE IoctlTooMuch(c)
    BY <2>6 DEF IoctlTooMuch, RepliesInv, Idle, Waits
  <2>7. CASE Ask(c)
    <3>1. PICK m \in Calls : coda_call(c, m)
      BY <2>7 DEF Ask
    <3> QED
      BY <1>b, <2>7, <3>1 DEF Ask
  <2>8. CASE coda_readlink(c)
    BY <1>b, <2>8 DEF coda_readlink
  <2>9. CASE CopiedIn(c)
    BY <1>b, <2>9 DEF CopiedIn
  <2>10. CASE coda_ioctl(c)
    <3>1. PICK k : msg' = [msg EXCEPT ![c] = k] /\ copying' = copying \cup {c}
      BY <2>10 DEF coda_ioctl
    <3> QED
      BY <1>f, <2>10, <3>1 DEF coda_ioctl, RepliesInv, Idle, Waits
  <2> QED
    BY <1>3, <2>1, <2>2, <2>3, <2>4, <2>5, <2>6, <2>7, <2>8, <2>9, <2>10 DEF OfCaller
<1> QED
  BY <1>1, <1>2, <1>3 DEF Next

\* As long as Venus sends as many bytes as the structure of the reply has, says
\* how much data follows and sends no more than its caller asked for, no caller
\* takes leftovers of its own request, or what lies behind them, for the reply,
\* except in a pioctl that has asked for more than it got.
THEOREM VenusReadsReply ==
  ASSUME Env \cap {"short", "long", "wild"} = {}
  PROVE  Spec => []ReadsReply
<1>1. Init => TypeOK /\ MsgInv /\ RepliesInv
  <2>1. Unanswered.sent = -1
    BY DEF Unanswered, Reply
  <2>2. Init => RepliesInv
    BY <2>1 DEF Init, RepliesInv, Waits
  <2> QED
    BY <2>2, InitType
<1>2. TypeOK /\ MsgInv /\ RepliesInv /\ [Next]_vars => (TypeOK /\ MsgInv /\ RepliesInv)'
  BY NextType, NextReplies
<1>3. RepliesInv => ReadsReply
  BY DEF RepliesInv, ReadsReply
<1> QED
  BY <1>1, <1>2, <1>3, PTL DEF Spec


=============================================================================
