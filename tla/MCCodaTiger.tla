---------------------------- MODULE MCCodaTiger ----------------------------
(* Small instances of CodaTiger.                                           *)
EXTENDS CodaTiger, TLC

CONSTANTS t1, t2, c1, c2, u1, u2, root, d1, d2, f1, f2, n1, n2

TwoThreads == {t1, t2}
TwoCreds == {c1, c2}
TwoUsers == {u1, u2}
ThreeDirs == {root, d1, d2}
TwoFiles == {f1, f2}
TwoNames == {n1, n2}

\* The root holds the directory d1 under n1 and the file f1 under n2.
SmallTree == [d \in Dirs |-> [n \in Names |->
                IF d = root THEN (IF n = n1 THEN d1 ELSE f1) ELSE None]]

Alike == Permutations(TwoThreads) \cup Permutations(TwoCreds) \cup Permutations(TwoUsers)

AllOps == {"lookup", "access", "create", "mkdir", "symlink", "link", "remove", "rmdir", "rename",
           "getattr", "setattr", "readlink", "open", "close", "rdwr", "pagein", "readdir"}
=============================================================================
