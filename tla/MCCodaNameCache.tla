-------------------------- MODULE MCCodaNameCache --------------------------
EXTENDS CodaNameCache, TLC
CONSTANTS c1, c2, n1, n2, u1, u2

McFidOf == [c \in Cnodes |-> IF c = c1 THEN c1 ELSE c2]
McUidOf == [u \in Creds |-> IF u = u1 THEN 1 ELSE 2]
McHashOf == [p \in (Names \cup LongNames) \X Cnodes |->
               IF p[1] = n1 THEN 0 ELSE IF p[2] = c1 THEN 1 ELSE 2]
McStart == [hash |-> 2, heap |-> 2]
McSizes == {[hash |-> 4, heap |-> 2]}
=============================================================================
