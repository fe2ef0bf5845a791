---------------------------- MODULE MCCodaCnode ----------------------------
EXTENDS CodaCnode, TLC
CONSTANTS d1, d2, d3, d4, f1, f2, f3, u1, u2

\* f3 and the control object share a bucket with f1 and f2.
McHashOf == [f \in Fids |-> IF f \in {f1, f3} THEN 1 ELSE 0]
=============================================================================
