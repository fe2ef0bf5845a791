----------------------------- MODULE MCCodaNames -----------------------------
(* CodaNames for TLC.                                                       *)
EXTENDS CodaNames, TLC
CONSTANTS r, a, b, e, f, g, n1, n2

\* /n1/n1 is a file and /n2 an empty directory; e and g are not used yet.
McTree == [d \in Dirs |-> [n \in Names |->
             CASE d = r /\ n = n1 -> a
               [] d = r /\ n = n2 -> b
               [] d = a /\ n = n1 -> f
               [] OTHER -> None]]

Symmetry == Permutations(Threads)
=============================================================================
