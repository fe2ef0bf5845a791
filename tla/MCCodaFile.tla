----------------------------- MODULE MCCodaFile -----------------------------
(* CodaFile for TLC.                                                       *)
EXTENDS CodaFile, TLC

\* Threads differ in nothing but their states, and so do containers.
Symmetry == Permutations(Threads) \cup Permutations(Containers)
=============================================================================
