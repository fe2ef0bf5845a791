---------------------------- MODULE MCCodaUpcall ----------------------------
(* Instances of CodaUpcall for TLC. *)
EXTENDS CodaUpcall, TLC

\* Threads are interchangeable (used by runs without liveness properties).
CallerSymmetry == Permutations(Callers)
=============================================================================
