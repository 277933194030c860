------------------------ MODULE MCTransportManager ------------------------
(***************************************************************************)
(* Instances of TransportManager for TLC.                                  *)
(***************************************************************************)
EXTENDS TransportManager, TLC

\* Callers run the same code, and so do closers.
Symmetry == Permutations(Callers) \cup Permutations(Closers)
=============================================================================
