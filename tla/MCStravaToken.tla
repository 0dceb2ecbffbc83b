--------------------------- MODULE MCStravaToken ---------------------------
(* Finite instance of StravaToken for TLC. *)
EXTENDS StravaToken, TLC

Symmetry == Permutations(Callers \ Resyncs)
=============================================================================
