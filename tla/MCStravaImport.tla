--------------------------- MODULE MCStravaImport ---------------------------
(* Finite instances of StravaImport for TLC. *)
EXTENDS StravaImport, TLC

Symmetry == Permutations(Jobs)
=============================================================================
