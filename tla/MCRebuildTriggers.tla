------------------------- MODULE MCRebuildTriggers -------------------------
(* RebuildTriggers on a small instance. *)
EXTENDS RebuildTriggers, TLC

Symmetry == Permutations(Instances) \cup Permutations(Archives)
=============================================================================
