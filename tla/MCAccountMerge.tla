--------------------------- MODULE MCAccountMerge ---------------------------
(* AccountMerge on a small instance: three rides, so that one can match two. *)
EXTENDS AccountMerge, TLC

Symmetry == Permutations(Rides) \cup Permutations(Keys)
=============================================================================
