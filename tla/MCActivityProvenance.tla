------------------------ MODULE MCActivityProvenance ------------------------
(* Finite instances of ActivityProvenance for TLC. *)
EXTENDS ActivityProvenance, TLC

(* The identities of calls and of loops never matter, nor which dated file is
   which; row ids are ordered. *)
Symmetry == Permutations(Uploads) \cup Permutations(Syncs)
            \cup Permutations(Upgrades) \cup Permutations(Dated)
=============================================================================
