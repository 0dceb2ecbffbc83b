----------------------------- MODULE MCHeatEdge -----------------------------
(* Finite instances of HeatEdge for TLC. *)
EXTENDS HeatEdge, TLC

CONSTANTS r1, r2, q1

\* Two rides of one rider and one of another: a second ride of a rider adds
\* a pass and no rider.
OwnerOfThree == (r1 :> 1) @@ (r2 :> 1) @@ (q1 :> 2)
TwoRiders == {1, 2}

\* The two rides of the first rider stand for each other.
Symmetry == Permutations(Sessions) \cup Permutations({r1, r2})
=============================================================================
