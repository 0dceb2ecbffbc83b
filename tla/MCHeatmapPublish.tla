-------------------------- MODULE MCHeatmapPublish --------------------------
(* Finite instances of HeatmapPublish for TLC. *)
EXTENDS HeatmapPublish, TLC

(* Neither builds nor traces are told apart. *)
Symmetry == Permutations(Builds) \cup Permutations(Traces)
=============================================================================
