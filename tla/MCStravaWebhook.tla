-------------------------- MODULE MCStravaWebhook --------------------------
(* Finite instances of StravaWebhook for TLC. *)
EXTENDS StravaWebhook, TLC

Symmetry == Permutations(Workers)
=============================================================================
