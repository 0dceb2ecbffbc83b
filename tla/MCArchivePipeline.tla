-------------------------- MODULE MCArchivePipeline --------------------------
(* TLC instances of ArchivePipeline. *)
EXTENDS ArchivePipeline, TLC

(* Executions are interchangeable, and so are requests and members. *)
Symmetry ==
    Permutations(Workers) \cup Permutations(Requests) \cup Permutations(Members)
=============================================================================
