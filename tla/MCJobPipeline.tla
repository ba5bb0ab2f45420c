--------------------------- MODULE MCJobPipeline ---------------------------
(* Model checking of JobPipeline: operations of one kind are interchangeable. *)
EXTENDS JobPipeline, TLC

Symmetry == Permutations(Triggers) \cup Permutations(Waiters)
=============================================================================
