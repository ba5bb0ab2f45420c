-------------------------- MODULE MCRosterPublish --------------------------
(* Model checking of RosterPublish: writers are interchangeable. *)
EXTENDS RosterPublish, TLC

Symmetry == Permutations(Writers)
=============================================================================
