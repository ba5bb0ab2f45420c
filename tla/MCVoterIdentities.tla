------------------------- MODULE MCVoterIdentities -------------------------
(* Model checking of VoterIdentities: resa-squash knows no number at first. *)
EXTENDS VoterIdentities

MCInit == Init /\ registered = {}

MCSpec == MCInit /\ [][Next]_vars /\ \A t \in Tasks : WF_vars(Step(t)) /\ WF_vars(Tick(t))
=============================================================================
