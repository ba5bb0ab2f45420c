--------------------------- MODULE MCTelegramGo ---------------------------
(* Model checking of TelegramGo: the waits are interchangeable. *)
EXTENDS TelegramGo, TLC

Symmetry == Permutations(Waits)
=============================================================================
