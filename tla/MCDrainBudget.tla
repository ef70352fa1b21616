--------------------------- MODULE MCDrainBudget ----------------------------
(* An instance of DrainBudget for TLC: the ids are model values. *)
EXTENDS DrainBudget
=============================================================================
