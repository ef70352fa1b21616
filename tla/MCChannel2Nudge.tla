--------------------------- MODULE MCChannel2Nudge --------------------------
(* An instance of Channel2Nudge for TLC: the ids are model values. *)
EXTENDS Channel2Nudge
=============================================================================
