-------------------------- MODULE MCDreamScheduler --------------------------
(* An instance of DreamScheduler for TLC: the ids are model values. *)
EXTENDS DreamScheduler
=============================================================================
