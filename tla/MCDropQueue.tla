----------------------------- MODULE MCDropQueue ------------------------------
(* Instances of DropQueue for TLC: the ids are model values. *)
EXTENDS DropQueue
=============================================================================
