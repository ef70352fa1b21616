-------------------------- MODULE MCCompactionMarker --------------------------
(***************************************************************************)
(* Instances of CompactionMarker for TLC.  Processes are model values, and *)
(* the actions bound everything else by MaxMsg and MaxFaults.              *)
(***************************************************************************)
EXTENDS CompactionMarker
===============================================================================
