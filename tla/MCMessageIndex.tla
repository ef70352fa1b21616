---------------------------- MODULE MCMessageIndex ----------------------------
(* A model of MessageIndex for TLC; its cfg files give the constants. *)
EXTENDS MessageIndex
===============================================================================
