------------------------------- MODULE MCTagger -------------------------------
(* A model of Tagger for TLC; its cfg files give the constants. *)
EXTENDS Tagger
=============================================================================
