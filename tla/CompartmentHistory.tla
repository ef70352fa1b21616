------------------------- MODULE CompartmentHistory -------------------------
(***************************************************************************)
(* What the compartment runners promise, whoever runs them and whatever    *)
(* crashes: a session's history is a list of compartments that covers a    *)
(* prefix of the raw messages, and it changes in two ways only.  A         *)
(* publication adds compartments right after the last one; a rebuild       *)
(* replaces the whole list by another cover of a prefix.                   *)
(***************************************************************************)
EXTENDS CompartmentTable

VARIABLE log

Init == log = NoRows

Publish ==
  \E b \in NextOrdinal(log)..MaxMsg :
    \E block \in Splits(NextSeq(log), NextOrdinal(log), b) :
      log' = Overwrite(log, block)

\* A rebuild may take several historian passes, so it is not held to MaxCells.
Rebuild ==
  /\ log' # NoRows
  /\ log' = [i \in DOMAIN log' |-> log'[i]]
  /\ DOMAIN log' = 0..(NextSeq(log') - 1)
  /\ Contiguous(log')
  /\ NextOrdinal(log') <= MaxMsg + 1

Next == log' # log /\ (Publish \/ Rebuild)
Spec == Init /\ [][Next]_log
=============================================================================
