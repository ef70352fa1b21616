------------------------- MODULE MCCompartmentRuns --------------------------
(* Instances of CompartmentRuns for TLC. *)
EXTENDS CompartmentRuns, TLC

\* The processes, and the ids of one kind, are interchangeable: an id is only
\* ever compared with another.
Ids == Permutations(Proc) \cup Permutations(IncRun) \cup Permutations(RecompRun)
         \cup Permutations(WrapRun) \cup Permutations(Wrap)
=============================================================================
