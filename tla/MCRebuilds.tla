----------------------------- MODULE MCRebuilds -----------------------------
(* Everything that rebuilds a history, for TLC, in three groups of         *)
(* behaviours: partial rebuilds that may outlive their lease; partial and  *)
(* full rebuilds in turn, which do not (two rebuilds that both write the   *)
(* staging table are in MCRunsStaging.cfg); and a full rebuild with a      *)
(* historian run, as CompartmentRuns has them, with the clock of the lease.*)
(* The ids are model values.                                               *)
EXTENDS PartialRecomp, TLC

CONSTANTS Proc, IncRun, RecompRun, LeaseTtl, MarkerTtl,
          RunMsgs, RunCrashes  \* bounds of the third group: messages, crashes

VARIABLES
  group,  \* which of the three
  leased, marker, table, staged, inProgress, active, runs, wrap, died

Runs == INSTANCE CompartmentRuns
          WITH lease <- leased, rows <- table, staging <- staged, run <- runs, crashes <- died,
               MaxMsg <- RunMsgs, MaxCrashes <- RunCrashes, WrapRun <- {}, Wrap <- {},
               ReleaseMayFail <- TRUE
runvars == <<leased, marker, table, staged, inProgress, active, runs, wrap, died>>

RebuildsInit == group \in {"partial", "in turn", "runs"} /\ Init /\ Runs!Init

\* At most one crash, and a lease changes hands only between runs.
InTurn ==
  /\ crashes' <= 1
  /\ lease # None /\ lease' # lease => run[lease] = IdleRun \/ run'[lease] = IdleRun

RebuildsNext ==
  \/ /\ group = "partial" /\ Next
     /\ \A r \in FullRun : run'[r] = IdleRun
     /\ UNCHANGED <<group, runvars>>
  \/ group = "in turn" /\ Next /\ InTurn /\ UNCHANGED <<group, runvars>>
  \/ group = "runs" /\ Runs!Next /\ UNCHANGED <<group, vars>>

RebuildsSpec == RebuildsInit /\ [][RebuildsNext]_<<group, vars, runvars>>

\* "Preserved N prior compartment(s) and M tail compartment(s) unchanged": when
\* a partial rebuild goes live, the compartments outside its range are what they
\* were, as long as no full rebuild has staged rows a partial one may take over.
OutsideUntouched == [][ group = "partial" => OutsideKept ]_<<vars, group>>

\* The compartments change as CompartmentHistory allows, in every group.
HistorySpecs == HistorySpec /\ Runs!HistorySpec

\* The processes are interchangeable: they are only ever compared.
Ids == Permutations(Proc)
=============================================================================
