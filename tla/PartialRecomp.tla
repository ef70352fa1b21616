---------------------------- MODULE PartialRecomp ----------------------------
(***************************************************************************)
(* `/ctx-recomp a-b`: the compartments around the messages a..b are        *)
(* rebuilt, the others are kept.  The rebuild is staged in the table that  *)
(* full rebuilds also use; what tells the two apart is a range marker in   *)
(* session_meta, written by a statement of its own.  A rebuild that stops  *)
(* half-way leaves both behind and the next one resumes from them.         *)
(*                                                                         *)
(* The lease is its holder here (its clock is in CompartmentRuns): Expire  *)
(* takes it from a run that died and, if MayLoseLease, from one that       *)
(* stalled.  A session starts with no compartment; the historian's runs    *)
(* are the environment's Append.                                           *)
(***************************************************************************)
EXTENDS CompartmentTable, FiniteSets

CONSTANTS PartialRun,    \* lease holder ids for rebuilds of a range
          FullRun,       \*   and for full rebuilds
          None,
          MayLoseLease,  \* can a run outlive its lease?
          MaxCrashes     \* bound: crashes in one behaviour

ASSUME RunAssumption == /\ PartialRun \cap FullRun = {}
                        /\ None \notin PartialRun \cup FullRun
ASSUME BoundAssumption == MayLoseLease \in BOOLEAN /\ MaxCrashes \in Nat

VARIABLES
  lease,    \* the run that holds the compartment lease
  rows,     \* compartments
  staging,  \* recomp_compartments
  passes,   \* has a staged row a pass_number > 0?
  range,    \* session_meta.recomp_partial_range_start, _end; 0 is none
  run,
  crashes

vars == <<lease, rows, staging, passes, range, run, crashes>>

Run == PartialRun \cup FullRun

-----------------------------------------------------------------------------
(* Ranges and tables.                                                      *)

NoRange == [s |-> 0, e |-> 0]
Cells(t) == { t[i] : i \in DOMAIN t }
Part(t, I) == [i \in DOMAIN t \cap I |-> t[i]]

\* The rows of t in order, numbered from n on (compartmentToInput).
Renumber(t, n) ==
  [k \in n..(n + Cardinality(DOMAIN t) - 1) |->
     t[CHOOSE i \in DOMAIN t : Cardinality({j \in DOMAIN t : j < i}) = k - n]]

\* snapRangeToCompartments: the compartments that a..b touches, from the first
\* that ends at a or later to the last that starts at b or earlier.
FirstTouched(t, a) == CHOOSE i \in DOMAIN t : /\ t[i].e >= a
                                              /\ \A j \in DOMAIN t : t[j].e >= a => i <= j
LastTouched(t, b) == CHOOSE i \in DOMAIN t : /\ t[i].s <= b
                                             /\ \A j \in DOMAIN t : t[j].s <= b => j <= i
CanSnap(t, a, b) == /\ a <= b
                    /\ \E i \in DOMAIN t : t[i].e >= a
                    /\ \E i \in DOMAIN t : t[i].s <= b
                    /\ FirstTouched(t, a) <= LastTouched(t, b)
\* Mutant of Snap: the last compartment must end by b.
SnapInside(t, a, b) ==
  LET first == FirstTouched(t, a)
      last == IF t[LastTouched(t, b)].e <= b \/ LastTouched(t, b) = first
              THEN LastTouched(t, b) ELSE LastTouched(t, b) - 1
  IN [range |-> [s |-> t[first].s, e |-> t[last].e],
      prior |-> Part(t, {i \in DOMAIN t : i < first}),
      tail |-> Part(t, {i \in DOMAIN t : i > last})]
Snap(t, a, b) ==
  LET first == FirstTouched(t, a)
      last == LastTouched(t, b)
  IN [range |-> [s |-> t[first].s, e |-> t[last].e],
      prior |-> Part(t, {i \in DOMAIN t : i < first}),
      tail |-> Part(t, {i \in DOMAIN t : i > last})]

\* The end of the last staged row; 0 when nothing is staged.
LastStaged(t) == NextOrdinal(t) - 1

-----------------------------------------------------------------------------
(* Runs.  snap is what a partial run read at its start; for a full one its *)
(* range is the messages it may rebuild.  cand holds the compartments so   *)
(* far, next the message to go on with, passed whether passCount > 0.      *)

RunPc == {"idle", "started", "snapped", "seeding", "passing", "saving",
          "promoting", "clearing", "refused", "ending"}
EmptySnap == [range |-> NoRange, prior |-> NoRows, tail |-> NoRows]
RunAt(pc) == [pc |-> pc, snap |-> EmptySnap, cand |-> NoRows, next |-> 1,
              passed |-> FALSE, resumed |-> FALSE]
IdleRun == RunAt("idle")

At(r, pc) == run[r].pc = pc
Goto(r, pc) == run' = [run EXCEPT ![r].pc = pc]

Init == /\ lease = None
        /\ rows = NoRows
        /\ staging = NoRows
        /\ passes = FALSE
        /\ range = NoRange
        /\ run = [r \in Run |-> IdleRun]
        /\ crashes = 0

\* saveRecompStagingPass: INSERT OR REPLACE, no row is deleted.
Save(t) == staging' = Overwrite(staging, t)
\* clearRecompStaging clears the marker with the rows.
Clear == staging' = NoRows /\ passes' = FALSE /\ range' = NoRange

\* executeContextRecompWithResult has the lease.
Start(r) ==
  /\ lease = None
  /\ run[r] = IdleRun
  /\ lease' = r
  /\ Goto(r, "started")
  /\ UNCHANGED <<rows, staging, passes, range, crashes>>

-----------------------------------------------------------------------------
(* A partial rebuild: executePartialRecompInternal.                        *)

\* No compartment around the messages asked for.
NothingToRebuild(r) ==
  /\ r \in PartialRun /\ At(r, "started")
  /\ \E a, b \in Ordinal : ~CanSnap(rows, a, b)
  /\ Goto(r, "ending")
  /\ UNCHANGED <<lease, rows, staging, passes, range, crashes>>

\* Something else is staged: another range, or rows without a marker, which it
\* takes for a full rebuild's.
Refuse(r) ==
  /\ r \in PartialRun /\ At(r, "started")
  /\ staging # NoRows
  /\ \E a, b \in Ordinal : CanSnap(rows, a, b) /\ range # Snap(rows, a, b).range
  /\ Goto(r, "refused")
  /\ UNCHANGED <<lease, rows, staging, passes, range, crashes>>

\* It reads the compartments, the marker and what is staged, and then awaits
\* the host's session.get.
ReadRange(r) ==
  /\ r \in PartialRun /\ At(r, "started")
  /\ \E a, b \in Ordinal :
       /\ CanSnap(rows, a, b)
       /\ LET snap == Snap(rows, a, b)
              resumed == staging # NoRows
          IN /\ resumed => range = snap.range
             /\ run' = [run EXCEPT ![r] =
                         [pc |-> "snapped", snap |-> snap, resumed |-> resumed,
                          cand |-> IF resumed THEN staging ELSE Renumber(snap.prior, 0),
                          next |-> IF resumed /\ LastStaged(staging) >= snap.range.s
                                   THEN NextOrdinal(staging) ELSE snap.range.s,
                          passed |-> resumed /\ passes]]
  /\ UNCHANGED <<lease, rows, staging, passes, range, crashes>>

Resume(r) ==
  /\ At(r, "snapped") /\ run[r].resumed
  /\ Goto(r, "passing")
  /\ UNCHANGED <<lease, rows, staging, passes, range, crashes>>

\* A fresh rebuild stages the compartments before the range, as pass 0; when
\* there are none, nothing is staged.
Seed(r) ==
  /\ At(r, "snapped") /\ ~run[r].resumed
  /\ Save(run[r].cand)
  /\ passes' = (passes /\ ~(DOMAIN staging \subseteq DOMAIN run[r].cand))
  /\ Goto(r, "seeding")
  /\ UNCHANGED <<lease, rows, range, crashes>>

SetRange(r) ==
  /\ At(r, "seeding")
  /\ range' = run[r].snap.range
  /\ Goto(r, "passing")
  /\ UNCHANGED <<lease, rows, staging, passes, crashes>>

\* Mutant of RebuildPass: it skips the message after the last one built.
RebuildPassSkips(r) ==
  /\ At(r, "passing")
  /\ run[r].next <= run[r].snap.range.e
  /\ \E b \in run[r].next..run[r].snap.range.e :
       \E block \in Splits(Cardinality(DOMAIN run[r].cand), run[r].next, b) :
         LET cand == Overwrite(run[r].cand, block)
         IN /\ run' = [run EXCEPT ![r].cand = cand, ![r].next = b + 2, ![r].passed = TRUE]
            /\ Save(cand)
            /\ passes' = TRUE
  /\ UNCHANGED <<lease, rows, range, crashes>>

\* One successful historian pass of a rebuild of either kind, staged at once.
\* It goes on after the last candidate it was given, which for a partial run
\* is numbered by their count.
RebuildPass(r) ==
  /\ At(r, "passing")
  /\ run[r].next <= run[r].snap.range.e
  /\ \E b \in run[r].next..run[r].snap.range.e :
       \E block \in Splits(Cardinality(DOMAIN run[r].cand), run[r].next, b) :
         LET cand == Overwrite(run[r].cand, block)
         IN /\ run' = [run EXCEPT ![r].cand = cand, ![r].next = b + 1, ![r].passed = TRUE]
            /\ Save(cand)
            /\ passes' = TRUE
  /\ UNCHANGED <<lease, rows, range, crashes>>

\* A pass failed for good, or a statement threw; what is staged stays.
Fails(r) ==
  /\ run[r].pc \in {"snapped", "seeding", "passing", "saving", "promoting", "clearing"}
  /\ Goto(r, "ending")
  /\ UNCHANGED <<lease, rows, staging, passes, range, crashes>>

\* promoteFinal: what was built must cover the range, and the whole must be
\* contiguous; then prior, built and tail are staged together.
Built(r) == Part(run[r].cand, {i \in Nat : i >= Cardinality(DOMAIN run[r].snap.prior)})
Merged(r) == Overwrite(run[r].cand,
                       Renumber(run[r].snap.tail, Cardinality(DOMAIN run[r].cand)))
CoversRange(t, rg) ==
  /\ DOMAIN t # {}
  /\ \A i \in DOMAIN t :
       /\ t[i].s <= t[i].e
       /\ t[i].s = IF \A j \in DOMAIN t : i <= j THEN rg.s ELSE t[PrevSeq(t, i)].e + 1
  /\ LastStaged(t) = rg.e

\* Mutant of Merge: the rows behind the range are not staged with the rest.
MergeNoTail(r) ==
  /\ r \in PartialRun /\ At(r, "passing")
  /\ run[r].next > run[r].snap.range.e
  /\ CoversRange(Built(r), run[r].snap.range)
  /\ Save(run[r].cand)
  /\ passes' = TRUE
  /\ Goto(r, "promoting")
  /\ UNCHANGED <<lease, rows, range, crashes>>
Merge(r) ==
  /\ r \in PartialRun /\ At(r, "passing")
  /\ run[r].next > run[r].snap.range.e
  /\ \/ /\ CoversRange(Built(r), run[r].snap.range)
        /\ Contiguous(Merged(r))
        /\ Save(Merged(r))
        /\ passes' = TRUE
        /\ Goto(r, "promoting")
     \/ /\ ~(CoversRange(Built(r), run[r].snap.range) /\ Contiguous(Merged(r)))
        /\ Goto(r, "ending")
        /\ UNCHANGED <<staging, passes>>
  /\ UNCHANGED <<lease, rows, range, crashes>>

\* promoteRecompStagingWithM0Mutation, for either kind; the marker is left to
\* the caller.
Promote(r) ==
  /\ At(r, "promoting")
  /\ \/ /\ lease = r
        /\ staging # NoRows
        /\ rows' = staging
        /\ staging' = NoRows
        /\ passes' = FALSE
        /\ Goto(r, IF r \in PartialRun THEN "clearing" ELSE "ending")
     \/ /\ lease # r \/ staging = NoRows
        /\ Goto(r, "ending")
        /\ UNCHANGED <<rows, staging, passes>>
  /\ UNCHANGED <<lease, range, crashes>>

ClearRange(r) ==
  /\ At(r, "clearing")
  /\ range' = NoRange
  /\ Goto(r, "ending")
  /\ UNCHANGED <<lease, rows, staging, passes, crashes>>

-----------------------------------------------------------------------------
(* A full rebuild: executeContextRecompInternal.                           *)

\* It resumes from whatever is staged; it does not read the marker.  The
\* protected tail, here the end of the range, may be anywhere.
ReadStaging(r) ==
  /\ r \in FullRun /\ At(r, "started")
  /\ \E e \in 0..MaxMsg :
       run' = [run EXCEPT ![r] =
                [pc |-> "passing", snap |-> [EmptySnap EXCEPT !.range = [s |-> 1, e |-> e]],
                 resumed |-> staging # NoRows, cand |-> staging,
                 next |-> NextOrdinal(staging), passed |-> passes]]
  /\ UNCHANGED <<lease, rows, staging, passes, range, crashes>>

\* The loop is over, or a pass failed and there are passes to promote
\* (promoteAndFinalize).
FullLoopEnds(r) ==
  /\ r \in FullRun /\ At(r, "passing")
  /\ LET complete == run[r].next > run[r].snap.range.e
     IN \/ /\ Contiguous(run[r].cand)
           /\ complete \/ (run[r].passed /\ run[r].cand # NoRows)
           /\ Goto(r, "saving")
           /\ UNCHANGED <<staging, passes, range>>
        \/ /\ complete /\ ~Contiguous(run[r].cand)
           /\ Clear
           /\ Goto(r, "ending")
  /\ UNCHANGED <<lease, rows, crashes>>

\* passCount > 0 here, unless rows seeded by a partial run are all there is.
SaveCandidates(r) ==
  /\ At(r, "saving")
  /\ Save(run[r].cand)
  /\ passes' = (passes \/ run[r].passed)
  /\ Goto(r, "promoting")
  /\ UNCHANGED <<lease, rows, range, crashes>>

-----------------------------------------------------------------------------
(* The end of a run, and everybody else.                                   *)

\* The finally block, then the release.  A partial run clears what is staged
\* without a marker.
End(r) ==
  /\ run[r].pc \in {"refused", "ending"}
  /\ IF r \in PartialRun /\ staging # NoRows /\ range = NoRange
     THEN Clear
     ELSE UNCHANGED <<staging, passes, range>>
  /\ lease' = IF lease = r THEN None ELSE lease
  /\ run' = [run EXCEPT ![r] = IdleRun]
  /\ UNCHANGED <<rows, crashes>>

\* A historian run that holds the lease publishes, or persistFilteredNoise,
\* which looks at the table and not at the lease, adds one compartment.
Append ==
  /\ \E b \in NextOrdinal(rows)..MaxMsg :
       \E block \in Splits(NextSeq(rows), NextOrdinal(rows), b) :
         /\ lease = None \/ Cardinality(DOMAIN block) = 1
         /\ rows' = Overwrite(rows, block)
  /\ UNCHANGED <<lease, staging, passes, range, run, crashes>>

\* The upgrade reminder and /ctx-session-upgrade drop what is staged.
Discard ==
  /\ staging # NoRows \/ range # NoRange
  /\ Clear
  /\ UNCHANGED <<lease, rows, run, crashes>>

Crash(r) ==
  /\ crashes < MaxCrashes
  /\ run[r] # IdleRun
  /\ crashes' = crashes + 1
  /\ run' = [run EXCEPT ![r] = IdleRun]
  /\ UNCHANGED <<lease, rows, staging, passes, range>>

Expire ==
  /\ lease # None
  /\ MayLoseLease \/ run[lease] = IdleRun
  /\ lease' = None
  /\ UNCHANGED <<rows, staging, passes, range, run, crashes>>

PartialStep(r) == \/ NothingToRebuild(r) \/ Refuse(r) \/ ReadRange(r) \/ Resume(r)
                  \/ Seed(r) \/ SetRange(r) \/ Merge(r) \/ ClearRange(r)
FullStep(r) == ReadStaging(r) \/ FullLoopEnds(r) \/ SaveCandidates(r)
Next == \/ \E r \in Run : \/ Start(r) \/ PartialStep(r) \/ FullStep(r)
                          \/ RebuildPass(r) \/ Promote(r) \/ Fails(r) \/ End(r)
                          \/ Crash(r)
        \/ Append \/ Discard \/ Expire

Spec == Init /\ [][Next]_vars

-----------------------------------------------------------------------------
(* Properties.                                                             *)

SnapType == [range : [s : 0..MaxMsg, e : 0..MaxMsg], prior : {run[r].snap.prior : r \in Run},
             tail : {run[r].snap.tail : r \in Run}]

\* Types of all variables; every table a run has in its hands is one.
TypeOK ==
  /\ lease \in Run \cup {None}
  /\ IsTable(rows) /\ IsTable(staging)
  /\ passes \in BOOLEAN
  /\ range \in [s : 0..MaxMsg, e : 0..MaxMsg]
  /\ run \in [Run -> [pc : RunPc, snap : SnapType, cand : {run[r].cand : r \in Run},
                      next : 1..(MaxMsg + 1), passed : BOOLEAN, resumed : BOOLEAN]]
  /\ \A r \in Run : /\ IsTable(run[r].cand)
                    /\ IsTable(run[r].snap.prior) /\ IsTable(run[r].snap.tail)
  /\ crashes \in 0..MaxCrashes

\* The range that is rebuilt is the smallest one of whole compartments around
\* the messages asked for, and the compartments are shared out between prior,
\* range and tail ("snaps outward"): whatever history the session has got to,
\* no compartment is cut and none is lost or rebuilt without need.
SnapIsTightest ==
  \A a, b \in Ordinal : a <= b =>
    LET touched == { c \in Cells(rows) : c.s <= b /\ c.e >= a }
        snap == Snap(rows, a, b)
    IN /\ CanSnap(rows, a, b) <=> touched # {}
       /\ touched # {} =>
            /\ snap.range.s..snap.range.e = UNION { c.s..c.e : c \in touched }
            /\ Cells(snap.prior) = { c \in Cells(rows) : c.e < a }
            /\ Cells(snap.tail) = { c \in Cells(rows) : c.s > b }

\* The last message a run saw a compartment of, and the compartments of t that
\* are none of its business.
Seen(r) == IF run[r].snap.tail = NoRows THEN run[r].snap.range.e
           ELSE LastEnd(run[r].snap.tail)
Outside(t, r) == { c \in Cells(t) : c.e < run[r].snap.range.s \/ c.s > run[r].snap.range.e }

\* "Preserved N prior compartment(s) and M tail compartment(s) unchanged": when
\* a partial rebuild goes live, the stored compartments outside its range are
\* what they were, after any number of resumptions, crashes and lost leases.
\* Only a noise compartment that somebody added since without a lease goes.
OutsideKept ==
  \A r \in PartialRun :
    At(r, "promoting") /\ rows' # rows /\ staging' # staging =>
      Outside(rows', r) = { c \in Outside(rows, r) : c.e <= Seen(r) }

\* The compartments change as CompartmentHistory allows: a merged table has no
\* gap in messages or in sequence numbers, whatever was staged when.
History == INSTANCE CompartmentHistory WITH log <- rows
HistorySpec == History!Spec
=============================================================================
