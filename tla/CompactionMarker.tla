--------------------------- MODULE CompactionMarker ---------------------------
(***************************************************************************)
(* The compaction marker is a user message of the host's database that     *)
(* carries a compaction part and is answered by a summary.  The host gives *)
(* the plugin the messages from the newest marker on.  The marker's rows   *)
(* are in the host's database, what the plugin knows of them is in its own *)
(* one, and no transaction spans the two.                                  *)
(*                                                                         *)
(* A historian publication only notes the target, with its compartments;   *)
(* a transform pass that delivers the new compartments moves the marker    *)
(* (the drain).  A rebuild moves it at once.  A target is the last message *)
(* of a compartment, a number; a marker is named by its target, since its  *)
(* ids are computed from the target's.                                     *)
(*                                                                         *)
(* The compartment lease is held from a promotion to the end of its marker *)
(* update here; losing it is the subject of CompartmentRuns.  A change of   *)
(* the marker is a few statements without an await: publications, passes,  *)
(* failures, crashes and the changes of other processes come between them. *)
(***************************************************************************)
EXTENDS Integers, FiniteSetsExt

CONSTANTS Proc,        \* plugin processes that serve the session
          MaxMsg,      \* messages 1..MaxMsg
          UserMsg,     \* those of the user
          MayShrink,   \* may a rebuild end before the compartments did?
          MaxFaults    \* bound: crashes, failures of the host's database and changes
                       \* of the marker that overlap, in one behaviour

ASSUME MessageAssumption == MaxMsg \in Nat \ {0} /\ UserMsg \subseteq 1..MaxMsg /\ 1 \in UserMsg
ASSUME BoundAssumption == MayShrink \in BOOLEAN /\ MaxFaults \in Nat

VARIABLES
  ends,      \* last messages of the compartments
  base,      \* the last message that the cached m0 and m1 cover, or NoCache
  pending,   \* pending_compaction_marker_state: a target, 0 for none
  state,     \* compaction_marker_state: the marker's target, 0 for none
  rows,      \* markers in the host's database
  deferred,  \* deferredHistoryRefreshSessions has the session
  pass,      \* transform pass of a process
  promoted,  \* where a promoted rebuild ends that is still to move the marker
  job,       \* a change of the marker under way
  faults     \* failures, crashes and overlapping changes so far

vars == <<ends, base, pending, state, rows, deferred, pass, promoted, job, faults>>
memory == <<deferred, pass, promoted>>

Target == 1..MaxMsg
NoCache == -1
LastEnd == IF ends = {} THEN 0 ELSE Max(ends)

\* findBoundaryUserMessage; message 1 is the user's.
Boundary(t) == Max({u \in UserMsg : u <= t})

\* filterCompacted: the message the host's answer starts with, 0 for all.
Cut == IF rows = {} THEN 0 ELSE Max({Boundary(t) : t \in rows})

\* What the prefix of the next request tells the model: the cached pair, or,
\* when there is none, what it renders from the compartments.
Delivered == IF base = NoCache THEN LastEnd ELSE base

IdlePass == [pc |-> "idle", due |-> FALSE, end |-> 0]
NoJob == [kind |-> "none", at |-> "none", target |-> 0, old |-> 0]

\* Other work of a process runs when it awaits something.
Yielded(p) == pass[p].pc \in {"idle", "prepared"} /\ job[p] = NoJob
NobodyChanges == \A p \in Proc : job[p] = NoJob
Rebuilding == \E p \in Proc : promoted[p] # 0 \/ job[p].kind = "direct"

\* A change of the marker may start while another process is at one, since
\* nothing excludes it; the model counts it with the failures.
Starts(p) == /\ job[p] = NoJob
             /\ NobodyChanges \/ faults < MaxFaults
             /\ faults' = IF NobodyChanges THEN faults ELSE faults + 1

Init == /\ ends = {}
        /\ base = NoCache
        /\ pending = 0
        /\ state = 0
        /\ rows = {}
        /\ deferred = [p \in Proc |-> FALSE]
        /\ pass = [p \in Proc |-> IdlePass]
        /\ promoted = [p \in Proc |-> 0]
        /\ job = [p \in Proc |-> NoJob]
        /\ faults = 0

-----------------------------------------------------------------------------
(* Compartments change.                                                    *)

\* Mutant of Publish: the target is the message after the last one.
PublishExclusive(p) ==
  /\ Yielded(p) /\ ~Rebuilding
  /\ \E e \in LastEnd + 1..MaxMsg : ends' = ends \cup {e} /\ pending' = e + 1
  /\ deferred' = [deferred EXCEPT ![p] = TRUE]
  /\ UNCHANGED <<base, state, rows, pass, promoted, job, faults>>

\* A historian run commits compartments and the target in one transaction and
\* signals its own process.
Publish(p) ==
  /\ Yielded(p) /\ ~Rebuilding
  /\ \E e \in LastEnd + 1..MaxMsg : ends' = ends \cup {e} /\ pending' = e
  /\ deferred' = [deferred EXCEPT ![p] = TRUE]
  /\ UNCHANGED <<base, state, rows, pass, promoted, job, faults>>

\* persistFilteredNoise notes no target.
PersistNoise(p) ==
  /\ Yielded(p)
  /\ \E e \in LastEnd + 1..MaxMsg : ends' = ends \cup {e}
  /\ UNCHANGED <<base, pending, state, rows, memory, job, faults>>

\* A rebuild replaces the compartments and clears the cached pair.  It stays
\* shorter when it promotes what it has after a failed pass (its signal then
\* comes one await later, which a pass that comes late amounts to).
PromoteRebuild(p) ==
  /\ Yielded(p) /\ ~Rebuilding
  /\ ends # {}
  /\ \E E \in (SUBSET Target) \ {{}} :
       /\ MayShrink \/ Max(E) >= LastEnd
       /\ ends' = E
       /\ promoted' = [promoted EXCEPT ![p] = Max(E)]
  /\ base' = NoCache
  /\ deferred' = [deferred EXCEPT ![p] = TRUE]
  /\ UNCHANGED <<pending, state, rows, pass, job, faults>>

-----------------------------------------------------------------------------
(* A transform pass that may rebuild the history (a cache-busting one).    *)

\* It notes whether the signal was there and how far the compartments reach.
Prepare(p) ==
  /\ Yielded(p) /\ pass[p] = IdlePass
  /\ pass' = [pass EXCEPT ![p] = [pc |-> "prepared", due |-> deferred[p], end |-> LastEnd]]
  /\ UNCHANGED <<ends, base, pending, state, rows, deferred, promoted, job, faults>>

\* In an emergency it waits for a run and prepares once more.
PrepareAgain(p) ==
  /\ Yielded(p) /\ pass[p].pc = "prepared"
  /\ pass' = [pass EXCEPT ![p].end = LastEnd]
  /\ UNCHANGED <<ends, base, pending, state, rows, deferred, promoted, job, faults>>

\* m0 and m1 are rendered and stored with the boundary they cover.
Fold(p) ==
  /\ Yielded(p) /\ pass[p].pc = "prepared"
  /\ base' = LastEnd
  /\ pass' = [pass EXCEPT ![p].pc = "folded"]
  /\ UNCHANGED <<ends, pending, state, rows, deferred, promoted, job, faults>>

\* Mutant of FoldFails: the target is drained although nothing was rendered.
FoldFailsDrains(p) ==
  /\ Yielded(p) /\ pass[p].pc = "prepared"
  /\ pass' = [pass EXCEPT ![p].pc = "folded"]
  /\ UNCHANGED <<ends, base, pending, state, rows, deferred, promoted, job, faults>>

\* Rendering failed or lost to a sibling; the pass replays what is cached and
\* the signal stays.
FoldFails(p) ==
  /\ Yielded(p) /\ pass[p].pc = "prepared"
  /\ pass' = [pass EXCEPT ![p] = IdlePass]
  /\ UNCHANGED <<ends, base, pending, state, rows, deferred, promoted, job, faults>>

\* The pass reads the noted target: none, one newer than what it prepared (the
\* signal stays), or one to apply.
Drain(p) ==
  /\ pass[p].pc = "folded" /\ job[p] = NoJob
  /\ \/ /\ pass[p].due /\ pending \in 1..pass[p].end
        /\ Starts(p)
        /\ job' = [job EXCEPT ![p] = [kind |-> "drain", at |-> "check", target |-> pending, old |-> 0]]
        /\ UNCHANGED <<deferred, pass>>
     \/ /\ pass[p].due /\ pending > pass[p].end
        /\ pass' = [pass EXCEPT ![p] = IdlePass]
        /\ UNCHANGED <<deferred, job, faults>>
     \/ /\ ~pass[p].due \/ pending = 0
        /\ pass' = [pass EXCEPT ![p] = IdlePass]
        /\ deferred' = [deferred EXCEPT ![p] = deferred[p] /\ ~pass[p].due]
        /\ UNCHANGED <<job, faults>>
  /\ UNCHANGED <<ends, base, pending, state, rows, promoted>>

-----------------------------------------------------------------------------
(* A change of the marker, statement by statement, by a drain, a rebuild   *)
(* ("direct"), the host's own compaction or a start of the plugin.         *)

JobAt(p, at) == job[p].at = at
GotoStep(p, at) == job' = [job EXCEPT ![p].at = at]
JobEnds(p) == /\ job' = [job EXCEPT ![p] = NoJob]
              /\ pass' = IF job[p].kind = "drain" THEN [pass EXCEPT ![p] = IdlePass] ELSE pass
StartJob(p, kind, target, none) ==
  job' = [job EXCEPT ![p] = [kind |-> kind, target |-> target, old |-> state,
                             at |-> IF state = 0 THEN none ELSE "remove"]]

\* existingMarkerAlreadyCoversTarget
Covers(t) == state # 0 /\ state >= t

\* applyDeferredCompactionMarker up to its first change: the target must still
\* be the end of a compartment.
Check(p) ==
  /\ JobAt(p, "check")
  /\ CASE job[p].target \notin ends -> GotoStep(p, "drop")
       [] job[p].target \in ends /\ Covers(job[p].target) -> GotoStep(p, "clear")
       [] OTHER -> StartJob(p, "drain", job[p].target, "inject")
  /\ UNCHANGED <<ends, base, pending, state, rows, memory, faults>>

\* updateCompactionMarkerAfterPublication
UpdateDirectly(p) ==
  /\ Yielded(p) /\ promoted[p] # 0 /\ Starts(p)
  /\ IF Covers(promoted[p])
     THEN job' = [job EXCEPT ![p] = [kind |-> "direct", at |-> "clear",
                                     target |-> promoted[p], old |-> 0]]
     ELSE StartJob(p, "direct", promoted[p], "inject")
  /\ promoted' = [promoted EXCEPT ![p] = 0]
  /\ UNCHANGED <<ends, base, pending, state, rows, deferred, pass>>

\* session.compacted: the marker goes, and so does the target noted.
HostCompacts(p) ==
  /\ Yielded(p) /\ Starts(p)
  /\ StartJob(p, "compact", 0, "clear")
  /\ UNCHANGED <<ends, base, pending, state, rows, memory>>

Remove(p) ==
  /\ JobAt(p, "remove")
  /\ rows' = rows \ {job[p].old}
  /\ GotoStep(p, IF job[p].kind = "drain" THEN "inject" ELSE "forget")
  /\ UNCHANGED <<ends, base, pending, state, memory, faults>>

\* The host's database is locked; a host compaction forgets the marker anyway,
\* a start leaves it to the next one.
RemoveFails(p) ==
  /\ JobAt(p, "remove")
  /\ faults < MaxFaults /\ faults' = faults + 1
  /\ IF job[p].kind \in {"compact", "startup"}
     THEN /\ GotoStep(p, IF job[p].kind = "compact" THEN "forget" ELSE "rehydrate")
          /\ UNCHANGED pass
     ELSE JobEnds(p)
  /\ UNCHANGED <<ends, base, pending, state, rows, deferred, promoted>>

Forget(p) ==
  /\ JobAt(p, "forget")
  /\ state' = 0
  /\ GotoStep(p, CASE job[p].kind = "direct" -> "inject"
                   [] job[p].kind = "compact" -> "clear"
                   [] job[p].kind = "startup" -> "rehydrate")
  /\ UNCHANGED <<ends, base, pending, rows, memory, faults>>

\* One transaction of the host's database; it replaces another marker of ours
\* at the same user message.
Inject(p) ==
  /\ JobAt(p, "inject")
  /\ rows' = {t \in rows : Boundary(t) # Boundary(job[p].target)} \cup {job[p].target}
  /\ GotoStep(p, "persist")
  /\ UNCHANGED <<ends, base, pending, state, memory, faults>>

\* Mutant of InjectFails: a failed drain counts as done.
InjectFailsSilently(p) ==
  /\ JobAt(p, "inject")
  /\ faults < MaxFaults /\ faults' = faults + 1
  /\ GotoStep(p, "clear")
  /\ UNCHANGED <<ends, base, pending, state, rows, memory>>
InjectFails(p) ==
  /\ JobAt(p, "inject")
  /\ faults < MaxFaults /\ faults' = faults + 1
  /\ JobEnds(p)
  /\ UNCHANGED <<ends, base, pending, state, rows, deferred, promoted>>

Persist(p) ==
  /\ JobAt(p, "persist")
  /\ state' = job[p].target
  /\ GotoStep(p, "clear")
  /\ UNCHANGED <<ends, base, pending, rows, memory, faults>>

\* Mutant of Clear: no compare-and-swap.
ClearAnyway(p) ==
  /\ JobAt(p, "clear") \/ JobAt(p, "drop")
  /\ JobEnds(p)
  /\ pending' = 0
  /\ deferred' = IF job[p].kind = "drain" THEN [deferred EXCEPT ![p] = FALSE] ELSE deferred
  /\ UNCHANGED <<ends, base, state, rows, promoted, faults>>

\* A drain clears the target it has applied, not a newer one, which brings the
\* signal back; the others clear what they find.
Clear(p) ==
  /\ JobAt(p, "clear") \/ JobAt(p, "drop")
  /\ JobEnds(p)
  /\ pending' = IF job[p].kind = "drain" /\ pending # job[p].target THEN pending ELSE 0
  /\ deferred' = IF job[p].kind = "drain" THEN [deferred EXCEPT ![p] = pending' # 0] ELSE deferred
  /\ UNCHANGED <<ends, base, state, rows, promoted, faults>>

-----------------------------------------------------------------------------
(* Crashes.                                                                *)

Crash(p) ==
  /\ faults < MaxFaults
  /\ pass[p].pc # "down"
  /\ faults' = faults + 1
  /\ pass' = [pass EXCEPT ![p] = [IdlePass EXCEPT !.pc = "down"]]
  /\ deferred' = [deferred EXCEPT ![p] = FALSE]
  /\ promoted' = [promoted EXCEPT ![p] = 0]
  /\ job' = [job EXCEPT ![p] = NoJob]
  /\ UNCHANGED <<ends, base, pending, state, rows>>

\* checkCompactionMarkerConsistency finds a marker whose rows are gone, removes
\* what may be left of it and forgets it.
Restart(p) ==
  /\ pass[p].pc = "down" /\ Starts(p)
  /\ pass' = [pass EXCEPT ![p] = IdlePass]
  /\ job' = [job EXCEPT ![p] = [NoJob EXCEPT
       !.kind = "startup", !.old = state,
       !.at = IF state # 0 /\ state \notin rows THEN "remove" ELSE "rehydrate"]]
  /\ UNCHANGED <<ends, base, pending, state, rows, deferred, promoted>>

\* Mutant of Rehydrate: the signal is not restored.
RehydrateNothing(p) ==
  /\ JobAt(p, "rehydrate")
  /\ JobEnds(p)
  /\ UNCHANGED <<ends, base, pending, state, rows, deferred, promoted, faults>>

\* getSessionsWithPendingMarker
Rehydrate(p) ==
  /\ JobAt(p, "rehydrate")
  /\ JobEnds(p)
  /\ deferred' = [deferred EXCEPT ![p] = pending # 0]
  /\ UNCHANGED <<ends, base, pending, state, rows, promoted, faults>>

HostFails(p) == RemoveFails(p) \/ InjectFails(p)
JobStep(p) == \/ Check(p) \/ Remove(p) \/ Forget(p) \/ Inject(p) \/ Persist(p)
              \/ Clear(p) \/ Rehydrate(p)
PassStep(p) == Prepare(p) \/ PrepareAgain(p) \/ Fold(p) \/ FoldFails(p) \/ Drain(p)
Next == \/ \E p \in Proc : \/ Publish(p) \/ PersistNoise(p) \/ PromoteRebuild(p)
                           \/ PassStep(p) \/ JobStep(p) \/ HostFails(p)
                           \/ UpdateDirectly(p) \/ HostCompacts(p)
                           \/ Crash(p) \/ Restart(p)

Spec == Init /\ [][Next]_vars

\* Passes keep coming and now and then one renders; a process comes back after a
\* crash.  Strong where a pass that fails, or another process's change of the
\* marker, may come first again and again.
Fairness ==
  \A p \in Proc : /\ SF_vars(Fold(p) \/ Drain(p) \/ Restart(p))
                  /\ WF_vars(Prepare(p) \/ JobStep(p))
FairSpec == Spec /\ Fairness

-----------------------------------------------------------------------------
(* Properties.                                                             *)

JobKinds == {"none", "drain", "direct", "compact", "startup"}
JobSteps == {"none", "check", "remove", "forget", "inject", "persist", "clear",
             "drop", "rehydrate"}

\* Types of all variables: a target is a message, and the covered prefix ends
\* at one.
TypeOK ==
  /\ ends \subseteq Target
  /\ base \in {NoCache} \cup 0..MaxMsg
  /\ pending \in 0..MaxMsg
  /\ state \in 0..MaxMsg
  /\ rows \subseteq Target
  /\ deferred \in [Proc -> BOOLEAN]
  /\ pass \in [Proc -> [pc : {"idle", "prepared", "folded", "down"}, due : BOOLEAN, end : 0..MaxMsg]]
  /\ promoted \in [Proc -> 0..MaxMsg]
  /\ job \in [Proc -> [kind : JobKinds, at : JobSteps, target : 0..MaxMsg, old : 0..MaxMsg]]
  /\ faults \in 0..MaxFaults

\* No message is lost to the model: what the marker keeps from the plugin is
\* covered by the prefix that is delivered (a rebuild may still be about to
\* move the marker).
HiddenIsDelivered == Rebuilding \/ Cut - 1 <= Delivered

\* A target that a publication noted is dropped only by one who has moved the
\* marker at least that far or found it there, who found that very target stale,
\* or because the host compacted by itself: a newer target that is noted while an
\* older one is applied survives.
TargetHonoured ==
  [][pending # 0 /\ pending' = 0 =>
       \E p \in Proc : \/ JobAt(p, "clear") /\ (job[p].kind = "compact" \/ job[p].target >= pending)
                       \/ JobAt(p, "drop") /\ job[p].target = pending]_vars

\* A marker that is on record and whose rows are gone, while nobody works on it,
\* has a retry: a noted target, or a rebuild that is to move the marker.
MissingHasRetry ==
  NobodyChanges /\ (\A p \in Proc : pass[p].pc # "down") /\ state # 0
     => Cut >= Boundary(state) \/ pending # 0 \/ Rebuilding

\* A noted target does not stay noted for ever, through crashes and lost races:
\* it is applied, replaced or found stale.
TargetDrained == \A t \in Target : pending = t ~> pending # t
===============================================================================
