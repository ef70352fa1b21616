-------------------------- MODULE CompartmentRuns ---------------------------
(***************************************************************************)
(* Who may change one session's compartments, and when.                    *)
(*                                                                         *)
(* Several plugin processes share context.db.  In each of them a transform *)
(* pass can start a background historian (startCompartmentAgent), the user *)
(* can ask for a full rebuild (executeContextRecomp) or for a wrapup, which*)
(* drives one historian run after the other (runManagedWrapup).  A run     *)
(* reads the compartments, waits minutes for a language model, and only    *)
(* then writes.  What keeps two runs from writing over each other is a     *)
(* lease row with a TTL, a durable wrapup marker with a TTL of its own, and*)
(* a per-process map of active runs.                                       *)
(*                                                                         *)
(* Time is relative: a row keeps the time it has left, `expires_at - now`, *)
(* and Tick takes one unit from every row.  `expires_at > now` is then     *)
(* `left > 0`, and a process may stall for any number of ticks.            *)
(*                                                                         *)
(* One action is one SQLite statement or transaction with the synchronous  *)
(* code around it.  A process is single-threaded: between two actions of a *)
(* synchronous stretch (SyncPc) it takes no other action, but the other    *)
(* processes may.                                                          *)
(***************************************************************************)
EXTENDS CompartmentTable

CONSTANTS Proc,           \* plugin processes that have the session open
          IncRun,         \* lease holder ids for historian runs,
          WrapRun,        \*   for the iterations of wrapups
          RecompRun,      \*   and for full rebuilds
          Wrap,           \* holder ids of the wrapup marker
          None,
          LeaseTtl,       \* COMPARTMENT_LEASE_TTL_MS, in ticks
          MarkerTtl,      \* WRAPUP_IN_PROGRESS_TTL_MS, in ticks
          MaxCrashes,     \* bound: process crashes in one behaviour
          ReleaseMayFail  \* can DELETE of the lease row throw SQLITE_BUSY?

ASSUME IdAssumption ==
  /\ None \notin IncRun \cup WrapRun \cup RecompRun \cup Wrap \cup Proc
  /\ IncRun \cap WrapRun = {}
  /\ IncRun \cap RecompRun = {}
  /\ WrapRun \cap RecompRun = {}
ASSUME TtlAssumption ==
  LeaseTtl \in Nat \ {0} /\ MarkerTtl \in Nat \ {0} /\ MaxCrashes \in Nat
ASSUME ReleaseAssumption == ReleaseMayFail \in BOOLEAN

VARIABLES
  lease,      \* compartment_state_lease row: holder id and time left
  marker,     \* session_meta.wrapup_in_progress_state: holder and time left
  rows,       \* compartments
  staging,    \* recomp_compartments
  inProgress, \* session_meta.compartment_in_progress
  active,     \* per process: the run its activeRuns map holds
  run,        \* per lease holder id: the run that uses it
  wrap,       \* per marker holder id: the wrapup that uses it
  crashes

vars == <<lease, marker, rows, staging, inProgress, active, run, wrap, crashes>>

Run == IncRun \cup WrapRun \cup RecompRun
Agent == IncRun \cup WrapRun      \* the runs that execute runCompartmentAgent

-----------------------------------------------------------------------------
(* Runs.  snap is what runCompartmentAgent computed from the compartments  *)
(* it read: the first message to summarise, the sequence number for the    *)
(* first new row and the end (exclusive) of the messages it may summarise. *)
(* cand holds a rebuild's compartments so far.  under is the wrapup whose  *)
(* marker was live when the run got its lease (history).                   *)

StartPc == {"checked", "leased"}
AgentPc == {"rechecked", "chunking", "awaiting"}
RecompPc == {"preparing", "passing", "saving", "promoting"}
EndPc == {"finishing", "releasing"}
RunPc == {"idle"} \cup StartPc \cup AgentPc \cup RecompPc \cup EndPc

NoSnap == [off |-> 1, seq |-> 0, elig |-> 1]
RunAt(pc, p, w) == [pc |-> pc, proc |-> p, snap |-> NoSnap, cand |-> NoRows,
                    under |-> w]
IdleRun == RunAt("idle", None, None)

WrapPc == {"idle", "waiting", "looping", "acquiring", "iterating", "releasing"}
IdleWrap == [pc |-> "idle", proc |-> None, target |-> 1, before |-> 0,
             iter |-> None, lost |-> FALSE]

\* Points between two database statements of one synchronous stretch.
SyncPc == {"checked", "leased", "rechecked", "chunking", "saving", "promoting"}
Yielded(p) == \A r \in Run : run[r].proc = p => run[r].pc \notin SyncPc

At(r, pcs) == run[r].pc \in pcs
Goto(r, pc) == run' = [run EXCEPT ![r].pc = pc]
\* The function body is over: what it computed is out of scope.
Finish(r) == run' = [run EXCEPT ![r] = RunAt("finishing", run[r].proc, None)]

\* crypto.randomUUID(): nothing in the system mentions this id, except maybe a
\* lease row that is over.
Fresh(r) == /\ run[r] = IdleRun
            /\ lease.holder = r => lease.left = 0
            /\ \A p \in Proc : active[p] # r
            /\ \A w \in Wrap : wrap[w].iter # r

-----------------------------------------------------------------------------
(* The lease and the marker.                                               *)

NoRow == [holder |-> None, left |-> 0]

CanAcquire(r) == lease.holder \in {None, r} \/ lease.left = 0
Acquire(r) == lease' = [holder |-> r, left |-> LeaseTtl]
\* Mutant of Held: WHERE forgets the holder.
HeldBySomeone(r) == lease.left > 0
Held(r) == lease.holder = r /\ lease.left > 0

\* isWrapupInProgress: an expired marker is reclaimed, which nobody can tell
\* from leaving it there.
WrapupLive == marker.holder # None /\ marker.left > 0
OwnsMarker(w) == marker.holder = w /\ marker.left > 0

Init == /\ lease = NoRow
        /\ marker = NoRow
        /\ rows = NoRows
        /\ staging = NoRows
        /\ inProgress = FALSE
        /\ active = [p \in Proc |-> None]
        /\ run = [r \in Run |-> IdleRun]
        /\ wrap = [w \in Wrap |-> IdleWrap]
        /\ crashes = 0

-----------------------------------------------------------------------------
(* Starting a run: transform passes and /ctx-recomp.                       *)

\* A transform pass finds history to summarise and notes the intent.
Trigger(p) ==
  /\ Yielded(p)
  /\ ~inProgress
  /\ NextOrdinal(rows) <= MaxMsg
  /\ inProgress' = TRUE
  /\ UNCHANGED <<lease, marker, rows, staging, active, run, wrap, crashes>>

\* startCompartmentAgent up to its first isWrapupInProgress.  The pass calls it
\* because the intent is noted or because the context is 95% full.
StartAgent(p, r) ==
  /\ Yielded(p)
  /\ NextOrdinal(rows) <= MaxMsg
  /\ active[p] = None
  /\ r \in IncRun /\ Fresh(r)
  /\ \/ /\ WrapupLive
        /\ inProgress' = FALSE
        /\ UNCHANGED run
     \/ /\ ~WrapupLive
        /\ run' = [run EXCEPT ![r] = RunAt("checked", p, None)]
        /\ UNCHANGED inProgress
  /\ UNCHANGED <<lease, marker, rows, staging, active, wrap, crashes>>

\* A pass that finds the intent but nothing to summarise drops it.
DropIntent(p) ==
  /\ Yielded(p)
  /\ active[p] = None
  /\ inProgress
  /\ NextOrdinal(rows) > MaxMsg
  /\ inProgress' = FALSE
  /\ UNCHANGED <<lease, marker, rows, staging, active, run, wrap, crashes>>

\* executeContextRecompWithResult up to its lease; it skips when a wrapup is
\* live or a run is active here.
StartRecomp(p, r) ==
  /\ Yielded(p)
  /\ ~WrapupLive
  /\ active[p] = None
  /\ r \in RecompRun /\ Fresh(r)
  /\ run' = [run EXCEPT ![r] = RunAt("checked", p, None)]
  /\ UNCHANGED <<lease, marker, rows, staging, inProgress, active, wrap, crashes>>

\* acquireCompartmentLease.  Only the historian's start clears the intent when
\* another process holds the lease.
TryLease(r) ==
  /\ At(r, {"checked"})
  /\ \/ /\ CanAcquire(r)
        /\ Acquire(r)
        /\ run' = [run EXCEPT ![r].pc = "leased",
                              ![r].under = IF WrapupLive THEN marker.holder ELSE None]
        /\ UNCHANGED inProgress
     \/ /\ ~CanAcquire(r)
        /\ run' = [run EXCEPT ![r] = IdleRun]
        /\ inProgress' = (inProgress /\ r \notin IncRun)
        /\ UNCHANGED lease
  /\ UNCHANGED <<marker, rows, staging, active, wrap, crashes>>

\* Mutants of Recheck: it leaves the intent up; it makes no second check.
RecheckKeepsIntent(r) ==
  /\ At(r, {"leased"}) /\ r \in IncRun
  /\ run' = [run EXCEPT ![r] = IF WrapupLive THEN IdleRun ELSE [@ EXCEPT !.pc = "rechecked"]]
  /\ lease' = IF WrapupLive THEN NoRow ELSE lease
  /\ UNCHANGED <<marker, rows, staging, inProgress, active, wrap, crashes>>
RecheckNothing(r) ==
  /\ At(r, {"leased"})
  /\ IF r \in IncRun
     THEN Goto(r, "rechecked") /\ UNCHANGED <<inProgress, active>>
     ELSE /\ run' = [run EXCEPT ![r].pc = "preparing",
                                 ![r].snap = [off |-> 1, seq |-> 0, elig |-> MaxMsg + 1]]
          /\ inProgress' = TRUE
          /\ active' = [active EXCEPT ![run[r].proc] = r]
  /\ UNCHANGED <<lease, marker, rows, staging, wrap, crashes>>

\* The second isWrapupInProgress: a wrapup may have published its marker
\* between the first check and the lease.  This release may throw out of the
\* starting call, with the lease and the intent left as they are.
Recheck(r) ==
  /\ At(r, {"leased"})
  /\ \/ /\ WrapupLive
        /\ run' = [run EXCEPT ![r] = IdleRun]
        /\ \/ /\ lease' = IF lease.holder = r THEN NoRow ELSE lease
              /\ inProgress' = (inProgress /\ r \notin IncRun)
           \/ ReleaseMayFail /\ UNCHANGED <<lease, inProgress>>
        /\ UNCHANGED active
     \/ /\ ~WrapupLive
        /\ r \in IncRun
        /\ Goto(r, "rechecked")
        /\ UNCHANGED <<lease, inProgress, active>>
     \/ /\ ~WrapupLive
        /\ r \in RecompRun
        \* executeContextRecompInternal up to its first await
        /\ \E tail \in 1..(MaxMsg + 1) :
             run' = [run EXCEPT ![r].pc = "preparing",
                                ![r].snap = [off |-> 1, seq |-> 0, elig |-> tail]]
        /\ inProgress' = TRUE
        /\ active' = [active EXCEPT ![run[r].proc] = r]
        /\ UNCHANGED lease
  /\ UNCHANGED <<marker, rows, staging, wrap, crashes>>

-----------------------------------------------------------------------------
(* One historian run: runCompartmentAgent.                                 *)

\* It reads the compartments and the boundary, and stops if the stored
\* compartments are invalid or no message before the protected tail is left.
\* A wrapup gives a window that ends at its target at the latest.
Snapshot(r) ==
  /\ At(r, {"rechecked"})
  /\ inProgress' = TRUE
  /\ LET off == NextOrdinal(rows)
         limits == IF r \in WrapRun
                   THEN { wrap[w].target : w \in { v \in Wrap : wrap[v].iter = r } }
                   ELSE { MaxMsg + 1 }
     IN \/ /\ Contiguous(rows)
           /\ \E limit \in limits : \E elig \in (off + 1)..limit :
                run' = [run EXCEPT ![r].pc = "chunking",
                                   ![r].snap = [off |-> off, seq |-> NextSeq(rows),
                                                elig |-> elig]]
        \/ Finish(r)
  /\ UNCHANGED <<lease, marker, rows, staging, active, wrap, crashes>>

\* Returns before the first await: drain budget spent, empty or unsafe chunk.
NoOp(r) ==
  /\ At(r, {"chunking"})
  /\ Finish(r)
  /\ UNCHANGED <<lease, marker, rows, staging, inProgress, active, wrap, crashes>>

\* Mutant of PersistNoise: it takes the exclusive end of the window for the
\* last message.
PersistNoiseToEnd(r) ==
  /\ At(r, {"chunking"})
  /\ rows' = IF NextOrdinal(rows) = run[r].snap.off
             THEN Overwrite(rows, [i \in {NextSeq(rows)} |->
                                     [s |-> run[r].snap.off, e |-> run[r].snap.elig]])
             ELSE rows
  /\ Finish(r)
  /\ UNCHANGED <<lease, marker, staging, inProgress, active, wrap, crashes>>

\* persistFilteredNoise: every message of the window is noise, one empty
\* compartment takes them all.  A transaction of its own re-reads the table;
\* it does not look at the lease.
PersistNoise(r) ==
  /\ At(r, {"chunking"})
  /\ rows' = IF NextOrdinal(rows) = run[r].snap.off
             THEN Overwrite(rows, [i \in {NextSeq(rows)} |->
                                     [s |-> run[r].snap.off, e |-> run[r].snap.elig - 1]])
             ELSE rows
  /\ Finish(r)
  /\ UNCHANGED <<lease, marker, staging, inProgress, active, wrap, crashes>>

\* The run is real and yields to the model; the process remembers it.
Spawn(r) ==
  /\ At(r, {"chunking"})
  /\ Goto(r, "awaiting")
  /\ active' = [active EXCEPT ![run[r].proc] = r]
  /\ UNCHANGED <<lease, marker, rows, staging, inProgress, wrap, crashes>>

\* The model failed or timed out, its answer is invalid, the lease is gone or
\* the publish transaction rolled back: nothing is written.
PassFails(r) ==
  /\ At(r, {"awaiting"})
  /\ Finish(r)
  /\ UNCHANGED <<lease, marker, rows, staging, inProgress, active, wrap, crashes>>

\* Mutant of Publish: INSERT OR REPLACE, as for the staging table.
PublishReplacing(r) ==
  /\ At(r, {"awaiting"})
  /\ Yielded(run[r].proc)
  /\ Held(r)
  /\ \E b \in run[r].snap.off..(run[r].snap.elig - 1) :
       \E block \in Splits(run[r].snap.seq, run[r].snap.off, b) : rows' = Overwrite(rows, block)
  /\ Finish(r)
  /\ UNCHANGED <<lease, marker, staging, inProgress, active, wrap, crashes>>

\* The publish transaction: lease check, then INSERT.  A sequence number that
\* is taken throws on the UNIQUE key and rolls everything back.  The last
\* emitted compartment may have been discarded: any cover of a non-empty
\* prefix of the window can be what is left.
Publish(r) ==
  /\ At(r, {"awaiting"})
  /\ Yielded(run[r].proc)
  /\ Held(r)
  /\ \E b \in run[r].snap.off..(run[r].snap.elig - 1) :
       \E block \in Splits(run[r].snap.seq, run[r].snap.off, b) :
         /\ DOMAIN block \cap DOMAIN rows = {}
         /\ rows' = Overwrite(rows, block)
  /\ Finish(r)
  /\ UNCHANGED <<lease, marker, staging, inProgress, active, wrap, crashes>>

\* The finally block, and after it the finalizer that drops the lease and the
\* active run.  A DELETE that meets SQLITE_BUSY leaves the row to expire; only
\* executeContextRecompWithResult lets the error skip the clean-up behind it.
EndRun(r) ==
  /\ At(r, {"finishing"})
  /\ Yielded(run[r].proc)
  /\ inProgress' = FALSE
  /\ Goto(r, "releasing")
  /\ UNCHANGED <<lease, marker, rows, staging, active, wrap, crashes>>

Forget(r) == active' = [p \in Proc |-> IF active[p] = r THEN None ELSE active[p]]

Release(r) ==
  /\ At(r, {"releasing"})
  /\ run' = [run EXCEPT ![r] = IdleRun]
  /\ \/ /\ lease' = IF lease.holder = r THEN NoRow ELSE lease
        /\ Forget(r)
     \/ /\ ReleaseMayFail
        /\ UNCHANGED lease
        /\ IF r \in RecompRun THEN UNCHANGED active ELSE Forget(r)
  /\ UNCHANGED <<marker, rows, staging, inProgress, wrap, crashes>>

\* The 60 s renewal timer, while a run awaits: renewCompartmentLease.
Renew(r) ==
  /\ At(r, {"awaiting", "preparing", "passing"})
  /\ Yielded(run[r].proc)
  /\ Held(r) /\ lease.left < LeaseTtl
  /\ Acquire(r)
  /\ UNCHANGED <<marker, rows, staging, inProgress, active, run, wrap, crashes>>

-----------------------------------------------------------------------------
(* A full rebuild: executeContextRecompInternal.                           *)

\* After the first await: resume from whatever is staged.
ReadStaging(r) ==
  /\ At(r, {"preparing"})
  /\ Yielded(run[r].proc)
  /\ run' = [run EXCEPT ![r].pc = "passing", ![r].cand = staging]
  /\ UNCHANGED <<lease, marker, rows, staging, inProgress, active, wrap, crashes>>

\* One successful pass; saveRecompStagingPass does not look at the lease and
\* deletes no staged row.
RecompPass(r) ==
  /\ At(r, {"passing"})
  /\ Yielded(run[r].proc)
  /\ \E b \in NextOrdinal(run[r].cand)..(run[r].snap.elig - 1) :
       \E block \in Splits(NextSeq(run[r].cand), NextOrdinal(run[r].cand), b) :
         LET cand == Overwrite(run[r].cand, block)
         IN /\ run' = [run EXCEPT ![r].cand = cand]
            /\ staging' = Overwrite(staging, cand)
  /\ UNCHANGED <<lease, marker, rows, inProgress, active, wrap, crashes>>

\* The loop is left when the candidates go up to the protected tail, and at a
\* failed pass, which promotes what there is (promoteAndFinalize).  Candidates
\* that are not contiguous are thrown away in the first case only; an exception
\* leaves what is staged for the next rebuild.
RecompLoopEnds(r) ==
  /\ At(r, {"passing"})
  /\ Yielded(run[r].proc)
  /\ LET cand == run[r].cand
         complete == NextOrdinal(cand) >= run[r].snap.elig
     IN \/ /\ Contiguous(cand)
           /\ complete \/ cand # NoRows
           /\ Goto(r, "saving")
           /\ UNCHANGED staging
        \/ /\ complete /\ ~Contiguous(cand)
           /\ staging' = NoRows
           /\ Finish(r)
        \/ Finish(r) /\ UNCHANGED staging
  /\ UNCHANGED <<lease, marker, rows, inProgress, active, wrap, crashes>>

SaveCandidates(r) ==
  /\ At(r, {"saving"})
  /\ staging' = Overwrite(staging, run[r].cand)
  /\ Goto(r, "promoting")
  /\ UNCHANGED <<lease, marker, rows, inProgress, active, wrap, crashes>>

\* promoteRecompStagingWithM0Mutation: what is staged replaces the table, if
\* the lease is still held and the transaction commits.
Promote(r) ==
  /\ At(r, {"promoting"})
  /\ \/ Held(r) /\ staging # NoRows /\ rows' = staging /\ staging' = NoRows
     \/ UNCHANGED <<rows, staging>>
  /\ Finish(r)
  /\ UNCHANGED <<lease, marker, inProgress, active, wrap, crashes>>

\* maybeSendUpgradeReminder and /ctx-session-upgrade, once no compartment is in
\* the old format: what is staged counts as an orphan, whoever staged it.
DiscardStaging(p) ==
  /\ Yielded(p)
  /\ staging # NoRows
  /\ staging' = NoRows
  /\ UNCHANGED <<lease, marker, rows, inProgress, active, run, wrap, crashes>>

-----------------------------------------------------------------------------
(* A wrapup: runManagedWrapup.                                             *)

\* acquireWrapupInProgress, with a target that leaves something to wrap up.
\* A live marker of another wrapup makes this one skip.
StartWrapup(p, w) ==
  /\ Yielded(p)
  /\ wrap[w] = IdleWrap
  /\ \A r \in Run : run[r].under # w
  /\ ~WrapupLive
  /\ marker' = [holder |-> w, left |-> MarkerTtl]
  /\ \E target \in (NextOrdinal(rows) + 1)..(MaxMsg + 1) :
       wrap' = [wrap EXCEPT ![w] = [pc |-> "waiting", proc |-> p, target |-> target,
                                    before |-> 0, iter |-> None, lost |-> FALSE]]
  /\ UNCHANGED <<lease, rows, staging, inProgress, active, run, crashes>>

WrapAt(w, pc) == wrap[w].pc = pc /\ Yielded(wrap[w].proc)
WrapGoto(w, pc) == wrap' = [wrap EXCEPT ![w].pc = pc]

\* waitForExistingIncrementalRun: a historian run is waited for, up to a
\* timeout; a rebuild or another wrapup's run means busy.
WrapWait(w) ==
  /\ WrapAt(w, "waiting")
  /\ IF active[wrap[w].proc] = None
     THEN WrapGoto(w, "looping")
     ELSE WrapGoto(w, "releasing")
  /\ UNCHANGED <<lease, marker, rows, staging, inProgress, active, run, crashes>>

\* The head of the loop: renew the marker or give up, plan, stop at the target.
WrapPlan(w) ==
  /\ WrapAt(w, "looping")
  /\ IF wrap[w].lost \/ ~OwnsMarker(w)
     THEN WrapGoto(w, "releasing") /\ UNCHANGED marker
     ELSE /\ marker' = [marker EXCEPT !.left = MarkerTtl]
          /\ IF LastEnd(rows) + 1 >= wrap[w].target
             THEN WrapGoto(w, "releasing")
             ELSE wrap' = [wrap EXCEPT ![w].pc = "acquiring",
                                       ![w].before = LastEnd(rows)]
  /\ UNCHANGED <<lease, rows, staging, inProgress, active, run, crashes>>

\* acquireCompartmentLeaseForWrapup and, once it has the lease, the start of
\* runCompartmentAgent.
WrapAcquire(w, r) ==
  /\ WrapAt(w, "acquiring")
  /\ active[wrap[w].proc] = None
  /\ r \in WrapRun /\ Fresh(r)
  /\ CanAcquire(r)
  /\ Acquire(r)
  /\ run' = [run EXCEPT ![r] = RunAt("rechecked", wrap[w].proc, w)]
  /\ wrap' = [wrap EXCEPT ![w].pc = "iterating", ![w].iter = r]
  /\ UNCHANGED <<marker, rows, staging, inProgress, active, crashes>>

\* The lease is taken: renew the marker and try again a second later.
WrapRetry(w) ==
  /\ WrapAt(w, "acquiring")
  /\ active[wrap[w].proc] = None
  /\ lease.holder # None /\ lease.left > 0
  /\ OwnsMarker(w)
  /\ marker' = [marker EXCEPT !.left = MarkerTtl]
  /\ UNCHANGED <<lease, rows, staging, inProgress, active, run, wrap, crashes>>

\* Timed out, busy with a rebuild, or no longer the owner of the marker.
WrapGivesUp(w) ==
  /\ WrapAt(w, "acquiring")
  /\ WrapGoto(w, "releasing")
  /\ UNCHANGED <<lease, marker, rows, staging, inProgress, active, run, crashes>>

\* Mutant of WrapIterated: without the check for progress.
WrapIteratedAgain(w) ==
  /\ WrapAt(w, "iterating")
  /\ run[wrap[w].iter] = IdleRun
  /\ wrap' = [wrap EXCEPT ![w].pc = "looping", ![w].iter = None]
  /\ UNCHANGED <<lease, marker, rows, staging, inProgress, active, run, crashes>>

\* After an iteration: go on only if it moved the last compartment's end.
WrapIterated(w) ==
  /\ WrapAt(w, "iterating")
  /\ run[wrap[w].iter] = IdleRun
  /\ wrap' = [wrap EXCEPT
                ![w].pc = IF LastEnd(rows) > wrap[w].before THEN "looping" ELSE "releasing",
                ![w].iter = None]
  /\ UNCHANGED <<lease, marker, rows, staging, inProgress, active, run, crashes>>

WrapRelease(w) ==
  /\ WrapAt(w, "releasing")
  /\ marker' = IF marker.holder = w THEN NoRow ELSE marker
  /\ wrap' = [wrap EXCEPT ![w] = IdleWrap]
  /\ UNCHANGED <<lease, rows, staging, inProgress, active, run, crashes>>

\* The 60 s marker timer: renew, or learn that the marker is gone.
RenewMarker(w) ==
  /\ wrap[w].pc \in {"waiting", "acquiring", "iterating"}
  /\ Yielded(wrap[w].proc)
  /\ IF OwnsMarker(w)
     THEN /\ marker.left < MarkerTtl
          /\ marker' = [marker EXCEPT !.left = MarkerTtl]
          /\ UNCHANGED wrap
     ELSE /\ ~wrap[w].lost
          /\ wrap' = [wrap EXCEPT ![w].lost = TRUE]
          /\ UNCHANGED marker
  /\ UNCHANGED <<lease, rows, staging, inProgress, active, run, crashes>>

-----------------------------------------------------------------------------
(* The environment.                                                        *)

\* A process dies and is started again: its memory is gone, the rows stay.
Crash(p) ==
  /\ crashes < MaxCrashes
  /\ crashes' = crashes + 1
  /\ active' = [active EXCEPT ![p] = None]
  /\ run' = [r \in Run |-> IF run[r].proc = p THEN IdleRun ELSE run[r]]
  /\ wrap' = [w \in Wrap |-> IF wrap[w].proc = p THEN IdleWrap ELSE wrap[w]]
  /\ UNCHANGED <<lease, marker, rows, staging, inProgress>>

Less(n) == IF n > 0 THEN n - 1 ELSE 0

Tick ==
  /\ lease.left > 0 \/ marker.left > 0
  /\ lease' = [lease EXCEPT !.left = Less(lease.left)]
  /\ marker' = [marker EXCEPT !.left = Less(marker.left)]
  /\ UNCHANGED <<rows, staging, inProgress, active, run, wrap, crashes>>

AgentStep(r) == \/ Snapshot(r) \/ NoOp(r) \/ PersistNoise(r) \/ Spawn(r)
                \/ PassFails(r) \/ Publish(r)
RecompStep(r) == \/ ReadStaging(r) \/ RecompPass(r) \/ RecompLoopEnds(r)
                 \/ SaveCandidates(r) \/ Promote(r)
LeaseStep(r) == TryLease(r) \/ Recheck(r) \/ EndRun(r) \/ Release(r)
RunStep(r) == LeaseStep(r) \/ AgentStep(r) \/ RecompStep(r)
WrapStep(w) == \/ WrapWait(w) \/ WrapPlan(w) \/ (\E r \in WrapRun : WrapAcquire(w, r))
               \/ WrapGivesUp(w) \/ WrapIterated(w) \/ WrapRelease(w)
Pass(p) == Trigger(p) \/ (\E r \in IncRun : StartAgent(p, r)) \/ DropIntent(p)

\* A rebuild takes the steps of a rebuild, any other run those of the historian; what is
\* staged, a rebuild has staged.
Next == \/ \E p \in Proc : Pass(p) \/ Crash(p)
        \/ \E p \in Proc, r \in RecompRun : StartRecomp(p, r) \/ DiscardStaging(p)
        \/ \E p \in Proc, w \in Wrap : StartWrapup(p, w)
        \/ \E r \in Run : LeaseStep(r) \/ Renew(r)
        \/ \E r \in IncRun \cup WrapRun : AgentStep(r)
        \/ \E r \in RecompRun : RecompStep(r)
        \/ \E w \in Wrap : WrapStep(w) \/ WrapRetry(w) \/ RenewMarker(w)
        \/ Tick

Spec == Init /\ [][Next]_vars

-----------------------------------------------------------------------------
(* Fairness.  An event loop runs every task that is ready again and again  *)
(* (SF); a model call ends, by its timeout if not before; some process     *)
(* goes on making transform passes; time passes.                           *)

Fairness ==
  /\ SF_vars(\E p \in Proc : (\E r \in IncRun : StartAgent(p, r)) \/ DropIntent(p))
  /\ \A r \in Run : SF_vars(RunStep(r))
  /\ \A w \in Wrap : SF_vars(WrapStep(w))
  /\ WF_vars(Tick)

FairSpec == Spec /\ Fairness

-----------------------------------------------------------------------------
(* Properties.                                                             *)

RowType(Holder, ttl) == [holder : Holder \cup {None}, left : 0..ttl]
SnapType == [off : 1..(MaxMsg + 1), seq : Nat, elig : 1..(MaxMsg + 1)]
RunType(Table) == [pc : RunPc, proc : Proc \cup {None}, snap : SnapType,
                   cand : Table, under : Wrap \cup {None}]
WrapType == [pc : WrapPc, proc : Proc \cup {None}, target : 1..(MaxMsg + 1),
             before : 0..MaxMsg, iter : WrapRun \cup {None}, lost : BOOLEAN]

\* Types of all variables; only rebuilds are at the steps of a rebuild, and a
\* run with a window has something in it.
TypeOK ==
  /\ lease \in RowType(Run, LeaseTtl)
  /\ marker \in RowType(Wrap, MarkerTtl)
  /\ IsTable(rows) /\ IsTable(staging)
  /\ inProgress \in BOOLEAN
  /\ active \in [Proc -> Run \cup {None}]
  /\ run \in [Run -> RunType({run[r].cand : r \in Run})]
  /\ \A r \in Run : /\ IsTable(run[r].cand)
                    /\ At(r, RecompPc) => r \in RecompRun
                    /\ At(r, {"chunking"}) => run[r].snap.off < run[r].snap.elig
  /\ wrap \in [Wrap -> WrapType]
  /\ crashes \in 0..MaxCrashes

\* The stored history never has a gap, an overlap or a hole in its sequence
\* numbers ("Sequences are 0-indexed to match the invariant MAX(sequence) =
\* count - 1", and validateStoredCompartments, which stops every later
\* historian run once it fails).
HistoryContiguous ==
  /\ Contiguous(rows)
  /\ DOMAIN rows = 0..(NextSeq(rows) - 1)

\* A run publishes what it computed minutes earlier.  Whatever other
\* processes did meanwhile, a step that changes the compartments either
\* promotes the rebuilt table or touches no stored row and goes on with the
\* next message and the next sequence number.
NoLostUpdate ==
  [][ rows' # rows =>
        \/ \E r \in RecompRun : At(r, {"promoting"}) /\ rows' = staging
        \/ /\ \A i \in DOMAIN rows : i \in DOMAIN rows' /\ rows'[i] = rows[i]
           /\ NextSeq(rows) \in DOMAIN rows'
           /\ rows'[NextSeq(rows)].s = NextOrdinal(rows) ]_vars

\* A historian run or a rebuild that got the lease while a wrapup's marker was
\* live goes no further than its second check for as long as the marker is
\* live: between two iterations, when the wrapup holds no lease, nobody else
\* works on the session ("Close the cross-process check/lease race").
WrapupExcludesOthers ==
  \A r \in IncRun \cup RecompRun :
    At(r, AgentPc \cup RecompPc) /\ run[r].under # None => ~OwnsMarker(run[r].under)

\* A rebuild is promoted, or a historian's compartments are appended, by no
\* run whose lease another process has taken over in the meantime, and what
\* they replace or extend is the table under a lease held since it was read.
\* As a refinement: the compartments change as CompartmentHistory allows.
History == INSTANCE CompartmentHistory WITH log <- rows
HistorySpec == History!Spec

\* A wrapup ends: its loop advances or stops, whoever holds the lease it waits
\* for and whatever becomes of its marker.
WrapupEnds ==
  \A w \in Wrap : wrap[w].pc # "idle" ~> wrap[w].pc = "idle"

\* The intent to summarise does not stay up for ever ("release the intent so
\* later passes can retry instead of starving"), even if the process that
\* noted it or the one that served it crashes.
IntentServed == inProgress ~> ~inProgress
=============================================================================
