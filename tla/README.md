# Magic Context: a TLA+ model of the shared session state

Magic Context keeps a coding agent's conversation within its context window. A
plugin runs inside every agent process (OpenCode, Pi), rewrites each request
before it goes to the model, and has a background "historian" condense old
messages into compartments. All processes share one SQLite database,
`context.db`. Most of the code is text processing; what is hard is that several
processes, each with asynchronous work that lasts minutes, read and write the
same session, and may stall or die at any point.

Paths below are relative to the repository; `FM` is
`packages/plugin/src/features/magic-context` and `HM` is
`packages/plugin/src/hooks/magic-context`.

## Inventory

| Part | State | Operations | Hard part | Correct when |
|---|---|---|---|---|
| Compartment lease (`FM/compartment-lease.ts`) | one row per session: holder, expiry | acquire, renew, release, is-held | expiry while the holder still works; a release that throws SQLITE_BUSY | nobody writes compartments after somebody else took the lease |
| Historian runner (`HM/compartment-runner.ts`, `-incremental.ts`, `-validation.ts`, `persist-filtered-noise.ts`) | `compartments` table, `compartment_in_progress`, in-memory `activeRuns`, the locals of a run | start, read a snapshot, ask a model, publish in one transaction, or store a noise compartment | minutes between the read and the write | the table stays contiguous, nothing is overwritten, the intent never starves |
| Full recomp (`HM/compartment-runner-recomp.ts`, `FM/compartment-storage.ts`) | `recomp_compartments` staging | resume, stage a pass, promote | staging is shared by all rebuilds of a session; crash between passes | the table is replaced atomically by a valid one |
| Partial recomp (`HM/compartment-runner-partial-recomp.ts`, `recomp-orchestrator.ts`) | staging, the staging range in `session_meta` | snap a range, rebuild it, merge prior, new and tail | stale range marker; the tail must be what it was | ranges outside the request are untouched |
| Wrapup (`HM/wrapup-orchestrator.ts`) | marker in `session_meta`, loop locals | acquire marker, wait, plan, iterate, release | marker and lease are two rows with two lives | a live wrapup is not interleaved with other runs; it ends |
| Trigger and boundary (`HM/compartment-trigger.ts`, `protected-tail-boundary.ts`, `transform-compartment-phase.ts`) | floor, drain window in `session_meta` | decide whether and how far to summarise | values read in a pass, used by a later run | the protected tail stays raw |
| Drain budget (`FM/storage-meta-persisted.ts`) | drain window, tokens, reservation | reserve, roll back | a rollback after the window was reset by another process | no more is drained per window than the budget |
| Channel-2 nudge (`HM/channel2-delivery.ts`, `channel2-cycle.ts`) | nudge state in `session_meta` | arm, claim, deliver, settle | a crash between claim and delivery | a nudge is delivered at most once per cycle |
| Compaction marker (`HM/compaction-marker-manager.ts`, `FM/compaction-marker.ts`) | rows in the host's database, state and pending target in `context.db` | defer, apply, move, remove | two databases, no common transaction | the marker never hides messages no compartment covers |
| Drop queue, pending operations (`HM/compartment-runner-drop-queue.ts`, `FM/storage-ops.ts`, `HM/apply-operations.ts`) | `pending_ops`, status and drop mode of `tags` | queue, apply on a cache-busting pass, clean up, replay | queued by one process, applied by another; rows and prompt change together or not | nothing asked for is lost; what is dropped looks the same in every later pass |
| Transform pass, m0/m1 (`HM/transform.ts`, `transform-postprocess-phase.ts`, `inject-compartments.ts`) | frozen prefix, epochs, replay sets | render, mutate at gates | a defer pass must replay the last bytes | the prefix changes only at gates |
| Tagger (`FM/tagger.ts`, `storage-tags.ts`) | `tags`, counter, in-memory map | assign, bind, recover | two processes assign numbers | one number per message and the reverse |
| Dreamer (`FM/dreamer/lease.ts`, `task-scheduler.ts`, `storage-task-schedule.ts`, tasks) | keyed leases, task schedule, dream runs | claim due tasks, run, record | lease lost in the middle of a task | one process runs a task of a project |
| Message index (`FM/message-index.ts`, `-async.ts`) | FTS rows, indexed-up-to mark | index, reconcile, clear | asynchronous indexing against deletion | the index holds exactly the session's messages |
| Memory, embeddings (`FM/memory/`, `FM/project-embedding-registry.ts`) | memories, vectors per identity | insert, supersede, embed | provider changes while embedding | a vector belongs to its text and its model |
| LKG replay (`HM/lkg-*.ts`) | last good request | store, replay | replay of a stale request | a replay is for the same history |
| Rust authority (`HM/rust-mode-transform.ts`, `module-state-sync.ts`, `FM/context-authority.ts`) | authority row, module snapshot | hand over, sync | writes without the lease in Rust mode | one engine has authority |
| Session lifecycle, notifications, tools, CLI, dashboard, docs | - | CRUD and presentation | - | - |

How they interact. A transform pass (every request) notes the intent to
summarise, later starts a historian run in the background, and never waits for
it except in an emergency. Runs, rebuilds and wrapups are kept apart by the
lease row, by the wrapup marker and by the in-memory `activeRuns` map of their
process; they meet in the `compartments` table. A publication also queues drops
and a compaction marker target for a later pass to apply. `PROJECT.json` lists
every part with its status, and every hazard with its line and the properties
that cover it.

## Plan

1. `CompartmentTable`, `CompartmentRuns`, `CompartmentHistory`: who may change
   the compartments, with the abstract history they implement. Done.
2. `PartialRecomp` (on `CompartmentTable`, implements `CompartmentHistory`):
   range snapping checked against its specification, and the staged rebuild of a
   range next to full rebuilds. Done, with theorems.
3. `CompactionMarker`: two databases without a common transaction. Done, with
   theorems.
4. `DrainBudget`, `Channel2Nudge`: persisted protocols of one row each, several
   processes, crashes; the second implements `NudgeCycle`. Done, with theorems.
5. `DreamScheduler`: the keyed lease of the background tasks and their schedule.
   Done, with theorems.
6. `Tagger`: numbers shared by processes that each keep a copy. Done, with
   theorems.
7. `MessageIndex`: the index, its watermark and its dirty floor. Done, with
   theorems.
8. `DropQueue`: what the agent and the historian ask to discard, applied by one
   process and replayed by all. Done, with theorems.
9. Left: the gates that decide which passes may change the prompt (the scheduler,
   the frozen m0/m1 prefix), and `ContextAuthority`, the hand-over between the two
   engines.
10. Theorems: every safety invariant a passing run checks is one, those of
    `PartialRecomp` through its instance in `CompartmentRuns_proofs` and some under a
    condition the theorem states. Left is what the prover does not reach (liveness),
    see Proofs.

## Modules

### CompartmentTable

A table is a function from sequence numbers to cells; a cell is the range of raw
message ordinals of a compartment. `NextSeq`, `NextOrdinal`, `LastEnd` are the
questions the runners ask in SQL; `Contiguous` is `validateStoredCompartments`;
`Splits` is what a historian answer may be after `validateHistorianOutput`:
consecutive cells that cover a non-empty prefix of the chunk. Titles, tiers and
text are left out.

### CompartmentRuns

| Variable | Code |
|---|---|
| `lease` | `compartment_state_lease`: holder, and the time it has left |
| `marker` | `session_meta.wrapup_in_progress_state`, with the time it has left |
| `rows`, `staging` | `compartments`, `recomp_compartments` |
| `inProgress` | `session_meta.compartment_in_progress` |
| `active` | the module-level `activeRuns` map of each process |
| `run`, `wrap` | the program counter and the locals of a run and of a wrapup |

One action is one SQLite statement or transaction with the synchronous code
around it. Two statements of the same synchronous function are two actions,
because another process may write between them; `SyncPc` lists the points in the
middle of such a stretch and `Yielded` keeps the process's other work out of it.
Time is the time a row has left: `Tick` may happen at any point, so a process can
stall for longer than any TTL between any two of its actions. A crash forgets a
process's memory and keeps the rows. A model call may fail or time out (`PassFails`),
may have all its messages filtered as noise (`PersistNoise`), or answers with
any valid split of a prefix of its window (`Publish`).

The start of a run is `Trigger`, `StartAgent`/`StartRecomp`, `TryLease`,
`Recheck`; a historian run is `Snapshot`, then `NoOp`, `PersistNoise` or `Spawn`,
then `Publish` or `PassFails`; a rebuild is `ReadStaging`, `RecompPass`*,
`RecompLoopEnds`, `SaveCandidates`, `Promote`; both end with `EndRun`, `Release`.
A wrapup is `StartWrapup`, `WrapWait`, then per iteration `WrapPlan`,
`WrapAcquire` (or `WrapRetry`, `WrapGivesUp`), `WrapIterated`, and `WrapRelease`.
A staged rebuild can also lose its staging to the upgrade path
(`DiscardStaging`): the reminder clears an orphan in another process.

### CompartmentHistory

What the runners promise: the history covers a prefix of the messages, grows by
appending and is otherwise only replaced as a whole. `CompartmentRuns` implements
it with `log <- rows` (its property `HistorySpec`), and so does `PartialRecomp`; the
run `rebuilds` checks both as `HistorySpecs`.

### PartialRecomp

| Variable | Code |
|---|---|
| `lease` | holder of the lease row; its clock is left to `CompartmentRuns` |
| `rows`, `staging` | `compartments`, `recomp_compartments` |
| `passes` | has a staged row a pass number above 0 (what resumption asks) |
| `range` | `session_meta.recomp_partial_range_start` and `_end` |
| `run` | program counter and locals of a rebuild: its snapped range, prior, tail, candidates |

A run of a range is `Start`, then `NothingToRebuild`, `Refuse`, or `ReadRange`;
`Resume` or `Seed` and `SetRange`; `RebuildPass`*; `Merge`, `Promote`,
`ClearRange`; `End`, with `Fails` in between. A full rebuild is `Start`,
`ReadStaging`, `RebuildPass`*, `FullLoopEnds`, `SaveCandidates`, `Promote`, `End`.
`Save`, `Clear` and `SetRange` are statements of their own, as in the code. The
environment appends (`Append`, the historian and the noise compartments, the
latter also while somebody else has the lease) and drops orphaned staging
(`Discard`).

Abstractions: several reads of one stretch without an `await` are one action; a
full rebuild may end anywhere, because the trigger boundary it stops at is not
part of the model; the memory migration and the compression depth are left out.
`MCRebuilds` has three groups of behaviours. In "partial" no full rebuild runs,
leases are lost and two crashes happen, and the range must be all that changes; in
"in turn" partial and full rebuilds follow each other, a lease passing on only
between runs; "runs" is an instance of `CompartmentRuns` with a full rebuild, a
historian run and the clock of the lease.

### CompactionMarker

| Variable | Code |
|---|---|
| `ends` | last messages of the compartments |
| `base` | `cached_m0_last_baseline_end_message_id`: what the cached prefix covers |
| `pending`, `state` | `pending_compaction_marker_state`, `compaction_marker_state` |
| `rows` | the marker's rows in the host's database |
| `deferred` | `deferredHistoryRefreshSessions` of each process |
| `pass` | the transform pass of a process, from the first look at the signal to the drain |
| `promoted`, `job` | a rebuild that is to move the marker; a change of the marker under way |

`Publish`, `PersistNoise` and `PromoteRebuild` change the compartments. A pass is
`Prepare`, perhaps `PrepareAgain` (it awaited a run), `Fold` or `FoldFails`,
`Drain`. A change of the marker is `Check` or `UpdateDirectly` or `HostCompacts`,
then `Remove`, `Forget`, `Inject`, `Persist`, `Clear`, each one statement or
transaction of one of the two databases; `RemoveFails` and `InjectFails` are
SQLITE_BUSY there. `Crash` forgets the memory; `Restart` is the consistency check
and `Rehydrate` the reload of the signal.

Abstractions: a message is its ordinal and a marker is named by its target, from
which the code derives the ids; the first message is the user's, so a boundary
always exists; `Fold` covers every compartment there is. Nothing in the code keeps two
processes from changing the marker at the same moment; the model lets them, and
`Starts` counts such an overlap in `faults`. Deletion of raw messages, the clean-up of markers a fork
inherited, the compaction-off switch and the Rust engine's boundary are left out.

### DrainBudget

| Variable | Code |
|---|---|
| `lease` | holder of the compartment lease |
| `tokens`, `windowAge` | `protected_tail_drain_tokens`, `_window_started_at` |
| `latched`, `latchAge` | `emergency_drain_active` and its age |
| `failAge` | `historian_drain_failure_at` |
| `run` | program counter and `drainReservation` of a historian run |
| `kept`, `late`, `bypassed`, `quiet`, `lost` | histories: what is really out, what was returned late, whether a run went past the budget |

A timestamp is its age, and the ages the code cannot tell apart are one. A run is
`Begin`, then `NothingToDrain`, `Forced` or `Reserve` (one transaction, with the
window and the latch), `NoChunk` or `NotCalled` or `Call`, `CallFails` or `Answer`,
`Unpublished` or `Publish`, and `Finish`, whose rollback may meet a failing
statement (`FinishUnnoted`). `Expire` takes the lease away, `SetBack` sets the
clock back, `Crash` forgets a run with its reservation.

### Channel2Nudge

| Variable | Code |
|---|---|
| `state`, `token`, `age` | `channel2_nudge_state`, its claim token, the age of the claim |
| `view` | the measurement each process keeps in memory, or the Rust directive |
| `run` | the delivery attempts, by the statement they are at |
| `switching` | the switch-off of compaction, between its read and its write |
| `sub`, `active` | is the session a subagent's, and is its run under way |
| `standing`, `heard` | histories: sends of the cycle that stand; was the last claim's message accepted |

A pass is `Fold`, `Measure`, `Arm`, `Reduce` or `RustPass`; an attempt is `Begin`,
`Evaluate`, `ClearIntent` or `TryClaim`, `Recheck`, `Resolved`, `CheckClaim`,
`StartSend`, `Accept` or `SendFails`, `Restore`, `Confirm`, with `StatementFails`
in between; `Heal` is the reaper of opening the database. An attempt that hangs in
its send lets `Tick` pass its claim's ten minutes, which counts as a fault. A
`promptAsync` that throws is taken not to have reached the host.

`NudgeCycle` is what the row promises, without processes and steps of attempts: a
claim is one attempt's, a cycle is consumed only under a claim whose message was
taken, and an attempt whose message was taken does not put the intent back, since,
as `channel2-delivery.ts` says, "the send already happened and retrying risks a
duplicate". `CycleSpec` is `Channel2Nudge` mapped to it: `state` is its phase,
`token` its claim.

### DreamScheduler

| Variable | Code |
|---|---|
| `lease` | `dreaming_lease_*` of a domain: holder and time left |
| `row` | `task_schedule_state`: next due, schedule, retries |
| `config` | the schedules each process has configured |
| `work` | does the task's gate find anything to do |
| `run` | a scheduler run: what it planned, its task, its heartbeat and generation |

`Plan` is the timer and `Manual` the command; `Acquire`, `Busy`, `Break` take the
lease for a group of tasks, `Skip`, `StartTask`, `Setup` begin one; `Renew`,
`CheckGeneration`, `Retake` are the heartbeat; `GuardedWrite` and `Fail` end the
model's work, `Finish` writes the row (without a look at the lease, as the code
does), `Release` ends the group. Ticks that keep every heartbeat are `Tick`, those
that do not are `Stall`, a fault.

### Tagger

| Variable | Code |
|---|---|
| `tag`, `counter` | `tags` by number, `session_meta.counter` |
| `wire`, `coming`, `tool` | what the session contains, and which of it are tool calls |
| `proc` | a process: its map, its counter, the signature of its last load, its walk |
| `shown`, `retired`, `raced` | histories: numbers given to the model, numbers of removed rows, contents two processes inserted at once |

A pass is `CacheHit` or `Reload` (`LoadCounter`, `LoadRows`), then per content
`Bound`, or the search for its row, and `Done`; each step is a statement. A text is
looked up (`Lookup`). A tool call is observed first, in `tag-messages.ts:549`:
`Observe` reads the first orphan of its call id, `Claim` gives it to the call, and
without an orphan, or after a lost race, `Persisted` looks for the row the call
already has. Where that leaves it without a number, `assignToolTag` follows with
`LookupTool`, `FindOrphan`, `Adopt`, `Rematch` and `Relook`. At last `Propose`,
`Insert`, `Recheck`, `Advance` give a new number. `Adopts` is what both adoptions do:
the update takes the orphan, finds it gone, or is refused by the index on call id and
owner, which makes the walk throw. `Remove`, `Backfill` and `Fail` are the removal of
a message, the owner backfill and a throwing statement.

Abstractions: a tool call is its call id and owner; how the owner of a result is found
(`deriveToolOwnerMessageId`) is left out. All calls of the model have a result: one
still at work is observed, and may adopt, but gets no new number. A pass whose walk
throws puts no numbers in front of anything, so `PrefixIsStable` is about the number
only, and about passes that tag the content.

### MessageIndex

| Variable | Code |
|---|---|
| `history`, `ver`, `coming`, `open` | the host: messages in order, their revisions, which are not finished |
| `source` | `message_history_source` |
| `doc`, `stray` | `message_history_fts` through `message_fts_rowid_map`, and the documents no longer in the map |
| `water`, `dirty` | `last_indexed_ordinal`, `dirty_floor_ordinal` |
| `proc` | a process: the operation at the head of its session lock and its locals, the queue behind it, timers, what waits for the quiet period, `reconciledSessions`, `completedIncrementalKeys` |
| `lost`, `broken` | histories, see below |

`Add`, `Update`, `RemoveMessage` and `Touch` are what the host does with the event
handlers of the process; `TimerFires` and `LaterFires` put an operation behind the
lock. A live event is `ReadMessage`, `Mark` (the floor, a statement of its own),
`Write` (the transaction), `After`; a reconciliation is `Reconcile`, then
`WritePage`, `NextPage`, `Resume` page by page; a removal is `Clear` and a
reconciliation behind it. `MarkFails`, `WriteFails`, `PageFails`, `ClearFails` are
SQLITE_BUSY there, `Crash` forgets a process.

`lost` holds messages whose last revision nothing will look for again: the mark
of a revision the watermark already covers failed, a process died before its
timer fired, the old document was kept (the disagreement of `index_stale`), or the
floor that was to rebuild it was dropped by a write at the floor's own ordinal
(`LeftBehind`).
`broken` says that a removal's clear was lost, or that the operations of two
processes overlapped, since the last clear. `SettledIsExact` and
`EveryMessageIsIndexed` promise nothing of these, since the code does not keep it
(below); `FoundOnce` has no such exception.

### DropQueue

| Variable | Code |
|---|---|
| `status`, `mode` | `tags.status`, `tags.drop_mode` |
| `queue` | `pending_ops` |
| `tool`, `present`, `hidden`, `running` | the host: tool calls, what the session contains, what it has compacted away, calls without a result |
| `held`, `recent` | the protected tool calls and the newest `RECENT_TOOL_SKELETON_WINDOW`; both only lose members with time |
| `pass` | the transform pass of a process: its targets, what it loaded, the prompt it is making |
| `shown`, `spoiled` | histories: the form in which a pass that replays it last sent a content; contents whose prompt and row were taken apart |

`Ask` is `ctx_reduce`, `AskThrough` the historian's publication, `Flush` is
`/ctx-flush`, `Compact` the host's own compaction. A pass is `Begin` (the tag walk and
the replay of what the rows say), or what comes of it when one of them throws: after
`Untagged` the pass has no targets and replays nothing, after `ReplayFails` it has
replayed a part, and both go on like any other pass. Then `Defers`, or `OnlyCleans`, or `Executes` and `Apply`; `Load`,
`Clean`* and `Cleaned` are the heuristics, `Reclaim`* the synthetic requests for old
and superseded tool calls, `Sent` finalizes the batch. Each is one transaction.
`Fails` is a transaction that throws after it has changed part of the prompt: the
rows go back and the prompt does not; or the pass throws between two of them and the
prompt goes out as it is. `Crash` forgets a pass: the process dies, or the transform
throws and the host sends its messages as they came, or those of the last good pass
(`messages-transform.ts`). What a request sends whole because its walk, its replay or
its transform threw is not entered in `shown`, so the next pass that replays the
content is held to the form before it.

Abstractions: a content is its tag and the row is there when the content is; which
contents a clean-up or a reclaim selects, and whether a pass may change the prompt,
depends on sizes and times and is left open, so everything holds for any choice. The
protection loses a call when newer work displaces it; the code can also protect one
again after a removal, which the model leaves out.

## Runs

The MC modules instantiate the modules with model values; in `rebuilds` and
`mixed_staging` ids of one kind are symmetric, since they are only compared for
equality. Runs with a liveness property use no symmetry.

| Run | Shows | Bounds | States |
|---|---|---|---|
| `wrapup` | a wrapup with a competing historian: the second marker check works, updates are not lost, every wrapup ends, the intent is served or dropped | 2 processes, 2 messages, 1 crash, TTLs 2 | 173,178 |
| `rebuilds` | partial and full rebuilds and a historian run: tight snapping, nothing outside a range touched, the refinement of `CompartmentHistory` by both models | partial: 4 messages, 2 cells, 2 crashes (1 in turn), lost leases; runs: 2 processes, 3 messages, 2 cells, TTLs 2, 1 crash, releases may fail | 833,414 |
| `marker` | nothing hidden that is not delivered; targets and markers have a retry; a noted target does not stay noted | 2 processes, 2 messages, 1 fault (a crash, a failure or an overlap) | 406,994 |
| `drain` | what is reserved is on the books, the budget, the backoff, nobody refused for ever | 2 runs, cap 1, budgets 1 and 2, 3 tokens, 1 crash, 1 clock set back | 1,276,614 |
| `nudge` | the row implements `NudgeCycle`, one message stands per cycle, the nudge arrives | 2 processes (one in Rust mode), 2 attempts, 2 faults | 146,693 |
| `dreamer` | what is written was read after the last write; a disabled task stays off; slots are run and let go | 2 processes, 1 task, 2 faults, 1 command or change | 216,267 |
| `tagger` | numbers keep their meaning, are not given again, everything is tagged | 2 processes, 2 contents, one or both tool calls, 1 or 2 orphans, 1 fault | 1,657,784 |
| `index` | the settled index is exact, nothing is found twice, everything is indexed | 2 processes, one of them worked in, 2 messages, pages of 1, one edit, removal or failure, and a failing clear | 343,616 |
| `reduce` | requests are served, what is reduced stays in its form, over passes of any process | 2 processes, 1 content, a text or a tool call, 1 crash, failed walk, replay or transaction | 589,733 |
| `mixed_staging` | violation: two rebuilds share the staging table | 2 messages, 2 rebuilds, 1 crash | |
| `marker_shrunk` | violation: a shorter table and a marker that stays | 1 process, 3 messages, no fault | |
| `index_stale` | violation: an old document is kept for good | 1 process, 2 messages, 2 edits, 1 failed write | |

Why the bounds are enough. A lost lease needs two runs and one expiry; a late
publication meets one more table change; an overlap or gap needs two rows and a
third message to be missing. Ids are reused once nothing refers to them
(`Fresh`), so each id stands for any number of runs one after the other. A TTL of
2 lets a renewal change something. `wrapup`
has two messages because it checks liveness; its three safety properties are
theorems for any number. Four messages give a range a compartment before, one
behind and room to be split, and two crashes interrupt a resumption.

A marker hides a message when it is ahead of what is delivered. That takes one
compartment the pass has prepared and a second published since, which two
messages allow, since each is a user's message; for more, `HiddenIsDelivered` and
`TargetHonoured` are theorems, and so is `MissingHasRetry` up to one fault. A fault is
a crash, a failure of the host's database or a change of the marker that starts during
another process's. With two of them
`MissingHasRetry` does not hold: a drain that removed the old marker and could not
inject, then a rebuild whose direct update fails as well, or a compaction of the
host that clears the target a moment later, leave nothing but the next publication
or start to retry. The other four properties were also run with one failure and
any overlaps (1,573,917 states, no error).

`drain`: a cap of 1 and budgets of 1 and 2 have a window that is full, one that
has room and a pressure that raises it; `MaxKept` bounds what the latch lets past.
`nudge`: two attempts are a claimant and the one that takes over. `dreamer`: one
task, since tasks of a domain run one after the other under one lease; a row and a
lease meet in it. The theorems of these three hold for any number. `tagger`: two
contents of one call id, or a text and a call; two orphans are one for the row of a
call and one that is left over; no number beyond `MaxTag` is ever proposed. `index`: a page of one message makes every rewind of two messages one of
two pages; one process is worked in and one only reconciles. Instances of one
process with three messages, or with two edits and two failures, and the safety
properties with an edit, a removal and a failure in any two (1.9 million states),
were also run without an error. `reduce`: contents have to do with one another only
through their age, which `Displaced` lets pass one by one, so one content, of either
kind, shows what happens to any; two processes hold different forms of it. The
instance with two failures (1.1 million states), in which the pass of a failed replay
fails again, was also run without an error.

Deadlock is not checked: the system stops for good when all messages are
summarised and nothing is running.

Two properties are stated for less than everything. `OutsideUntouched` lets a
noise compartment go that was added since the run read the table, because
`persistFilteredNoise` needs no lease; and it is checked without full rebuilds
(group "partial"), with which it fails (below). In turn no lease is lost: two
rebuilds that both write the staging table are what `mixed_staging` shows.

Fairness. `wrapup`: strong fairness for each run's and each wrapup's steps and
for the transform passes, of whichever process, because an event loop runs what is ready again and
again while the readiness may come and go with other processes' writes; weak
fairness for time. A model call is assumed to end, which its timeout guarantees.
`ReleaseMayFail` is false there: a release that meets SQLITE_BUSY infinitely often
could keep the intent up for ever, and the code claims no more than that the row
expires. `marker`: passes keep coming and a synchronous change of the marker goes
on (weak); of infinitely many passes that could render some do, a pass comes to
its drain and a crashed process comes back although the other process's changes
may come first (strong). `drain`: time passes and a run that has its answer ends
(weak). `nudge`: attempts go on, the switch-off, time and the reaper come (weak),
and of infinitely many passes that may arm, and step boundaries that may begin an
attempt, some do (strong). `dreamer`: steps, heartbeats, slots and time (weak); the
timer fires and a model's work ends although a lease may come and go (strong).
`tagger`: a session goes on having passes, and a pass goes on (weak). `index`: a
session goes on having events, timers fire and operations go on (weak). `reduce`:
passes begin and go on (weak), and of infinitely many passes some may change the
prompt (strong), since the cache expires and the pressure rises. Faults,
stalls, commands and edits are bounded and never required.

### Disagreements between the code and what it says

* `mixed_staging`: `saveRecompStagingPass` ignores the lease and deletes no
  staged row. A rebuild that lost its lease keeps staging; the rebuild that took
  over promotes rows of both, and nothing validates what is staged at that point.
* `marker_shrunk`: a full rebuild that promotes its first passes only leaves the
  marker where it was; the messages between the last compartment and the marker
  are neither summarised nor shown until the history has caught up.
* `index_stale`: a rewind of the index over more than one page drops the floor
  after its first page; a message behind it that was edited meanwhile keeps its old
  document under its new source version (`message-index.ts:675`), so no later event
  or reconciliation looks at it again, against the comments at
  `message-index.ts:574` and `message-index-async.ts:20`.

Seen while modelling, without a run of their own:

* Rebuilds. `executeContextRecompWithResult` releases the lease with the throwing
  variant before it deletes the `activeRuns` entry (`compartment-runner.ts:302`),
  so a failed release leaves an active run for ever. A partial rebuild that
  refuses because a full one is staged deletes the staged one in its `finally`
  block (`compartment-runner-partial-recomp.ts:534`), though its message (`:185`)
  says to resume it. The merged table with its tail is staged before the promotion
  (`:319`); if that does not happen, the retry takes the tail for rebuilt. A full
  rebuild resumes without reading the range marker, so it takes over the rows of an
  interrupted partial one (`compartment-runner-recomp.ts:201`); the range marker
  can outlive its rows, so a partial rebuild can take those of a full one (that is
  why `OutsideUntouched` is about one group). The message at
  `compartment-runner-partial-recomp.ts:178` says that `/ctx-flush` cancels staged
  passes, but `executeFlush` only touches pending operations.
* Dreamer. The row of a task is written without a look at the lease
  (`task-scheduler.ts:378`), while `storage-task-schedule.ts:180` calls these
  writes single-writer. Processes with different schedules for one project reset
  each other's dates. `last_run_at` is the time a run ended, so what maintain-docs
  takes as its cutoff skips what was published while it ran.
* Tagger. Two processes may give one text two rows, since `message_id` is not
  unique: loads keep the higher number and lookups the lower, so the prefix may
  flip, against `ARCHITECTURE.md:65` and the comment at `tagger.ts:780`. An orphan
  that is left over can keep passes from tagging anything: the load floor is the
  number of a text, and the row of a tool call that adopted an older number is below
  it, hence not in the map. The observation then gives the call the next orphan of its
  call id (the backfill leaves those, `tool-owner-backfill.ts:416`) although it has a
  row, the index `idx_tags_tool_composite` refuses, and the walk throws, in this pass
  and in each later one that loads from the same floor, though "a fresh load typically
  self-heals in one pass" (`transform.ts:1919`). `EverythingIsShown` exempts a process
  whose passes come to this again and again (`Ghosted`).
* Drops. `/ctx-flush` drops in the mode the row has, "full" by default
  (`execute-flush.ts:24`), so a call in the newest window loses the skeleton
  `apply-operations.ts:16` promises. "A skeleton is NEVER demoted to a full drop
  afterwards" (`apply-operations.ts:31`): the deduplication of the same pass demotes
  one the emergency drop has just made, and one of another process can demote one
  that was sent. A transaction that throws leaves what it has changed in the prompt
  (`transform-postprocess-phase.ts:1849` catches and the pass goes on), so one request
  shows contents reduced that the next shows whole again. `FormIsKept` exempts the
  last two (`spoiled`). The other way round, a pass whose tag walk throws is sent
  without a replay (`transform.ts:1907`, `:1961`), one whose replay throws with a part
  of it (`transform.ts:1973`), and a transform that throws has "no drops this turn"
  (`messages-transform.ts:191`): in such a request contents that were discarded go out
  whole. `FormIsKept` is about the passes that tag and replay a content, and says
  nothing of these requests; nothing wrong stays behind, for the passes after them show
  the old forms again. A pass whose walk threw still applies requests: all targets are
  absent, so it drops also a tool call that is at work.
* Index. A removal deletes only documents that are in the map, so one that lost
  its place there (`stray`) stays, though "`message.removed` clears all FTS rows".
  The clear is not even scheduled when the clean-up before it throws
  (`event-handler.ts:843`); the model schedules it and lets it fail, which leaves the
  same behind.
  Two processes that overlap may write back a floor read before the other's mark,
  or clear one noted meanwhile, or lift a watermark that was just cleared; the lock
  that forbids it (`message-index-async.ts:63`) is one per process. One process is
  enough for the next: a failed write leaves the floor at its ordinal, a second write
  behind it fails too, and then a revision of the first message succeeds. It clears
  the floor since it was its own (`message-index.ts:527`), and the reconciliation
  that was to rebuild the second message finds nothing to do; `LeftBehind` notes it. A crash forgets
  revisions of covered messages whose timer had not fired.

## Proofs

`CompartmentRuns_proofs` begins with the facts about tables and goes on with
theorems for every value of the constants that satisfies the assumptions
`MaxMsgAssumption`, `MaxCellsAssumption`, `IdAssumption` (ids of different kinds
differ) and `TtlAssumption`.

* `TypeCorrect`: `Spec => []TypeOK`. `TypeInv` is `TypeOK` with the set of all
  tables for the candidates; it is inductive. It carries that only rebuilds are at
  a rebuild's steps and that a window is not empty.
* `NothingIsLost`: `Spec => NoLostUpdate`. `NoLostUpdate` is about one step, but
  what a run publishes was computed long before. The inductive part is `SnapInv`:
  a run that holds the lease and is still to write either has a current snapshot,
  or the sequence number it means to use is taken, and then its INSERT fails on
  the UNIQUE key. The second disjunct is needed because `persistFilteredNoise`
  writes without looking at the lease, and the argument is that its row takes
  exactly the number a current snapshot means to use. A rebuild cannot invalidate
  the snapshot of a lease holder because `Promote` checks the lease.
* `WrapupIsAlone`: `Spec => []WrapupExcludesOthers`. Inductive with the types: a
  run gets past its second check only when no marker is live, a marker is renewed
  only by its live owner, and a marker id is not reused while a run remembers it.

* `HistoryHasNoHoles` and `HistoryImplemented`: `Spec /\ []RebuildsAlone` implies
  `[]HistoryContiguous` and `HistorySpec`, the abstract `CompartmentHistory`.
  `RebuildsAlone` says that no two rebuilds are at steps that write the staging
  table; without it both are false (`mixed_staging`). A rebuild may still lose its
  lease, crash and be resumed by another. `HistInv` has the history as a numbered
  cover of a prefix; `StagedInv` says the same of the staging table and of what a
  rebuild has in hand, and that the staged rows are the first of those in hand
  while it writes them. `Promote` then maps to `Rebuild`; the publication of a run
  and `persistFilteredNoise` map to `Publish`, by `SnapInv` for the former; the rest
  are stutters.
* `LeaseIsExclusive` and `LeaseKeepsHistory`: what the lease is worth. `InTime(S)` says
  that while a run of `S` works the row is not expired: runs end, or renew, in time.
  If all runs do, `OneWorks`: one run of any kind works on the session, in all
  processes, whatever crashes and whichever release fails. If the rebuilds do,
  `RebuildsAlone` follows, and with it the two theorems above; historian runs and
  wrapups may then lose their leases. So `mixed_staging` needs a rebuild that works
  longer than its lease. `HasLease(S)` is the inductive part: a run of `S` at work is
  the row's holder.
* `OneRunEach`: `Spec => []OneRunPerProcess`, which rests on no lease, only on the
  process's own map of active runs. `HomeInv` says that a run past its first check is
  the one in the map, or is in the synchronous stretch before it enters itself, while
  the map is empty and no other run of the process is in such a stretch.

The second half of `CompartmentRuns_proofs` is about `PartialRecomp`, as an instance
over the same `rows` and `staging`, for any number of messages, runs of either kind,
crashes and lost leases.

* `RebuildTypes`: `Partial!Spec => []TypeOK`. It rests on lemmas about `Renumber`,
  `Part` and the first and last touched row: what they make of a table is a table,
  and renumbering rows without a hole shifts them.
* `RebuildsImplementHistory` and `SnapsOutward`: `Partial!Spec /\ []RebuildsInTurn`
  implies `HistorySpec` and `[]SnapIsTightest`. `RebuildsInTurn` says that at most one
  rebuild, of either kind, is between its reading of the staging table and its
  promotion; `mixed_staging` shows two that are not. `WorkInv` has what is
  staged and what a run has in hand numbered from 0, the former the beginning of the
  latter until both are a cover. It need not be a cover before: a rebuild that resumes
  what another kind staged may find a gap, and then it is the check before the
  promotion that counts. In a cover the rows are ordered and leave no message out,
  and so first and last touched row bound what a range touches.
* `OutsideStays`: with `[]NoFullRebuild` too, `[][OutsideKept]_vars`. `KeepInv` says of
  every run at work that its snap is still the first rows of the session, split in
  three; and of its rows, and of the staged rows under their marker, that those which
  end before the range are the session's own. It survives a crash between the seeding
  and the marker because a table without a marker is not resumed, and the resumption
  of a stranger's rows because the marker must name the very range. `MergedRows` then
  takes a merged table apart: prior, built and tail. Full rebuilds are left out because
  one that stages its passes under a marker left behind makes rows that the next
  rebuild of that range takes for its own; then only the refinement holds.
* `LeaseTakesTurns`: when `MayLoseLease` is false, `Partial!Spec => []RebuildsInTurn`:
  whoever is not idle has the lease (`HolderWorks`). So the three theorems above need no
  condition where no rebuild outlives its lease, whatever crashes.

`DrainBudget_proofs`, from the assumptions on the cap, the budgets and the ages:
`DrainTypes`, `NothingForgotten`, `BudgetIsKept`, `ExactCount` and `BackoffIsKept`.
The inductive part is `Books`: what is reserved in the window is accounted for by the
runs that still hold a reservation, or was given up; and `Alone`: while no lease was
lost, only the holder of the lease has one. A rollback after a new window was started
takes off what was never put on, at most `late`. For the backoff it is `Remembers`:
while the clock was not set back, the failure on record is no older than the time
since the last failed call without a publication, up to the backoff, where both stop
being told apart; a run past the budget has read it in the statement that reserves.

`Channel2Nudge_proofs`, for any number of processes and attempts: `NudgeTypes`,
`OneNudgePerCycle`, `SendersAreAlone`, and `CycleImplemented`, the refinement of
`NudgeCycle` (with `ConsumedWasHeard`, its state form). The inductive part
says of each step of an attempt what its claim, or having lost it, implies for the
row and for the sends that stand: a token is compared before every change, and a
claim that was reaped belongs to nobody who still has the token. For the refinement,
`Unheard` says that an attempt which may still put its intent back has not had its
message taken.

`DreamScheduler_proofs`, for any number of runs and tasks: `TypeCorrect`,
`WritesAreFresh`, `DisabledStaysOff`, `SlotsUseTries`. `Inv` is `TypeOK`, `OffIsNeverDue` and what
makes `ReadIsFresh` inductive: a run whose generation is current has held the
lease since it read. `SlotsUseTries` is the safety half of `SlotLeaves`, without
fairness: a slot that stays due under one schedule has one more try counted by every
write, and the tries are bounded.

`MessageIndex_proofs`, for any number of processes, messages and pages:
`IndexTypes`, `FoundAtMostOnce`, `SettledIndexIsExact`. The first invariant, `Inv`, is about places: as long as nothing
was removed, a message's ordinal is its own for the host, for every process that
has read it and for every page that is under way, and a document's source row says
where the document is. So a write that replaces a document finds it through the
source row, and a page that meets a document keeps it; neither needs the other
processes to stand still.

`SettledIndexIsExact` is about the end, when nothing is queued, timed or under way, so
its invariant says of every operation on the way what it still owes. `Agrees` adds to
`Inv`: what is remembered of a message is no newer than its last revision (`AllDated`),
and, unless a clear is to come or `broken` (`Calm`), the `Promise`. There each message
of the session has its right document, or is noted or not finished, or lies behind the
watermark or the floor while some process has a reconciliation to come that reaches it
(`Safe`); or a process still waits to index it, and then neither the source table nor a
process takes its last revision for done (`Awaited`, `Known`). The floor counts only if
no write under way puts back one that is higher (`Holds`). What an operation has read,
its ordinal, the watermark, the floor, its page, is still so (`UpToDate`), which is
where two processes must not overlap. When all is done nobody owes or awaits anything,
and what is left of `Safe` is the theorem.

`CompactionMarker_proofs`, for any number of processes, messages and faults:
`MarkerTypes` and, for rebuilds that reach as far as the compartments did
(`MayShrink = FALSE`), `NothingHidden`, `TargetIsHonoured` and, with one failure at
most, `MissingIsRetried`. Without the first
assumption `HiddenIsDelivered` is false (`marker_shrunk`). With it, what is
delivered only grows, and `MarkerInv` says that nothing is ahead of it: no marker,
no promoted rebuild, no target of a change under way, no pass that has rendered.
`Covering` adds that who is to move the marker for a rebuild moves it as far as the
noted target, because a publication cannot come between a promotion and its marker
update. Neither argument needs changes of the marker to exclude each other.

`MissingIsRetried` does: it assumes that at most one crash, failed statement or overlap
happens in a behaviour (`MaxFaults <= 1`). `MissingHasRetry` is false with two, a crash
between the removal of a marker and the end of a host compaction, and then a removal
that fails at the restart: the code forgets the marker at the next start only. `Repaired`
says who makes up for a marker that is on record and gone. Before the first failure
(`Calm`) it is the one change under way. After an overlap (`Sound`) it is one of at
most two, and the marker that one of them has injected is not removed by the other:
what a change removes is what was on record when it started, and a change
only starts for a later target. After a crash or a failure (`Hurt`) it is a target still noted, or a
promoted rebuild, that lies beyond the marker on record; a change gives such a target up only
when the marker reaches it, when it is not the end of a compartment, or when a rebuild
is to move the marker as far.

`Tagger_proofs`, for any number of processes, contents, orphans and failures:
`TaggerTypes`, `ShownNumberIsRow`, `RetiredStaysRetired`, `PrefixStays`. `TaggerInv` speaks of one
process record at a time. `Holds`: what its map and its row in hand say is so for
every content the session has or may still get; it survives the writes of others
because the row of such a content is never taken away, and an orphan is adopted by
a statement that asks whether it still is one. `Recalls`: its counter is past the
number of every row removed before its load, or `gone` has the number; the stored
counter is needed for this, since the removed row is no longer in the table. The
prefix needs `Steady` as well: a content has one row unless it was raced for, because
whoever inserts a second one had looked before the first was there (`Searching`),
tool calls are kept from it by their index, which also refuses an adoption when the
owner has a row; and who inserts has never shown a number with the content, since its lookup
would have found the row.

`DropQueue_proofs`, for any number of processes, contents and failures: `DropTypes`,
`FormsAreKept` and `RequestsAreKept`. `DropInv` ties three things together for every content that is
not spoiled: the form it was last sent in, the form each pass under way would send
it in if it ended now (`Final`), and what its row says. So what a pass sends
reduced is what every later one that comes to it replays (`Loaded`, `Flushed`: what a
failed walk or replay leaves out is not in `have`, and no pass is held to it); a request is applied only to contents that
are still active, which nobody has sent or is about to send reduced
(`ActiveIsWhole`), and the two steps that go by what was read before, a clean-up and
a transaction that fails, note what they spoil. `RequestsAreKept` is the safety half of
`RequestIsServed`: a request leaves the queue only when its content is dropped or
compacted, and stays so. It needs `HiddenRetired`, since what the host has compacted
away is no longer looked at.

Only model-checked: the liveness properties (`WrapupEnds`, `IntentServed`, `TargetDrained`,
`NotStarved`, `NudgeArrives`, `SlotLeaves`, `SlotServed`, `EverythingIsShown`,
`EveryMessageIsIndexed`, `RequestIsServed`), which are out of the prover's reach. The
types of `DrainBudget` and `DreamScheduler` are theorems and no run checks them. `HistoryContiguous`
is false with two rebuilds (`mixed_staging`), `RebuildsFromSource` with one failed
write (`index_stale`).

## Not modelled

Text: prompts, parsing of model output, rendering, token counts. The
historian's repair and fallback attempts are part of one model call. Events,
memory facts and user observations that a publication also stores are in the
same transaction as the compartments and have no effect on who may write. A
failed `set` of the intent flag (SQLITE_BUSY) is treated like a failed pass.

Of the tagger: rows of messages that are only white space, the ordinal fallback for
parts the host renamed, token counts, the adoption of tags in Pi. Of the index:
the backfill of the map for documents of old versions, messages without text, the
deletion of a session, the snapshot Pi reads in place of pages, and
`ensureMessagesIndexed`, which nothing calls. Of the dreamer: the watermarks some
tasks keep in their rows, and what the tasks ask and write.

Of the drop queue: the clearing of the queue when compaction is switched off, the
compression of old texts, tags that the tagger merges, and the queue of the Rust
engine.

Most of the repository is outside the model: the transform pass and the rendering
of the prefix, the Rust engine, the Pi plugin (a second host of the same shared
tables), the dashboard, the CLI and the migrations. The parts marked
`not_modelled` in `PROJECT.json` have their reason there.
