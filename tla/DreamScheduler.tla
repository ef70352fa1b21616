---------------------------- MODULE DreamScheduler ----------------------------
(***************************************************************************)
(* The dreamer: background tasks of one conflict domain of one project.    *)
(* The timers and the /ctx-dream commands of all the processes that have   *)
(* the project open plan the due tasks from rows they share, and run them  *)
(* one after the other under a keyed lease with a generation.  While the   *)
(* model works a heartbeat renews the lease; what the model found is       *)
(* written under a guard; the row of the task is then written without one. *)
(*                                                                         *)
(* Each run draws a fresh holder id.  A run that dies or cannot release    *)
(* leaves an id nobody compares with again: Gone.                          *)
(***************************************************************************)
EXTENDS Integers, FiniteSets

CONSTANTS Run,          \* runs of the scheduler, one per process at a time
          Tasks,        \* number of tasks; their order is the canonical one
          Cron,         \* cron expressions
          Off,          \* the empty schedule of a disabled task
          Absent,       \* the task has no row yet
          Legacy,       \* the row is older than its schedule column
          Nobody, Gone, \* no holder; a holder that is no more
          MaxRetries,   \* MAX_TASK_RETRIES
          MaxFaults,    \* bound: crashes, stalls, statements that throw
          MaxRequests   \* bound: /ctx-dream commands and changes of a config

Ttl == 2                \* LEASE_DURATION_MS in ticks; the heartbeat beats every tick
Task == 1..Tasks
Schedule == Cron \cup {Off}

ASSUME IdAssumption ==
  /\ Off \notin Cron /\ {Absent, Legacy} \cap Schedule = {} /\ Absent # Legacy
  /\ {Nobody, Gone} \cap Run = {} /\ Nobody # Gone
ASSUME BoundAssumption ==
  Tasks \in Nat /\ MaxRetries \in Nat /\ MaxFaults \in Nat /\ MaxRequests \in Nat

VARIABLES
  lease,     \* holder and time left of the lease rows
  row,       \* task_schedule_state: next_due_at, schedule and retry_count
  work,      \* does the gate of the task find anything to do?
  config,    \* the task configurations of each process
  run,       \* the runs
  faults, requests

vars == <<lease, row, work, config, run, faults, requests>>
bounds == <<faults, requests>>

\* next_due_at is NULL, in the future, or has come.
Due == {"off", "ahead", "due"}
Pc == {"idle", "acquire", "group", "setup", "work", "checking", "retaking",
       "finish", "release"}
Outcome == {"none", "completed", "transient", "permanent"}

\* age: time since the heartbeat's last confirmation, while it beats; current: is the lease's generation still the run's?
\* overtaken, a history variable: has another run written since this one read?
IdleRun == [pc |-> "idle", forced |-> FALSE, todo |-> {},
            task |-> 0, out |-> "none", age |-> 0,
            current |-> FALSE, lost |-> FALSE, overtaken |-> FALSE]

At(r, pc) == run[r].pc = pc
Beating(r) == run[r].pc \in {"work", "checking", "retaking"}
Executing(r, t) == run[r].task = t /\ (At(r, "setup") \/ Beating(r))
Ends(r) == run' = [run EXCEPT ![r] = IdleRun]
IsFirst(t, S) == t \in S /\ \A u \in S : t <= u

-----------------------------------------------------------------------------
(* The lease. *)

Active == lease.left > 0
\* peekLeaseHolderAndExpiry still accepts the last instant.
Owns(r) == lease.holder = r /\ lease.left >= 0
OwnershipMatches(r) == run[r].current /\ Owns(r)

\* Mutants: an expired lease is not taken over; taking one leaves the generation.
FreeIfReleased(r) == lease.holder \in {r, Nobody}
KeepsAnyGeneration(r) == r \in Run

Free(r) == ~Active \/ lease.holder \in {r, Nobody}
TakeLease(r) == lease' = [holder |-> r, left |-> Ttl]
\* A holder that takes its own lease again keeps the generation.
KeepsGeneration(r) == lease.holder = r
StillCurrent(q, r) == run[q].current /\ KeepsGeneration(r)

-----------------------------------------------------------------------------
(* The rows of the tasks. *)

NextDue(s) == IF s = Off THEN "off" ELSE "ahead"

\* ensureSeeded, then the configuration wins over what is stored.
Reconciled(t, s) ==
  CASE row[t].schedule = s -> row[t]
    [] row[t].schedule # s /\ s = Off -> [row[t] EXCEPT !.due = "off", !.schedule = Off]
    [] row[t].schedule = Legacy /\ s # Off /\ row[t].due # "off" ->
         [row[t] EXCEPT !.schedule = s]
    [] OTHER -> [due |-> NextDue(s), schedule |-> s, retries |-> 0]

Advanced(s) == [due |-> NextDue(s), schedule |-> s, retries |-> 0]

\* Mutants of AfterTransient: a failed disabled task comes due; no cap.
AfterTransientAnyway(t, s) ==
  IF row[t].retries + 1 > MaxRetries THEN Advanced(s)
  ELSE [due |-> "due", schedule |-> s, retries |-> row[t].retries + 1]
AfterTransientForEver(t, s) ==
  [due |-> IF s = Off THEN "off" ELSE "due", schedule |-> s, retries |-> row[t].retries]

\* A disabled task stays off; a row without a date gets the slot of the run.
AfterTransient(t, s) ==
  IF row[t].retries + 1 > MaxRetries
  THEN Advanced(s)
  ELSE [due |-> IF s = Off THEN "off" ELSE IF row[t].due = "off" THEN "due" ELSE row[t].due,
        schedule |-> s,
        retries |-> row[t].retries + 1]

AfterRun(t, s, out) == IF out = "transient" THEN AfterTransient(t, s) ELSE Advanced(s)

-----------------------------------------------------------------------------
TypeOK ==
  /\ lease \in [holder : Run \cup {Nobody, Gone}, left : -1..Ttl]
  /\ row \in [Task -> [due : Due, schedule : Schedule \cup {Absent, Legacy},
                       retries : 0..MaxRetries]]
  /\ work \in [Task -> BOOLEAN]
  /\ config \in [Run -> [Task -> Schedule]]
  /\ run \in [Run -> [pc : Pc, forced : BOOLEAN,
                      todo : SUBSET Task, task : Task \cup {0}, out : Outcome,
                      age : 0..Ttl + 1, current : BOOLEAN,
                      lost : BOOLEAN, overtaken : BOOLEAN]]
  /\ faults \in 0..MaxFaults /\ requests \in 0..MaxRequests

\* All the processes start with the same configuration.
Init ==
  /\ lease = [holder |-> Nobody, left |-> -1]
  /\ row \in [Task -> [due : Due, schedule : {Absent, Legacy}, retries : {0}]]
  /\ \A t \in Task : row[t].schedule = Absent => row[t].due = "off"
  /\ work = [t \in Task |-> FALSE]
  /\ config \in {[r \in Run |-> c] : c \in [Task -> Schedule]}
  /\ run = [r \in Run |-> IdleRun]
  /\ faults = 0 /\ requests = 0

-----------------------------------------------------------------------------
(* Planning. *)

\* A tick of the timer: reconcile every row, take what is due, and move on
\* what has no work, lease or not.
Plan(r) ==
  LET rec == [t \in Task |-> Reconciled(t, config[r][t])]
      due == {t \in Task : rec[t].due = "due"}
      todo == {t \in due : work[t]}
  IN /\ At(r, "idle")
     /\ row' = [t \in Task |-> IF t \in due \ todo THEN Advanced(config[r][t]) ELSE rec[t]]
     /\ run' = IF todo = {} THEN run
               ELSE [run EXCEPT ![r].pc = "acquire", ![r].todo = todo]
     /\ UNCHANGED <<lease, work, config, bounds>>

Seeded(t, s) == IF row[t].schedule = Absent THEN Advanced(s) ELSE row[t]

\* /ctx-dream: all enabled tasks that have work, or one task come what may.
Manual(r) ==
  /\ At(r, "idle") /\ requests < MaxRequests
  /\ \E S \in {{t} : t \in Task} \cup {{t \in Task : config[r][t] # Off}}, forced \in BOOLEAN :
       LET todo == IF forced THEN S ELSE {t \in S : work[t]}
       IN /\ IF forced THEN Cardinality(S) = 1 ELSE S = {t \in Task : config[r][t] # Off}
          /\ row' = [t \in Task |-> IF t \in S THEN Seeded(t, config[r][t]) ELSE row[t]]
          /\ run' = IF todo = {} THEN run
                    ELSE [run EXCEPT ![r] = [IdleRun EXCEPT !.pc = "acquire", !.todo = todo,
                                                            !.forced = forced]]
  /\ requests' = requests + 1
  /\ UNCHANGED <<lease, work, config, faults>>

-----------------------------------------------------------------------------
(* A group of tasks under the lease. *)

Acquire(r) ==
  /\ At(r, "acquire") /\ Free(r)
  /\ TakeLease(r)
  /\ run' = [q \in Run |-> [run[q] EXCEPT
               !.current = q = r \/ StillCurrent(q, r),
               !.pc = IF q = r THEN "group" ELSE @]]
  /\ UNCHANGED <<row, work, config, bounds>>

\* A manual run polls for a minute, a scheduled one leaves it to the next tick.
Busy(r) ==
  /\ At(r, "acquire") /\ ~Free(r)
  /\ Ends(r)
  /\ UNCHANGED <<lease, row, work, config, bounds>>

\* The lease is gone: the rest of the group is left as it is.
Break(r) ==
  /\ At(r, "group") /\ run[r].todo # {} /\ ~OwnershipMatches(r)
  /\ run' = [run EXCEPT ![r].pc = "release"]
  /\ UNCHANGED <<lease, row, work, config, bounds>>

GatePasses(r, t) == run[r].forced \/ work[t]

Skip(r) ==
  /\ At(r, "group") /\ OwnershipMatches(r)
  /\ \E t \in Task :
       /\ IsFirst(t, run[r].todo) /\ ~GatePasses(r, t)
       /\ row' = [row EXCEPT ![t] = Advanced(config[r][t])]
       /\ run' = [run EXCEPT ![r].todo = @ \ {t}]
  /\ UNCHANGED <<lease, work, config, bounds>>

StartTask(r) ==
  /\ At(r, "group") /\ OwnershipMatches(r)
  /\ \E t \in Task :
       /\ IsFirst(t, run[r].todo) /\ GatePasses(r, t)
       /\ run' = [run EXCEPT ![r].pc = "setup", ![r].task = t, ![r].todo = @ \ {t}]
  /\ UNCHANGED <<lease, row, work, config, bounds>>

\* The executor has awaited the parent session and the module's route; it
\* checks the lease, reads the pool and starts the heartbeat, which beats once.
\* Its first confirmation is the acquisition: at the last instant of the lease
\* that is one lease period ago, or more if an earlier task has renewed it.
Setup(r) ==
  /\ At(r, "setup")
  /\ \/ /\ OwnershipMatches(r) /\ Active
        /\ lease' = [lease EXCEPT !.left = Ttl]
        /\ run' = [run EXCEPT ![r].pc = "work", ![r].age = 0, ![r].overtaken = FALSE]
     \/ /\ OwnershipMatches(r) /\ ~Active
        /\ \E a \in {Ttl, Ttl + 1} :
             run' = [run EXCEPT ![r].pc = "checking", ![r].age = a, ![r].overtaken = FALSE]
        /\ UNCHANGED lease
     \/ /\ ~OwnershipMatches(r)
        /\ run' = [run EXCEPT ![r].pc = "finish", ![r].out = "transient"]
        /\ UNCHANGED lease
  /\ UNCHANGED <<row, work, config, bounds>>

-----------------------------------------------------------------------------
(* The heartbeat of a run: renew, else look at the generation, else retake. *)

Renewable(r) == lease.holder = r /\ Active /\ run[r].current

Renew(r) ==
  /\ At(r, "work") /\ ~run[r].lost
  /\ IF Renewable(r)
     THEN /\ lease' = [lease EXCEPT !.left = Ttl]
          /\ run' = [run EXCEPT ![r].age = 0]
     ELSE /\ run' = [run EXCEPT ![r].pc = "checking"]
          /\ UNCHANGED lease
  /\ UNCHANGED <<row, work, config, bounds>>

Lapsed(r) == run[r].age > Ttl
DeclareLost(r) == run' = [run EXCEPT ![r].pc = "work", ![r].lost = TRUE, ![r].age = 0]

CheckGeneration(r) ==
  /\ At(r, "checking")
  /\ IF ~run[r].current \/ Lapsed(r)
     THEN DeclareLost(r)
     ELSE run' = [run EXCEPT ![r].pc = "retaking"]
  /\ UNCHANGED <<lease, row, work, config, bounds>>

Retake(r) ==
  /\ At(r, "retaking")
  /\ IF ~Free(r)
     THEN DeclareLost(r) /\ UNCHANGED lease
     ELSE /\ TakeLease(r)
          /\ run' = [q \in Run |-> [run[q] EXCEPT
               !.current = StillCurrent(q, r),
               !.pc = IF q = r THEN "work" ELSE @,
               !.age = IF q = r THEN 0 ELSE @,
               !.lost = IF q = r THEN ~StillCurrent(r, r) ELSE @]]
  /\ UNCHANGED <<row, work, config, bounds>>

-----------------------------------------------------------------------------
(* The task ends, and the group. *)

\* A guarded write of what the model found: all of it, or not all.  It asks for
\* the holder and the expiry, not for the generation, nor whether the heartbeat
\* has given up.
GuardedWrite(r) ==
  /\ At(r, "work") /\ Owns(r)
  /\ \E out \in {"completed", "transient"} :
       /\ work' = IF out = "completed" THEN [work EXCEPT ![run[r].task] = FALSE] ELSE work
       /\ run' = [q \in Run |-> [run[q] EXCEPT
                    !.overtaken = @ \/ q # r,
                    !.pc = IF q = r THEN "finish" ELSE @,
                    !.out = IF q = r THEN out ELSE @]]
  /\ UNCHANGED <<lease, row, config, bounds>>

\* The model fails, is aborted, runs out of time, or the guard throws.
Fail(r) ==
  /\ At(r, "work")
  /\ \E out \in {"transient", "permanent"} :
       run' = [run EXCEPT ![r].pc = "finish", ![r].out = out]
  /\ UNCHANGED <<lease, row, work, config, bounds>>

\* advanceAfterRun or recordTransientFailure, whoever holds the lease by now.
Finish(r) ==
  LET t == run[r].task
  IN /\ At(r, "finish")
     /\ row' = [row EXCEPT ![t] = AfterRun(t, config[r][t], run[r].out)]
     /\ run' = [run EXCEPT ![r].pc = "group", ![r].task = 0, ![r].out = "none",
                           ![r].age = 0, ![r].lost = FALSE, ![r].overtaken = FALSE]
     /\ UNCHANGED <<lease, work, config, bounds>>

Release(r) ==
  /\ At(r, "release") \/ (At(r, "group") /\ run[r].todo = {})
  /\ lease' = IF lease.holder = r THEN [holder |-> Nobody, left |-> -1] ELSE lease
  /\ Ends(r)
  /\ UNCHANGED <<row, work, config, bounds>>

-----------------------------------------------------------------------------
(* Time, faults, and the outside. *)

Older(a) == IF a > Ttl THEN a ELSE a + 1

Passes ==
  /\ lease' = [lease EXCEPT !.left = IF @ < 0 THEN @ ELSE @ - 1]
  /\ run' = [r \in Run |-> [run[r] EXCEPT
               !.age = IF Beating(r) /\ ~run[r].lost THEN Older(@) ELSE @]]
  /\ UNCHANGED <<row, work, config, requests>>

\* What runs without an await takes no time, and the heartbeat keeps up.
Prompt(r) ==
  \/ run[r].pc \in {"idle", "acquire", "setup"}
  \/ At(r, "work") /\ (run[r].lost \/ run[r].age = 0)

Tick == (\A r \in Run : Prompt(r)) /\ Passes /\ UNCHANGED faults
Stall == (\E r \in Run : ~Prompt(r)) /\ faults < MaxFaults /\ Passes /\ faults' = faults + 1

Abandoned(r) == lease' = [lease EXCEPT !.holder = IF @ = r THEN Gone ELSE @]

\* The process dies.
Crash(r) ==
  /\ ~At(r, "idle") /\ faults < MaxFaults
  /\ Abandoned(r) /\ Ends(r)
  /\ faults' = faults + 1
  /\ UNCHANGED <<row, work, config, requests>>

\* A statement of the heartbeat throws and the next beat tries again; a
\* statement of the group throws and the run ends, its lease released.
Throw(r) ==
  /\ faults < MaxFaults /\ faults' = faults + 1
  /\ \/ /\ Beating(r) /\ ~run[r].lost
        /\ run' = [run EXCEPT ![r].pc = "work", ![r].lost = Lapsed(r),
                              ![r].age = IF Lapsed(r) THEN 0 ELSE @]
     \/ /\ run[r].pc \in {"group", "finish"}
        /\ run' = [run EXCEPT ![r].pc = "release"]
  /\ UNCHANGED <<lease, row, work, config, requests>>

\* releaseLease throws: the rows stay, and nobody is left to renew them.
ReleaseThrows(r) ==
  /\ At(r, "release") \/ (At(r, "group") /\ run[r].todo = {})
  /\ faults < MaxFaults /\ faults' = faults + 1
  /\ Abandoned(r) /\ Ends(r)
  /\ UNCHANGED <<row, work, config, requests>>

\* The slot of the stored cron expression arrives.
SlotArrives(t) ==
  /\ row[t].due = "ahead"
  /\ row' = [row EXCEPT ![t].due = "due"]
  /\ UNCHANGED <<lease, work, config, run, bounds>>

WorkArrives(t) ==
  /\ work' = [work EXCEPT ![t] = TRUE]
  /\ UNCHANGED <<lease, row, config, run, bounds>>

\* A process comes back with another configuration.
Edit(r) ==
  /\ At(r, "idle") /\ requests < MaxRequests
  /\ \E t \in Task, s \in Schedule : config' = [config EXCEPT ![r][t] = s]
  /\ requests' = requests + 1
  /\ UNCHANGED <<lease, row, work, run, faults>>

Step(r) ==
  \/ Acquire(r) \/ Busy(r) \/ Break(r) \/ Skip(r) \/ StartTask(r) \/ Setup(r)
  \/ CheckGeneration(r) \/ Retake(r) \/ Finish(r) \/ Release(r)
Settle(r) == GuardedWrite(r) \/ Fail(r)

Next ==
  \/ \E r \in Run : Plan(r) \/ Manual(r) \/ Step(r) \/ Renew(r) \/ Settle(r)
                    \/ Crash(r) \/ Throw(r) \/ ReleaseThrows(r) \/ Edit(r)
  \/ \E t \in Task : SlotArrives(t) \/ WorkArrives(t)
  \/ Tick \/ Stall

\* Timers tick, code that has begun goes on, a model call has a deadline, a
\* cron expression has a next date, and time passes.
Fairness ==
  /\ \A r \in Run : /\ SF_vars(Plan(r)) /\ WF_vars(Step(r))
                    /\ WF_vars(Renew(r)) /\ SF_vars(Settle(r))
  /\ \A t \in Task : WF_vars(SlotArrives(t))
  /\ WF_vars(Tick)

Spec == Init /\ [][Next]_vars /\ Fairness

-----------------------------------------------------------------------------
(* What should hold. *)

\* What a run may write was read when it started the task, and no other run has
\* written since, as long as its heartbeat has not declared the lease lost:
\* runLeaseGuardedWrite asks for the holder only, and it is the generation that
\* tells a lease kept from one lost and taken again.
ReadIsFresh ==
  \A r \in Run : At(r, "work") /\ Owns(r) /\ ~run[r].lost => ~run[r].overtaken

\* A row whose schedule is the empty one never comes due, be it after a forced
\* run of a disabled task that failed, or a late write of a run that was planned
\* while the task was enabled.
OffIsNeverDue == \A t \in Task : row[t].schedule = Off => row[t].due = "off"

\* A slot is let go in the end, however often the task fails and whoever runs
\* it: the retry cap keeps a failing task from trying for ever.
SlotLeaves == \A t \in Task : row[t].due = "due" ~> row[t].due # "due"

\* A slot that has come with work to do is run, if all processes agree on the
\* schedule: a busy lease, a lease left by the dead and a lost one only delay.
Agreed(t) == \E s \in Cron : \A r \in Run : config[r][t] = s
SlotServed ==
  \A t \in Task : (row[t].due = "due" /\ work[t] /\ Agreed(t))
                    ~> (~work[t] \/ ~Agreed(t) \/ \E r \in Run : Executing(r, t))
=============================================================================
