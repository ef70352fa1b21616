----------------------------- MODULE DrainBudget -----------------------------
(***************************************************************************)
(* How much of the protected tail the historian may drain in ten minutes:  *)
(* a window, the tokens reserved in it, an emergency latch that lets a run *)
(* past the budget, and a backoff that holds the latch back after a        *)
(* failure.  All four are columns of the session's row, shared by every    *)
(* process; a run reserves in one transaction and returns its reservation, *)
(* or lets it stand, minutes later in another.                             *)
(*                                                                         *)
(* A timestamp is modelled by its age, which stops growing where the code  *)
(* stops telling ages apart; a timestamp of 0, never, has one tick more.   *)
(* The clock may be set back: an age below 0 is a time in the future.      *)
(***************************************************************************)
EXTENDS Integers

CONSTANTS Run,         \* lease holder ids
          None,
          Cap,         \* perRunCap, in tokens
          Budgets,     \* what protectedTailWindowBudget may return
          Window,      \* DRAIN_WINDOW_MS, in ticks
          Backoff,     \* EMERGENCY_DRAIN_FAILURE_BACKOFF_MS
          MaxLatch,    \* EMERGENCY_DRAIN_MAX_LATCH_MS
          MaxKept,     \* bound: tokens out in one window, for the latch knows none
          MaxFaults    \* bound: crashes and times the clock is set back

ASSUME RunAssumption == None \notin Run
ASSUME CapAssumption == Cap \in Nat \ {0}
\* Every branch of protectedTailWindowBudget is at least the cap.
ASSUME BudgetAssumption == Budgets \subseteq Nat /\ \A b \in Budgets : b >= Cap
ASSUME TimeAssumption == Window \in Nat /\ Backoff \in Nat /\ MaxLatch \in Nat
ASSUME BoundAssumption == MaxKept \in Nat /\ MaxFaults \in Nat

VARIABLES
  lease,      \* holder of the compartment lease
  tokens,     \* protected_tail_drain_tokens
  windowAge,  \* age of protected_tail_drain_window_started_at
  latched,    \* emergency_drain_active > 0
  latchAge,   \*   and its age
  failAge,    \* age of historian_drain_failure_at
  run,
  kept,       \* history: reservations of this window that were not returned
  late,       \* history: returned in this window though made in an earlier one
  bypassed,   \* history: did a run of this window reserve past the budget?
  quiet,      \* history: time since a failed call with no publication after it
  lost,       \* history: has a live run lost its lease?
  setBacks, crashes

budget == <<tokens, windowAge, latched, latchAge, failAge>>
history == <<kept, late, bypassed, quiet, lost>>
bounds == <<setBacks, crashes>>
vars == <<lease, budget, run, history, bounds>>

Never(limit) == limit + 1
\* A tick later, and a tick earlier.
Older(age, limit) == IF age >= limit THEN age ELSE age + 1
Younger(age, limit) == IF age = Never(limit) THEN {age}
                       ELSE IF age = limit THEN {age, age - 1} ELSE {age - 1}

Smaller(a, b) == IF a <= b THEN a ELSE b
Larger(a, b) == IF a <= b THEN b ELSE a
\* The largest budget any pressure allows.
IsMaxBudget(m) == m \in Budgets /\ \A b \in Budgets : b <= m

\* n is what drainReservation holds, past whether it is beyond the budget
\* (overQuotaBypass), late whether a window was started since, retain is
\* retainDrainReservationForRetryThrottle.
RunPc == {"idle", "begun", "refused", "reserved", "calling", "answered", "ending"}
RunType == [pc : RunPc, n : 0..Cap, past : BOOLEAN, late : BOOLEAN, retain : BOOLEAN]
IdleRun == [pc |-> "idle", n |-> 0, past |-> FALSE, late |-> FALSE, retain |-> FALSE]
At(r, pc) == run[r].pc = pc
Goto(r, pc) == run' = [run EXCEPT ![r].pc = pc]

Init == /\ lease = None
        /\ tokens = 0 /\ windowAge = Never(Window)
        /\ latched = FALSE /\ latchAge = 0
        /\ failAge = Never(Backoff)
        /\ run = [r \in Run |-> IdleRun]
        /\ kept = 0 /\ late = 0 /\ bypassed = FALSE /\ quiet = Backoff /\ lost = FALSE
        /\ setBacks = 0 /\ crashes = 0

-----------------------------------------------------------------------------
(* reserveProtectedTailDrainTokens.                                        *)

\* The window is over, was never started, or starts in the future.
WindowExpired == windowAge < 0 \/ windowAge >= Window

\* Usage against the latch: at the force band, between it and the exit
\* threshold, or below that.
Usage == {"force", "hold", "exit"}
LatchAfter(u) == \/ u = "force"
                 \/ u = "hold" /\ latched /\ latchAge <= MaxLatch
InBackoff == failAge >= 0 /\ failAge < Backoff

\* Mutant of NewWindow: the tokens of the old window are kept.
NewWindowKeepsTokens == [tokens |-> tokens, age |-> 0, kept |-> 0, late |-> 0, by |-> FALSE]
NewWindow == [tokens |-> 0, age |-> 0, kept |-> 0, late |-> 0, by |-> FALSE]
OldWindow == [tokens |-> tokens, age |-> windowAge, kept |-> kept, late |-> late, by |-> bypassed]

\* Mutant of Within: what was spent is not subtracted.
WithinFresh(n, b, spent) == Smaller(Smaller(n, Cap), b)
\* What a run that asks for n gets: within the budget b, or past it.
Within(n, b, spent) == Smaller(Smaller(n, Cap), Larger(0, b - spent))
Past(n, u) == IF LatchAfter(u) /\ ~InBackoff THEN Smaller(n, Cap) ELSE 0

Got(w, u, b, n) ==
  LET within == Within(n, b, w.tokens)
  IN IF within > 0 THEN [n |-> within, past |-> FALSE]
     ELSE [n |-> Past(n, u), past |-> Past(n, u) > 0]

\* One transaction: window, latch, reservation.  trueRawEligibleTokens is 0
\* only when there is no eligible head.
Reserved(r, u, b, n) ==
  LET w == IF WindowExpired THEN NewWindow ELSE OldWindow
      got == Got(w, u, b, n)
  IN /\ w.kept + got.n <= MaxKept
     /\ tokens' = w.tokens + got.n
     /\ windowAge' = w.age
     /\ latched' = LatchAfter(u)
     /\ latchAge' = IF latched /\ LatchAfter(u) THEN latchAge ELSE 0
     /\ run' = [q \in Run |->
          IF q = r THEN [IdleRun EXCEPT !.pc = IF got.n > 0 THEN "reserved" ELSE "refused",
                                        !.n = got.n, !.past = got.past]
          ELSE [run[q] EXCEPT !.late = run[q].late \/ (WindowExpired /\ run[q].n > 0)]]
     /\ kept' = w.kept + got.n
     /\ late' = w.late
     /\ bypassed' = (w.by \/ got.past)
Reserve(r) ==
  /\ At(r, "begun")
  /\ \E u \in Usage, b \in Budgets, n \in 1..(Cap + 1) : Reserved(r, u, b, n)
  /\ UNCHANGED <<lease, failAge, quiet, lost, bounds>>

-----------------------------------------------------------------------------
(* A historian run around it: runCompartmentAgent.                         *)

\* The lease is free, or the holder's has lapsed.
Begin(r) ==
  /\ run[r] = IdleRun
  /\ lease = None
  /\ lease' = r
  /\ Goto(r, "begun")
  /\ UNCHANGED <<budget, history, bounds>>

\* Nothing before the protected tail: the latch has done its job.  Or no
\* database, or a boundary that has drifted: the latch stays.
NothingToDrain(r) ==
  /\ At(r, "begun")
  /\ \/ latched' = FALSE /\ latchAge' = 0
     \/ UNCHANGED <<latched, latchAge>>
  /\ Goto(r, "ending")
  /\ UNCHANGED <<lease, tokens, windowAge, failAge, history, bounds>>

\* forceDrainQuota, a wrapup's run: it reserves nothing.
Forced(r) ==
  /\ At(r, "begun")
  /\ Goto(r, "reserved")
  /\ UNCHANGED <<lease, budget, history, bounds>>

\* Mutant of Rollback: it clears the count.
RollbackAll(r, pc) ==
  /\ tokens' = 0
  /\ run' = [run EXCEPT ![r].pc = pc, ![r].n = 0, ![r].past = FALSE, ![r].late = FALSE]
  /\ kept' = IF run[r].late THEN kept ELSE kept - run[r].n
  /\ late' = IF run[r].late THEN late + run[r].n ELSE late
  /\ UNCHANGED <<bypassed, quiet, lost>>
\* rollbackProtectedTailDrainReservation and drainReservation = null: the
\* statement does not know in which window the tokens were reserved.
Rollback(r, pc) ==
  /\ tokens' = Larger(0, tokens - run[r].n)
  /\ run' = [run EXCEPT ![r].pc = pc, ![r].n = 0, ![r].past = FALSE, ![r].late = FALSE]
  /\ kept' = IF run[r].late THEN kept ELSE kept - run[r].n
  /\ late' = IF run[r].late THEN late + run[r].n ELSE late
  /\ UNCHANGED <<bypassed, quiet, lost>>

\* The chunk is empty after filtering (which may clear the latch), is noise, or
\* does not cover what it should.
NoChunk(r) ==
  /\ At(r, "reserved")
  /\ Rollback(r, "ending")
  /\ \/ latched' = FALSE /\ latchAge' = 0
     \/ UNCHANGED <<latched, latchAge>>
  /\ UNCHANGED <<lease, windowAge, failAge, bounds>>

\* The chunk is too large for the model (retained), or session.get throws
\* before the first call (not).
NotCalled(r) ==
  /\ At(r, "reserved")
  /\ \E retain \in BOOLEAN : run' = [run EXCEPT ![r].pc = "ending", ![r].retain = retain]
  /\ UNCHANGED <<lease, budget, history, bounds>>

\* From here on an exception leaves the reservation in place.
Call(r) ==
  /\ At(r, "reserved")
  /\ run' = [run EXCEPT ![r].pc = "calling", ![r].retain = TRUE]
  /\ UNCHANGED <<lease, budget, history, bounds>>

\* An error, no output or invalid output.
CallFails(r) ==
  /\ At(r, "calling")
  /\ Goto(r, "ending")
  /\ UNCHANGED <<lease, budget, history, bounds>>

Answer(r) ==
  /\ At(r, "calling")
  /\ run' = [run EXCEPT ![r].pc = "answered", ![r].retain = FALSE]
  /\ UNCHANGED <<lease, budget, history, bounds>>

\* The answer makes no progress, or the lease or the snapshot is gone: the
\* reservation is returned, at once or by the finally block.
Unpublished(r) ==
  /\ At(r, "answered")
  /\ Goto(r, "ending")
  /\ UNCHANGED <<lease, budget, history, bounds>>

\* One transaction with the compartments.  The reservation becomes permanent,
\* in the run's memory even when COMMIT fails and the rest is rolled back.
Publish(r) ==
  /\ At(r, "answered") /\ lease = r
  /\ \/ failAge' = Never(Backoff) /\ quiet' = Backoff
     \/ UNCHANGED <<failAge, quiet>>
  /\ run' = [run EXCEPT ![r].pc = "ending", ![r].n = 0, ![r].past = FALSE, ![r].late = FALSE]
  /\ UNCHANGED <<lease, tokens, windowAge, latched, latchAge, kept, late, bypassed, lost, bounds>>

\* The finally block returns what is not retained, or notes the failure; then
\* the lease is released.
\* Mutant of Finish: a retained failure is not noted.
FinishUnnoted(r) ==
  /\ run[r].pc \in {"ending", "refused"}
  /\ IF run[r].retain
     THEN /\ quiet' = 0
          /\ run' = [run EXCEPT ![r] = IdleRun]
          /\ UNCHANGED <<budget, kept, late, bypassed, lost>>
     ELSE /\ Rollback(r, "idle")
          /\ UNCHANGED <<windowAge, latched, latchAge, failAge>>
  /\ lease' = IF lease = r THEN None ELSE lease
  /\ UNCHANGED bounds
Finish(r) ==
  /\ run[r].pc \in {"ending", "refused"}
  /\ IF run[r].retain
     THEN /\ failAge' = 0 /\ quiet' = 0
          /\ run' = [run EXCEPT ![r] = IdleRun]
          /\ UNCHANGED <<tokens, windowAge, latched, latchAge, kept, late, bypassed, lost>>
     ELSE /\ Rollback(r, "idle")
          /\ UNCHANGED <<windowAge, latched, latchAge, failAge>>
  /\ lease' = IF lease = r THEN None ELSE lease
  /\ UNCHANGED bounds

-----------------------------------------------------------------------------
(* Time, crashes, lapsed leases.                                           *)

Tick ==
  /\ windowAge' = Older(windowAge, Window)
  /\ latchAge' = IF latched THEN Older(latchAge, MaxLatch + 1) ELSE 0
  /\ failAge' = Older(failAge, Backoff)
  /\ quiet' = Older(quiet, Backoff)
  /\ UNCHANGED <<lease, tokens, latched, run, kept, late, bypassed, lost, bounds>>

\* By one tick; quiet is real time and goes on.
SetBack ==
  /\ setBacks + crashes < MaxFaults
  /\ setBacks' = setBacks + 1
  /\ windowAge' \in Younger(windowAge, Window)
  /\ latchAge' \in IF latched THEN Younger(latchAge, MaxLatch + 1) ELSE {0}
  /\ failAge' \in Younger(failAge, Backoff)
  /\ UNCHANGED <<lease, tokens, latched, run, history, crashes>>

\* The lease lapses: its holder died, or stalled.
Expire ==
  /\ lease # None
  /\ lost' = (lost \/ run[lease] # IdleRun)
  /\ lease' = None
  /\ UNCHANGED <<budget, run, kept, late, bypassed, quiet, bounds>>

\* A process dies; nobody returns its reservation.
Crash(r) ==
  /\ setBacks + crashes < MaxFaults
  /\ run[r] # IdleRun
  /\ crashes' = crashes + 1
  /\ run' = [run EXCEPT ![r] = IdleRun]
  /\ UNCHANGED <<lease, budget, history, setBacks>>

RunStep(r) == \/ Begin(r) \/ NothingToDrain(r) \/ Reserve(r) \/ Forced(r) \/ NoChunk(r)
              \/ NotCalled(r) \/ Call(r) \/ CallFails(r) \/ Answer(r) \/ Unpublished(r) \/ Publish(r)
              \/ Finish(r)
Next == \/ \E r \in Run : RunStep(r) \/ Crash(r)
        \/ Tick \/ SetBack \/ Expire

\* Time goes on, and a run that is over returns.
Spec == Init /\ [][Next]_vars /\ WF_vars(Tick) /\ \A r \in Run : WF_vars(Finish(r))

-----------------------------------------------------------------------------
(* Properties.                                                             *)

TypeOK ==
  /\ lease \in Run \cup {None}
  /\ tokens \in Nat
  /\ windowAge \in Int /\ windowAge <= Never(Window)
  /\ latched \in BOOLEAN /\ latchAge \in Int
  /\ failAge \in Int /\ failAge <= Never(Backoff)
  /\ run \in [Run -> RunType]
  /\ kept \in Int /\ late \in Nat
  /\ bypassed \in BOOLEAN /\ quiet \in 0..Backoff /\ lost \in BOOLEAN
  /\ setBacks \in Nat /\ crashes \in Nat /\ setBacks + crashes <= MaxFaults

\* The limiter forgets nothing: what runs reserved in this window and did not
\* return is on the books, less what runs of earlier windows returned to it by
\* mistake, through every failure, crash, retained reservation and failed COMMIT.
NotForgotten == kept - late <= tokens

\* As long as no live run loses its lease the count is exact: a reservation is
\* settled before anybody else can start a new window.
ExactUnderLease == ~lost => tokens = kept

\* "Internal drain budget": without the latch, what is out in a window is within
\* the largest budget of the window, plus what came back from earlier ones.
BudgetHolds ==
  ~bypassed => \A m \in Budgets : IsMaxBudget(m) => kept <= m + late

\* "So a broken historian backs off instead of retry-thrashing every pass under
\* the latch": after a failed call with no publication since, no run gets past
\* the budget for the length of the backoff, whichever process asks (unless the
\* clock was set back).
BackoffHolds ==
  [][ \A r \in Run : At(r, "begun") /\ run'[r].past /\ setBacks = 0 => quiet >= Backoff ]_vars

\* A session that keeps asking does not starve: if runs are refused again and
\* again, some are given a reservation again and again.
NotStarved == []<>(\E r \in Run : At(r, "refused")) => []<>(\E r \in Run : run[r].n > 0)
=============================================================================
