---------------------------- MODULE Channel2Nudge ----------------------------
(***************************************************************************)
(* The ceiling nudge: when too much of the tail could be reclaimed, a pass *)
(* notes an intent in the session's row, and a delivery attempt, started   *)
(* at a step boundary of any process, claims it with a token of its own,   *)
(* sends a message to the agent and marks the cycle as consumed.  A        *)
(* claim whose holder died or hangs is reaped after ten minutes by         *)
(* whoever opens the database.  A subagent's run that is over must not be  *)
(* woken up by a message.                                                  *)
(*                                                                         *)
(* A process sees the size of the pile through the measurement it keeps in *)
(* memory (view).  A send that throws has not been accepted by the host.   *)
(***************************************************************************)
EXTENDS Naturals, FiniteSets

CONSTANTS Proc,
          Rust,       \* the processes that serve the session in Rust mode
          Attempt,    \* delivery attempts, which are their own claim tokens
          None,
          Ttl,        \* CHANNEL2_CLAIM_TTL_MS, in ticks
          MaxFaults   \* bound: crashes, hangs, failed statements and sends, switches

ASSUME IdAssumption == Rust \subseteq Proc /\ None \notin Proc \cup Attempt
ASSUME BoundAssumption == Ttl \in Nat \ {0} /\ MaxFaults \in Nat

VARIABLES
  state,      \* channel2_nudge_state; "empty" is the empty string
  token,      \* channel2_nudge_claim_token
  age,        \* age of channel2_nudge_claimed_at
  view,       \* channel1StateBySession, channel2DirectiveTextBySession
  switching,  \* the process that is about to clear the row, compaction off
  run,        \* delivery attempts
  sub,        \* isSubagent
  active,     \* is the subagent's run not over?
  standing,   \* history: sends of this cycle that have not failed under a claim not reaped
  heard,      \* history: was the message of the last claim accepted?
  faults

row == <<state, token, age>>
host == <<sub, active>>
history == <<standing, heard>>
vars == <<row, view, switching, run, host, history, faults>>

States == {"empty", "pending", "claimed", "delivered"}
\* What the last measurement said: none; one that ctx_reduce has made stale;
\* below the floor that rearms; below the trigger; above it.  Or a directive of
\* the Rust module, which needs none.
Measured == {"collapsed", "low", "high"}
View == {"none", "reduced", "directive"} \cup Measured

\* The steps of maybeDeliverChannel2; it awaits at "resolving",
\* "sending" and, the message taken, "accepted".
AttemptPc == {"idle", "seen", "willing", "clearing", "claimed", "releasing",
              "resolving", "checking", "owner", "sending", "accepted", "failed"}
IdleAttempt == [pc |-> "idle", proc |-> None, overtaken |-> FALSE]
At(a, pc) == run[a].pc = pc
Goto(a, pc) == run' = [run EXCEPT ![a].pc = pc]
Ends(a) == run' = [run EXCEPT ![a] = IdleAttempt]

\* An event loop runs one synchronous stretch at a time.
Yielded(p) == /\ switching # p
              /\ \A a \in Attempt : run[a].proc = p =>
                   run[a].pc \in {"resolving", "sending", "accepted"}

Init == /\ state = "empty" /\ token = None /\ age = 0
        /\ view = [p \in Proc |-> "none"]
        /\ switching = None
        /\ run = [a \in Attempt |-> IdleAttempt]
        /\ sub \in BOOLEAN /\ active = TRUE
        /\ standing = 0 /\ heard = FALSE
        /\ faults = 0

-----------------------------------------------------------------------------
(* The row.                                                                *)

\* Mutant of Set: the token of the claim stays.
SetKeepsToken(s) == state' = s /\ token' = token /\ age' = 0
Set(s) == state' = s /\ token' = None /\ age' = 0
\* casChannel2NudgeState.
Cas(from, to) == IF state = from THEN Set(to) ELSE UNCHANGED row

Claim(a) == IF state = "pending"
            THEN state' = "claimed" /\ token' = a /\ age' = 0
            ELSE UNCHANGED row

Owns(a) == state = "claimed" /\ token = a
\* Mutant of CasClaim: any claim will do.
CasClaimOfAnybody(a, to) == IF state = "claimed" THEN Set(to) ELSE UNCHANGED row
\* casChannel2NudgeClaim.
CasClaim(a, to) == IF Owns(a) THEN Set(to) ELSE UNCHANGED row

\* The claim is taken from whoever holds it; from now on its holder may send
\* beside somebody else, if it is past its last look at the claim.
Reaped == run' = [a \in Attempt |->
                    IF token = a /\ run[a].pc \in {"owner", "sending", "accepted"}
                    THEN [run[a] EXCEPT !.overtaken = TRUE] ELSE run[a]]

-----------------------------------------------------------------------------
(* Passes of the transform.                                                *)

Rearm == /\ Cas("delivered", "empty")
         /\ standing' = IF state = "delivered" THEN 0 ELSE standing
         /\ UNCHANGED heard

\* A hard fold that advanced the coverage of the prefix.
Fold(p) ==
  /\ Yielded(p)
  /\ Rearm
  /\ UNCHANGED <<view, switching, run, host, faults>>

\* The tail is measured after the last mutation of a pass.
Measure(p) ==
  /\ p \notin Rust /\ Yielded(p)
  /\ \E v \in Measured \cup {"none"} :
       /\ view' = [view EXCEPT ![p] = v]
       /\ IF v = "collapsed" THEN Rearm ELSE UNCHANGED <<row, history>>
  /\ UNCHANGED <<switching, run, host, faults>>

\* The end of the pass; the measurement may be the one of an earlier pass.
Arm(p) ==
  /\ Yielded(p)
  /\ view[p] \in Measured
  /\ IF view[p] = "high" THEN Cas("empty", "pending") ELSE Cas("pending", "empty")
  /\ UNCHANGED <<view, switching, run, host, history, faults>>

\* The agent calls ctx_reduce.
Reduce(p) ==
  /\ Yielded(p)
  /\ view[p] \in Measured
  /\ view' = [view EXCEPT ![p] = "reduced"]
  /\ UNCHANGED <<row, switching, run, host, history, faults>>

\* A pass of the Rust module: with a directive, or for a synthetic turn.
RustPass(p) ==
  /\ p \in Rust /\ Yielded(p)
  /\ \/ Cas("empty", "pending") /\ view' = [view EXCEPT ![p] = "directive"]
     \/ Cas("pending", "empty") /\ view' = [view EXCEPT ![p] = "none"]
  /\ UNCHANGED <<switching, run, host, history, faults>>

\* Compaction is switched off: the state is read, then overwritten.
SwitchOff(p) ==
  /\ faults < MaxFaults
  /\ Yielded(p) /\ switching = None
  /\ state \in {"pending", "claimed"}
  /\ switching' = p
  /\ faults' = faults + 1
  /\ UNCHANGED <<row, view, run, host, history>>

SwitchedOff ==
  /\ switching # None
  /\ Set("empty")
  /\ switching' = None
  /\ Reaped
  /\ standing' = 0
  /\ UNCHANGED <<view, host, heard, faults>>

-----------------------------------------------------------------------------
(* A delivery attempt.                                                     *)

\* deliverChannel2IfPending, and the pre-check.
Begin(a, p) ==
  /\ At(a, "idle") /\ Yielded(p)
  /\ view[p] # "reduced"
  /\ state = "pending"
  /\ run' = [run EXCEPT ![a] = [IdleAttempt EXCEPT !.pc = "seen", !.proc = p]]
  /\ UNCHANGED <<row, view, switching, host, history, faults>>

RunIsActive == sub => active

\* A terminal subagent, or a pile that is no longer high: the intent is
\* dropped.  An unknown pile leaves it for later.
Evaluate(a) ==
  /\ At(a, "seen")
  /\ LET v == view[run[a].proc]
     IN \/ /\ RunIsActive /\ v \in {"high", "directive"}
           /\ Goto(a, "willing")
        \/ /\ ~RunIsActive \/ v \in {"low", "collapsed"}
           /\ Goto(a, "clearing")
        \/ /\ RunIsActive /\ v = "none"
           /\ Ends(a)
  /\ UNCHANGED <<row, view, switching, host, history, faults>>

ClearIntent(a) ==
  /\ At(a, "clearing")
  /\ Cas("pending", "empty")
  /\ Ends(a)
  /\ UNCHANGED <<view, switching, host, history, faults>>

TryClaim(a) ==
  /\ At(a, "willing")
  /\ Claim(a)
  /\ IF state = "pending" THEN Goto(a, "claimed") /\ heard' = FALSE
     ELSE Ends(a) /\ UNCHANGED heard
  /\ UNCHANGED <<view, switching, host, standing, faults>>

\* The run may have ended since; then the claim is given back, else the
\* attempt awaits the prompt context.
Recheck(a) ==
  /\ At(a, "claimed")
  /\ Goto(a, IF RunIsActive THEN "resolving" ELSE "releasing")
  /\ UNCHANGED <<row, view, switching, host, history, faults>>

ReleaseClaim(a) ==
  /\ At(a, "releasing")
  /\ CasClaim(a, "empty")
  /\ Ends(a)
  /\ UNCHANGED <<view, switching, host, history, faults>>

Resolved(a) ==
  /\ At(a, "resolving")
  /\ Yielded(run[a].proc)
  /\ Goto(a, "checking")
  /\ UNCHANGED <<row, view, switching, host, history, faults>>

\* Mutant of CheckClaim: the claim is not looked at again.
CheckNoClaim(a) ==
  /\ At(a, "checking")
  /\ Goto(a, "owner")
  /\ UNCHANGED <<row, view, switching, host, history, faults>>
CheckClaim(a) ==
  /\ At(a, "checking")
  /\ IF Owns(a) THEN Goto(a, "owner") ELSE Ends(a)
  /\ UNCHANGED <<row, view, switching, host, history, faults>>

\* The last look at the run and the call of promptAsync.
StartSend(a) ==
  /\ At(a, "owner")
  /\ Goto(a, IF RunIsActive THEN "sending" ELSE "releasing")
  /\ standing' = IF RunIsActive /\ Owns(a) THEN standing + 1 ELSE standing
  /\ UNCHANGED <<row, view, switching, host, heard, faults>>

\* The host takes the message, which starts a turn if none is under way.
Accept(a) ==
  /\ At(a, "sending")
  /\ Goto(a, "accepted")
  /\ active' = TRUE
  /\ heard' = (heard \/ token = a)
  /\ UNCHANGED <<row, view, switching, sub, standing, faults>>

\* promptAsync throws, or resolving the context did.
SendFails(a) ==
  /\ faults < MaxFaults
  /\ run[a].pc \in {"resolving", "sending"}
  /\ Yielded(run[a].proc)
  /\ Goto(a, "failed")
  /\ faults' = faults + 1
  /\ UNCHANGED <<row, view, switching, host, history>>

\* The intent is pending again, unless the claim was reaped.
Restore(a) ==
  /\ At(a, "failed")
  /\ CasClaim(a, "pending")
  /\ Ends(a)
  /\ standing' = IF Owns(a) THEN 0 ELSE standing
  /\ UNCHANGED <<view, switching, host, heard, faults>>

\* promptAsync has returned.  The wrapper drops the directive.
Confirm(a) ==
  /\ At(a, "accepted")
  /\ Yielded(run[a].proc)
  /\ CasClaim(a, "delivered")
  /\ view' = IF view[run[a].proc] = "directive" /\ state # "pending"
             THEN [view EXCEPT ![run[a].proc] = "none"] ELSE view
  /\ Ends(a)
  /\ UNCHANGED <<switching, host, history, faults>>

\* Mutant of StatementFails: the confirmation is in the try block of the send.
StatementFailsInSend(a) ==
  /\ faults < MaxFaults
  /\ \/ run[a].pc \in {"clearing", "willing", "releasing", "failed"} /\ Ends(a)
     \/ run[a].pc \in {"checking", "accepted"} /\ Goto(a, "failed")
     \/ At(a, "seen") /\ Goto(a, "clearing")
     \/ run[a].pc \in {"claimed", "owner"} /\ Goto(a, "releasing")
  /\ faults' = faults + 1
  /\ UNCHANGED <<row, view, switching, host, history>>

\* A statement of the attempt throws, SQLITE_BUSY: the attempt is over and the
\* row stays.  In the try block around the send that is a failed send; a run
\* whose state cannot be read is taken to be over.
StatementFails(a) ==
  /\ faults < MaxFaults
  /\ \/ run[a].pc \in {"clearing", "willing", "releasing", "failed", "accepted"} /\ Ends(a)
     \/ At(a, "checking") /\ Goto(a, "failed")
     \/ At(a, "seen") /\ Goto(a, "clearing")
     \/ run[a].pc \in {"claimed", "owner"} /\ Goto(a, "releasing")
  /\ faults' = faults + 1
  /\ UNCHANGED <<row, view, switching, host, history>>

-----------------------------------------------------------------------------
(* The world around it.                                                    *)

\* The subagent's run ends, or its parent prompts it again.
RunEnds == /\ sub /\ active
           /\ active' = FALSE
           /\ UNCHANGED <<row, view, switching, run, sub, history, faults>>
RunResumes == /\ sub /\ ~active
              /\ active' = TRUE
              /\ UNCHANGED <<row, view, switching, run, sub, history, faults>>

Tick == /\ state = "claimed" /\ age < Ttl
        /\ age' = age + 1
        /\ UNCHANGED <<state, token, view, switching, run, host, history, faults>>

\* Mutant of Expired: it waits for a claim older than any.
ExpiredNever == state = "claimed" /\ age > Ttl
Expired == state = "claimed" /\ age >= Ttl
\* healWedgedChannel2Claims, in any process that opens the database.  That its
\* holder is alive and hangs counts as a fault.
Heal ==
  /\ Expired
  /\ \/ At(token, "idle") /\ UNCHANGED faults
     \/ ~At(token, "idle") /\ faults < MaxFaults /\ faults' = faults + 1
  /\ Set("empty")
  /\ Reaped
  /\ standing' = 0
  /\ UNCHANGED <<view, switching, host, heard>>

Crash(p) ==
  /\ faults < MaxFaults
  /\ faults' = faults + 1
  /\ run' = [a \in Attempt |-> IF run[a].proc = p THEN IdleAttempt ELSE run[a]]
  /\ view' = [view EXCEPT ![p] = "none"]
  /\ switching' = IF switching = p THEN None ELSE switching
  /\ UNCHANGED <<row, host, history>>

Pass(p) == Fold(p) \/ Measure(p) \/ Arm(p) \/ Reduce(p) \/ RustPass(p) \/ SwitchOff(p)
Step(a) == \/ Evaluate(a) \/ ClearIntent(a) \/ TryClaim(a) \/ Recheck(a) \/ ReleaseClaim(a)
           \/ Resolved(a) \/ CheckClaim(a) \/ StartSend(a) \/ Accept(a) \/ Restore(a)
           \/ Confirm(a)
Next == \/ \E p \in Proc : Pass(p) \/ Crash(p) \/ \E a \in Attempt : Begin(a, p)
        \/ \E a \in Attempt : Step(a) \/ SendFails(a) \/ StatementFails(a)
        \/ SwitchedOff \/ RunEnds \/ RunResumes \/ Tick \/ Heal

\* Synchronous code goes on, the host answers, time passes, databases are
\* opened, passes end and step boundaries come.
Fairness ==
  /\ \A a \in Attempt : WF_vars(Step(a))
  /\ WF_vars(SwitchedOff) /\ WF_vars(Tick) /\ WF_vars(Heal)
  /\ \A p \in Proc : SF_vars(Arm(p)) /\ SF_vars(\E a \in Attempt : Begin(a, p))
Spec == Init /\ [][Next]_vars /\ Fairness

-----------------------------------------------------------------------------
(* Properties.                                                             *)

TypeOK ==
  /\ state \in States
  /\ token \in Attempt \cup {None} /\ (token # None <=> state = "claimed")
  /\ age \in 0..Ttl
  /\ view \in [Proc -> View]
  /\ switching \in Proc \cup {None}
  /\ run \in [Attempt -> [pc : AttemptPc, proc : Proc \cup {None}, overtaken : BOOLEAN]]
  /\ \A a \in Attempt : run[a].proc = None <=> run[a].pc = "idle"
  /\ sub \in BOOLEAN /\ active \in BOOLEAN
  /\ standing \in Nat /\ heard \in BOOLEAN
  /\ faults \in 0..MaxFaults

\* "So two processes can't both send from the same pending row": two sends are
\* under way at once only if one of the senders lost its claim, after its last
\* look at it, because it hung for the whole lease or compaction was switched off.
OneSender ==
  \A a, b \in Attempt :
    /\ a # b
    /\ run[a].pc \in {"sending", "accepted"} /\ run[b].pc \in {"sending", "accepted"}
    => run[a].overtaken \/ run[b].overtaken

\* One ceiling nudge per cycle: while a send of this cycle stands, one that has
\* not failed and whose claim was not reaped, no other can start, for the row
\* cannot be claimed.
OncePerCycle ==
  standing <= IF state \in {"claimed", "delivered"} THEN 1 ELSE 0

\* Whoever sends, fails or confirms late, the row goes through the cycle that
\* NudgeCycle promises: it is consumed only by a claim whose message the agent
\* got, and a claim whose message it got is never made an intent again.
Cycle == INSTANCE NudgeCycle WITH phase <- state, claim <- token
CycleSpec == Cycle!Spec

\* If from some moment on every process measures a high pile, and the run goes
\* on, then the nudge is delivered in spite of what happened before.
NudgeArrives ==
  <>[](RunIsActive /\ \A p \in Proc : view[p] \in {"high", "directive"}) => <>(state = "delivered")
=============================================================================
