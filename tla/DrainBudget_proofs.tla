------------------------ MODULE DrainBudget_proofs ------------------------
(* Theorems about DrainBudget, for every value of its constants. *)
EXTENDS DrainBudget, TLAPS

USE DEF Never

\* The records a step puts in place of a run's.
LEMMA RunRecords ==
  ASSUME NEW q \in RunType, NEW pc \in RunPc, NEW n \in 0..Cap,
         NEW a \in BOOLEAN, NEW b \in BOOLEAN, NEW c \in BOOLEAN
  PROVE  /\ [q EXCEPT !.pc = pc] \in RunType
         /\ [q EXCEPT !.pc = pc, !.retain = a] \in RunType
         /\ [q EXCEPT !.late = a] \in RunType
         /\ [q EXCEPT !.pc = pc, !.n = n, !.past = a, !.late = b] \in RunType
         /\ [q EXCEPT !.pc = pc, !.n = n, !.past = a] \in RunType
         /\ q.pc \in RunPc /\ q.n \in 0..Cap /\ q.late \in BOOLEAN /\ q.retain \in BOOLEAN
  BY DEF RunType

\* A run without its reservation.
LEMMA ReturnedIsARun ==
  ASSUME NEW q \in RunType, NEW pc \in RunPc
  PROVE  [q EXCEPT !.pc = pc, !.n = 0, !.past = FALSE, !.late = FALSE] \in RunType
  <1> DEFINE no == FALSE
             none == 0
  <1>1. no \in BOOLEAN /\ none \in 0..Cap
    <2>1. no \in BOOLEAN
      OBVIOUS
    <2>2. none \in 0..Cap
      BY CapAssumption
    <2> QED
      BY <2>1, <2>2
  <1> HIDE DEF no, none
  <1>2. [q EXCEPT !.pc = pc, !.n = none, !.past = no, !.late = no] \in RunType
    BY <1>1 DEF RunType
  <1> QED
    BY <1>2 DEF no, none

LEMMA IdleIsARun == IdleRun \in RunType
  BY CapAssumption DEF RunType, IdleRun, RunPc

\* Changing one run keeps the type of all.
LEMMA OneRunChanged ==
  ASSUME run \in [Run -> RunType], NEW r \in Run, NEW q \in RunType,
         run' = [run EXCEPT ![r] = q]
  PROVE  run' \in [Run -> RunType]
  OBVIOUS

\* A run goes on to another step, with its retain flag as it was or changed.
LEMMA RunGoesOn ==
  ASSUME TypeOK, NEW r \in Run, NEW pc \in RunPc, NEW a \in BOOLEAN,
         \/ run' = [run EXCEPT ![r].pc = pc]
         \/ run' = [run EXCEPT ![r].pc = pc, ![r].retain = a]
  PROVE  run' \in [Run -> RunType]
  <1>1. run[r] \in RunType /\ run \in [Run -> RunType]
    BY DEF TypeOK
  <1>2. [run[r] EXCEPT !.pc = pc] \in RunType /\ [run[r] EXCEPT !.pc = pc, !.retain = a] \in RunType
    BY <1>1 DEF RunType
  <1>3. CASE run' = [run EXCEPT ![r].pc = pc]
    <2>1. run' = [run EXCEPT ![r] = [run[r] EXCEPT !.pc = pc]]
      BY <1>3
    <2> QED
      BY <1>1, <1>2, <2>1
  <1>4. CASE run' = [run EXCEPT ![r].pc = pc, ![r].retain = a]
    <2>1. run' = [run EXCEPT ![r] = [run[r] EXCEPT !.pc = pc, !.retain = a]]
      BY <1>1, <1>4
    <2> QED
      BY <1>1, <1>2, <2>1
  <1> QED
    BY <1>3, <1>4

\* What a reservation can be.
LEMMA GrantBounds ==
  ASSUME NEW b \in Budgets, NEW spent \in Nat, NEW n \in 1..(Cap + 1), NEW u \in Usage
  PROVE  /\ Within(n, b, spent) \in 0..Cap
         /\ Within(n, b, spent) > 0 => spent + Within(n, b, spent) <= b
         /\ Past(n, u) \in 0..Cap
  BY CapAssumption, BudgetAssumption DEF Within, Past, Smaller, Larger

LEMMA AgesAreNumbers ==
  ASSUME NEW limit \in Nat, NEW age \in Int, age <= Never(limit)
  PROVE  /\ Older(age, limit) \in Int
         /\ Older(age, limit) <= Never(limit)
         /\ \A a \in Younger(age, limit) : a \in Int /\ a <= Never(limit)
  BY DEF Older, Younger

\* A rollback in the hands of a step: what it does to the counters.
LEMMA RollbackTypes ==
  ASSUME TypeOK, NEW r \in Run, NEW pc \in RunPc, Rollback(r, pc)
  PROVE  /\ tokens' \in Nat /\ tokens' >= tokens - run[r].n
         /\ run' \in [Run -> RunType]
         /\ kept' \in Int /\ late' \in Nat
         /\ bypassed' = bypassed /\ quiet' = quiet /\ lost' = lost
         /\ kept' - late' = kept - late - run[r].n
         /\ kept' - late' <= kept - late
  <1>1. run[r] \in RunType /\ run \in [Run -> RunType]
    BY DEF TypeOK
  <1>2. run[r].n \in Nat /\ tokens \in Nat /\ kept \in Int /\ late \in Nat
    BY <1>1, CapAssumption DEF TypeOK, RunType
  <1>3. tokens' \in Nat /\ tokens' >= tokens - run[r].n
    BY <1>2 DEF Rollback, Larger
  <1>4. run' \in [Run -> RunType]
    <2> DEFINE q == [run[r] EXCEPT !.pc = pc, !.n = 0, !.past = FALSE, !.late = FALSE]
    <2>1. q \in RunType
      BY <1>1, ReturnedIsARun
    <2>2. run' = [run EXCEPT ![r] = q]
      BY <1>1 DEF Rollback
    <2> HIDE DEF q
    <2> QED
      BY <1>1, <2>1, <2>2
  <1> QED
    BY <1>2, <1>3, <1>4 DEF Rollback

LEMMA TypesPreserved == TypeOK /\ [Next]_vars => TypeOK'
<1> SUFFICES ASSUME TypeOK, [Next]_vars PROVE TypeOK'
  OBVIOUS
<1> USE DEF budget, history, bounds
<1>0. /\ run \in [Run -> RunType]
      /\ {"idle", "begun", "refused", "reserved", "calling", "answered", "ending"} = RunPc
  BY DEF TypeOK, RunPc
<1>1. ASSUME NEW r \in Run, Begin(r) PROVE TypeOK'
  <2>1. run' \in [Run -> RunType]
    BY <1>0, <1>1, RunGoesOn DEF Begin, Goto
  <2> QED
    BY <1>1, <2>1 DEF TypeOK, Begin
<1>2. ASSUME NEW r \in Run, NothingToDrain(r) PROVE TypeOK'
  <2>1. run' \in [Run -> RunType]
    BY <1>0, <1>2, RunGoesOn DEF NothingToDrain, Goto
  <2>2. latched' \in BOOLEAN /\ latchAge' \in Int
    <3>1. CASE latched' = FALSE /\ latchAge' = 0
      <4>1. latched' \in BOOLEAN
        BY <3>1, Zenon
      <4>2. latchAge' \in Int
        BY <3>1
      <4> QED
        BY <4>1, <4>2
    <3>2. CASE UNCHANGED <<latched, latchAge>>
      BY <3>2 DEF TypeOK
    <3> QED
      BY <1>2, <3>1, <3>2 DEF NothingToDrain
  <2> QED
    BY <1>2, <2>1, <2>2 DEF TypeOK, NothingToDrain
<1>3. ASSUME NEW r \in Run, Reserve(r) PROVE TypeOK'
  <2>1. PICK u \in Usage, b \in Budgets, n \in 1..(Cap + 1) : Reserved(r, u, b, n)
    BY <1>3 DEF Reserve
  <2> DEFINE w == IF WindowExpired THEN NewWindow ELSE OldWindow
             got == Got(w, u, b, n)
  <2>2. /\ w.tokens \in Nat /\ w.age \in Int /\ w.age <= Never(Window)
        /\ w.kept \in Int /\ w.late \in Nat /\ w.by \in BOOLEAN
    <3>1. CASE WindowExpired
      <4>1. w = NewWindow
        BY <3>1
      <4>2. w.by \in BOOLEAN
        <5>1. w.by = FALSE
          BY <4>1 DEF NewWindow
        <5> QED
          BY <5>1, Zenon
      <4>3. w.tokens \in Nat /\ w.age \in Int /\ w.age <= Never(Window)
            /\ w.kept \in Int /\ w.late \in Nat
        BY <4>1, TimeAssumption DEF NewWindow
      <4> QED
        BY <4>2, <4>3
    <3>2. CASE ~WindowExpired
      <4>1. w = OldWindow
        BY <3>2
      <4> QED
        BY <4>1 DEF OldWindow, TypeOK
    <3> QED
      BY <3>1, <3>2
  <2>3. got.n \in 0..Cap /\ got.past \in BOOLEAN
    <3> HIDE DEF w
    <3>1. Within(n, b, w.tokens) \in 0..Cap /\ Past(n, u) \in 0..Cap
      BY <2>2, GrantBounds
    <3>2. CASE Within(n, b, w.tokens) > 0
      <4>1. got = [n |-> Within(n, b, w.tokens), past |-> FALSE]
        BY <3>2 DEF Got
      <4>2. got.n \in 0..Cap
        BY <3>1, <4>1
      <4>3. got.past \in BOOLEAN
        <5>1. got.past = FALSE
          BY <4>1
        <5> QED
          BY <5>1, Zenon
      <4> QED
        BY <4>2, <4>3
    <3>3. CASE ~(Within(n, b, w.tokens) > 0)
      <4>1. got = [n |-> Past(n, u), past |-> Past(n, u) > 0]
        BY <3>3 DEF Got
      <4>2. got.n \in 0..Cap
        BY <3>1, <4>1
      <4>3. got.past \in BOOLEAN
        BY <4>1
      <4> QED
        BY <4>2, <4>3
    <3> QED
      BY <3>2, <3>3
  <2> HIDE DEF w, got
  <2>4. run' \in [Run -> RunType]
    <3> DEFINE mine == [IdleRun EXCEPT !.pc = IF got.n > 0 THEN "reserved" ELSE "refused",
                                       !.n = got.n, !.past = got.past]
               other(q) == [run[q] EXCEPT !.late = run[q].late \/ (WindowExpired /\ run[q].n > 0)]
    <3>1. mine \in RunType
      BY <1>0, <2>3, IdleIsARun, RunRecords
    <3>2. ASSUME NEW q \in Run PROVE other(q) \in RunType
      <4>1. run[q] \in RunType
        BY <1>0
      <4>2. (run[q].late \/ (WindowExpired /\ run[q].n > 0)) \in BOOLEAN
        OBVIOUS
      <4> DEFINE late2 == run[q].late \/ (WindowExpired /\ run[q].n > 0)
      <4>3. late2 \in BOOLEAN
        BY <4>2
      <4> HIDE DEF late2
      <4>4. [run[q] EXCEPT !.late = late2] \in RunType
        BY <4>1, <4>3 DEF RunType
      <4> QED
        BY <4>4 DEF late2
    <3>3. run' = [q \in Run |-> IF q = r THEN mine ELSE other(q)]
      BY <2>1 DEF Reserved, w, got
    <3> HIDE DEF mine, other
    <3> QED
      BY <3>1, <3>2, <3>3
  <2>5. /\ tokens' = w.tokens + got.n /\ windowAge' = w.age
        /\ latched' = LatchAfter(u)
        /\ latchAge' = IF latched /\ LatchAfter(u) THEN latchAge ELSE 0
        /\ kept' = w.kept + got.n /\ late' = w.late
        /\ bypassed' = (w.by \/ got.past)
    BY <2>1 DEF Reserved, w, got
  <2>6. UNCHANGED <<lease, failAge, quiet, lost, setBacks, crashes>>
    BY <1>3 DEF Reserve
  <2>7. latched' \in BOOLEAN /\ latchAge' \in Int /\ bypassed' \in BOOLEAN
    BY <2>2, <2>3, <2>5 DEF TypeOK, LatchAfter
  <2>8. tokens' \in Nat /\ kept' \in Int
    BY <2>2, <2>3, <2>5, CapAssumption
  <2> QED
    BY <2>2, <2>4, <2>5, <2>6, <2>7, <2>8 DEF TypeOK
<1>4. ASSUME NEW r \in Run, Forced(r) PROVE TypeOK'
  <2>1. run' \in [Run -> RunType]
    BY <1>0, <1>4, RunGoesOn DEF Forced, Goto
  <2> QED
    BY <1>4, <2>1 DEF TypeOK, Forced
<1>5. ASSUME NEW r \in Run, NoChunk(r) PROVE TypeOK'
  <2>1. Rollback(r, "ending") /\ "ending" \in RunPc
    BY <1>0, <1>5 DEF NoChunk
  <2>2. latched' \in BOOLEAN /\ latchAge' \in Int
    <3>1. CASE latched' = FALSE /\ latchAge' = 0
      <4>1. latched' \in BOOLEAN
        BY <3>1, Zenon
      <4>2. latchAge' \in Int
        BY <3>1
      <4> QED
        BY <4>1, <4>2
    <3>2. CASE UNCHANGED <<latched, latchAge>>
      BY <3>2 DEF TypeOK
    <3> QED
      BY <1>5, <3>1, <3>2 DEF NoChunk
  <2> QED
    BY <1>5, <2>1, <2>2, RollbackTypes DEF TypeOK, NoChunk
<1>6. ASSUME NEW r \in Run, NotCalled(r) PROVE TypeOK'
  <2>1. PICK retain \in BOOLEAN : run' = [run EXCEPT ![r].pc = "ending", ![r].retain = retain]
    BY <1>6 DEF NotCalled
  <2>2. run' \in [Run -> RunType]
    BY <1>0, <2>1, RunGoesOn
  <2> QED
    BY <1>6, <2>2 DEF TypeOK, NotCalled
<1>7. ASSUME NEW r \in Run, Call(r) \/ Answer(r) PROVE TypeOK'
  <2>1. run' \in [Run -> RunType]
    BY <1>0, <1>7, RunGoesOn DEF Call, Answer
  <2> QED
    BY <1>7, <2>1 DEF TypeOK, Call, Answer
<1>8. ASSUME NEW r \in Run, CallFails(r) \/ Unpublished(r) PROVE TypeOK'
  <2>1. run' \in [Run -> RunType]
    BY <1>0, <1>8, RunGoesOn DEF CallFails, Unpublished, Goto
  <2> QED
    BY <1>8, <2>1 DEF TypeOK, CallFails, Unpublished
<1>9. ASSUME NEW r \in Run, Publish(r) PROVE TypeOK'
  <2> DEFINE q == [run[r] EXCEPT !.pc = "ending", !.n = 0, !.past = FALSE, !.late = FALSE]
  <2>1. q \in RunType
    BY <1>0, ReturnedIsARun
  <2>2. run' = [run EXCEPT ![r] = q]
    BY <1>0, <1>9 DEF Publish
  <2> HIDE DEF q
  <2>3. run' \in [Run -> RunType]
    BY <1>0, <2>1, <2>2
  <2>4. failAge' \in Int /\ failAge' <= Never(Backoff) /\ quiet' \in 0..Backoff
    BY <1>9, TimeAssumption DEF TypeOK, Publish
  <2> QED
    BY <1>9, <2>3, <2>4 DEF TypeOK, Publish
<1>10. ASSUME NEW r \in Run, Finish(r) PROVE TypeOK'
  <2>1. lease' \in Run \cup {None} /\ setBacks' = setBacks /\ crashes' = crashes
    BY <1>10 DEF Finish, TypeOK
  <2>2. CASE run[r].retain
    <3>1. run' \in [Run -> RunType]
      BY <1>0, <1>10, <2>2, IdleIsARun DEF Finish
    <3>2. failAge' \in Int /\ failAge' <= Never(Backoff) /\ quiet' \in 0..Backoff
      BY <1>10, <2>2, TimeAssumption DEF TypeOK, Finish
    <3> QED
      BY <1>10, <2>1, <2>2, <3>1, <3>2 DEF TypeOK, Finish
  <2>3. CASE ~run[r].retain
    <3>1. Rollback(r, "idle") /\ "idle" \in RunPc
      BY <1>0, <1>10, <2>3 DEF Finish
    <3> QED
      BY <1>10, <2>1, <2>3, <3>1, RollbackTypes DEF TypeOK, Finish
  <2> QED
    BY <2>2, <2>3
<1>11. ASSUME Tick PROVE TypeOK'
  <2>1. quiet' \in 0..Backoff
    BY <1>11, TimeAssumption DEF Tick, TypeOK, Older
  <2>2. latchAge' \in Int
    BY <1>11, TimeAssumption DEF Tick, TypeOK, Older
  <2>3. /\ windowAge' \in Int /\ windowAge' <= Never(Window)
        /\ failAge' \in Int /\ failAge' <= Never(Backoff)
    BY <1>11, TimeAssumption, AgesAreNumbers DEF TypeOK, Tick
  <2> QED
    BY <1>11, <2>1, <2>2, <2>3 DEF TypeOK, Tick
<1>12. ASSUME SetBack PROVE TypeOK'
  <2>1. latchAge' \in Int
    BY <1>12, TimeAssumption DEF SetBack, TypeOK, Younger
  <2>2. /\ windowAge' \in Int /\ windowAge' <= Never(Window)
        /\ failAge' \in Int /\ failAge' <= Never(Backoff)
    BY <1>12, TimeAssumption, AgesAreNumbers DEF TypeOK, SetBack
  <2>3. setBacks' \in Nat /\ crashes' \in Nat /\ setBacks' + crashes' <= MaxFaults
    BY <1>12, BoundAssumption DEF TypeOK, SetBack
  <2> QED
    BY <1>12, <2>1, <2>2, <2>3 DEF TypeOK, SetBack
<1>13. ASSUME Expire PROVE TypeOK'
  BY <1>13 DEF TypeOK, Expire
<1>14. ASSUME NEW r \in Run, Crash(r) PROVE TypeOK'
  <2>1. run' \in [Run -> RunType]
    BY <1>0, <1>14, IdleIsARun DEF Crash
  <2>2. setBacks' \in Nat /\ crashes' \in Nat /\ setBacks' + crashes' <= MaxFaults
    BY <1>14, BoundAssumption DEF TypeOK, Crash
  <2> QED
    BY <1>14, <2>1, <2>2 DEF TypeOK, Crash
<1>15. CASE UNCHANGED vars
  BY <1>15 DEF TypeOK, vars
<1> QED
  BY <1>1, <1>2, <1>3, <1>4, <1>5, <1>6, <1>7, <1>8, <1>9, <1>10, <1>11, <1>12, <1>13,
     <1>14, <1>15 DEF Next, RunStep

LEMMA InitTypes == Init => TypeOK
<1> SUFFICES ASSUME Init PROVE TypeOK
  OBVIOUS
<1>1. run \in [Run -> RunType]
  BY IdleIsARun DEF Init
<1>2. latched \in BOOLEAN /\ bypassed \in BOOLEAN /\ lost \in BOOLEAN
  BY DEF Init
<1>3. /\ windowAge \in Int /\ windowAge <= Never(Window)
      /\ failAge \in Int /\ failAge <= Never(Backoff) /\ quiet \in 0..Backoff
  BY TimeAssumption DEF Init
<1>4. setBacks \in Nat /\ crashes \in Nat /\ setBacks + crashes <= MaxFaults
  BY BoundAssumption DEF Init
<1> QED
  BY <1>1, <1>2, <1>3, <1>4 DEF Init, TypeOK

\* Types of all variables of the drain protocol.
THEOREM DrainTypes == Spec => []TypeOK
<1>1. Init => TypeOK
  BY InitTypes
<1>2. TypeOK /\ [Next]_vars => TypeOK'
  BY TypesPreserved
<1> QED
  BY <1>1, <1>2, PTL DEF Spec

-----------------------------------------------------------------------------
(* The accounting.                                                         *)

\* What a reservation does to the counters.
LEMMA ReserveCounts ==
  ASSUME TypeOK, NEW r \in Run, Reserve(r)
  PROVE  \E got \in 0..Cap, past \in BOOLEAN, b \in Budgets, fresh \in BOOLEAN :
           LET t == IF fresh THEN 0 ELSE tokens
               k == IF fresh THEN 0 ELSE kept
           IN /\ fresh = WindowExpired
              /\ tokens' = t + got /\ kept' = k + got
              /\ late' = IF fresh THEN 0 ELSE late
              /\ ~bypassed' => (fresh \/ ~bypassed) /\ (got > 0 => t + got <= b)
              /\ lost' = lost /\ lease' = lease
  <1>1. PICK u \in Usage, b \in Budgets, n \in 1..(Cap + 1) : Reserved(r, u, b, n)
    BY DEF Reserve
  <1> DEFINE w == IF WindowExpired THEN NewWindow ELSE OldWindow
             got == Got(w, u, b, n)
             fresh == WindowExpired
  <1>2. fresh \in BOOLEAN
    BY DEF WindowExpired
  <1>3. /\ w.tokens = (IF fresh THEN 0 ELSE tokens) /\ w.kept = (IF fresh THEN 0 ELSE kept)
        /\ w.late = (IF fresh THEN 0 ELSE late)
    BY DEF NewWindow, OldWindow
  <1>4. ~w.by => fresh \/ ~bypassed
    BY DEF NewWindow, OldWindow
  <1>5. w.tokens \in Nat
    BY <1>3 DEF TypeOK
  <1>6. /\ Within(n, b, w.tokens) \in 0..Cap
        /\ Within(n, b, w.tokens) > 0 => w.tokens + Within(n, b, w.tokens) <= b
        /\ Past(n, u) \in 0..Cap
    BY <1>5, GrantBounds
  <1>7. /\ tokens' = w.tokens + got.n /\ kept' = w.kept + got.n /\ late' = w.late
        /\ bypassed' = (w.by \/ got.past) /\ lost' = lost /\ lease' = lease
    BY <1>1 DEF Reserve, Reserved
  <1> HIDE DEF w
  <1>8. got.n \in 0..Cap /\ got.past \in BOOLEAN /\ (~got.past /\ got.n > 0 => w.tokens + got.n <= b)
    <2>1. CASE Within(n, b, w.tokens) > 0
      <3>1. got = [n |-> Within(n, b, w.tokens), past |-> FALSE]
        BY <2>1 DEF Got
      <3>2. got.past = FALSE /\ got.n = Within(n, b, w.tokens)
        BY <3>1
      <3>3. got.past \in BOOLEAN
        BY <3>2, Zenon
      <3> QED
        BY <1>6, <2>1, <3>2, <3>3
    <2>2. CASE ~(Within(n, b, w.tokens) > 0)
      <3>1. got = [n |-> Past(n, u), past |-> Past(n, u) > 0]
        BY <2>2 DEF Got
      <3>2. got.n = Past(n, u) /\ got.past \in BOOLEAN
        BY <3>1
      <3>3. got.n > 0 => got.past
        <4>1. got.past = (Past(n, u) > 0)
          BY <3>1
        <4> QED
          BY <3>2, <4>1
      <3> QED
        BY <1>6, <3>2, <3>3
    <2> QED
      BY <2>1, <2>2
  <1> HIDE DEF got, fresh
  <1>9. ~bypassed' => (fresh \/ ~bypassed) /\ (got.n > 0 => w.tokens + got.n <= b)
    BY <1>4, <1>7, <1>8
  <1> USE <1>2, <1>8
  <1> WITNESS got.n \in 0..Cap, got.past \in BOOLEAN, b \in Budgets, fresh \in BOOLEAN
  <1> QED
    BY <1>3, <1>7, <1>9 DEF fresh

\* Every other step leaves the counters alone or is a rollback.
LEMMA OtherCounts ==
  ASSUME TypeOK, [Next]_vars, \A r \in Run : ~Reserve(r)
  PROVE  /\ bypassed' = bypassed
         /\ \/ UNCHANGED <<tokens, kept, late>>
            \/ \E r \in Run, pc \in RunPc : Rollback(r, pc)
<1> USE DEF budget, history, bounds
<1>1. ASSUME NEW r \in Run, NoChunk(r) PROVE Rollback(r, "ending") /\ "ending" \in RunPc
  BY <1>1 DEF NoChunk, RunPc
<1>2. ASSUME NEW r \in Run, Finish(r)
      PROVE  \/ UNCHANGED <<tokens, kept, late, bypassed>>
             \/ Rollback(r, "idle") /\ "idle" \in RunPc
  BY <1>2 DEF Finish, RunPc
<1>3. ASSUME NEW r \in Run,
             \/ Begin(r) \/ NothingToDrain(r) \/ Forced(r) \/ NotCalled(r) \/ Call(r)
             \/ CallFails(r) \/ Answer(r) \/ Unpublished(r) \/ Publish(r) \/ Crash(r)
      PROVE  UNCHANGED <<tokens, kept, late, bypassed>>
  BY <1>3 DEF Begin, NothingToDrain, Forced, NotCalled, Call, CallFails, Answer, Unpublished,
              Publish, Crash
<1>4. ASSUME Tick \/ SetBack \/ Expire \/ UNCHANGED vars
      PROVE  UNCHANGED <<tokens, kept, late, bypassed>>
  BY <1>4 DEF Tick, SetBack, Expire, vars
<1>5. ASSUME NEW r \in Run, NEW pc \in RunPc, Rollback(r, pc) PROVE bypassed' = bypassed
  BY <1>5 DEF Rollback
<1> QED
  BY <1>1, <1>2, <1>3, <1>4, <1>5 DEF Next, RunStep

LEMMA StillWithin ==
  ASSUME NEW k \in Int, NEW l \in Nat, NEW k1 \in Int, NEW l1 \in Nat, NEW m \in Nat,
         k <= m + l, k1 - l1 <= k - l
  PROVE  k1 <= m + l1
  OBVIOUS

\* The two bounds are inductive together with the types.
Books == NotForgotten /\ BudgetHolds

LEMMA BooksPreserved == TypeOK /\ Books /\ [Next]_vars => Books'
<1> SUFFICES ASSUME TypeOK, NotForgotten, BudgetHolds, [Next]_vars
             PROVE  NotForgotten' /\ BudgetHolds'
  BY DEF Books
<1>0. tokens \in Nat /\ kept \in Int /\ late \in Nat /\ kept - late <= tokens
  BY DEF TypeOK, NotForgotten
<1>1. ASSUME NEW r \in Run, Reserve(r) PROVE NotForgotten' /\ BudgetHolds'
  <2>1. PICK got \in 0..Cap, past \in BOOLEAN, b \in Budgets, fresh \in BOOLEAN :
          LET t == IF fresh THEN 0 ELSE tokens
              k == IF fresh THEN 0 ELSE kept
          IN /\ fresh = WindowExpired
             /\ tokens' = t + got /\ kept' = k + got
             /\ late' = IF fresh THEN 0 ELSE late
             /\ ~bypassed' => (fresh \/ ~bypassed) /\ (got > 0 => t + got <= b)
             /\ lost' = lost /\ lease' = lease
    BY <1>1, ReserveCounts
  <2>2. got \in Nat
    BY CapAssumption
  <2>3. NotForgotten'
    BY <1>0, <2>1, <2>2 DEF NotForgotten
  <2>4. ASSUME ~bypassed', NEW m \in Budgets, IsMaxBudget(m) PROVE kept' <= m + late'
    <3>1. b <= m /\ m \in Nat /\ b \in Nat
      BY <2>4, BudgetAssumption DEF IsMaxBudget
    <3>2. CASE got > 0
      BY <1>0, <2>1, <2>2, <2>4, <3>1, <3>2
    <3>3. CASE ~(got > 0)
      BY <1>0, <2>1, <2>2, <2>4, <3>1, <3>3 DEF BudgetHolds
    <3> QED
      BY <3>2, <3>3
  <2>5. BudgetHolds'
    BY <2>4 DEF BudgetHolds, IsMaxBudget
  <2> QED
    BY <2>3, <2>5
<1>2. ASSUME \A r \in Run : ~Reserve(r) PROVE NotForgotten' /\ BudgetHolds'
  <2>1. CASE UNCHANGED <<tokens, kept, late>>
    BY <1>2, <2>1, OtherCounts DEF NotForgotten, BudgetHolds, IsMaxBudget
  <2>2. ASSUME NEW r \in Run, NEW pc \in RunPc, Rollback(r, pc)
        PROVE  NotForgotten' /\ BudgetHolds'
    <3>1. /\ tokens' \in Nat /\ tokens' >= tokens - run[r].n
          /\ kept' \in Int /\ late' \in Nat /\ bypassed' = bypassed
          /\ kept' - late' = kept - late - run[r].n
          /\ kept' - late' <= kept - late
      BY <2>2, RollbackTypes
    <3>2. run[r].n \in Nat
      BY CapAssumption DEF TypeOK, RunType
    <3>3. NotForgotten'
      BY <1>0, <3>1, <3>2 DEF NotForgotten
    <3>4. ASSUME ~bypassed', NEW m \in Budgets, IsMaxBudget(m) PROVE kept' <= m + late'
      <4>1. kept <= m + late /\ m \in Nat
        BY <3>1, <3>4, BudgetAssumption DEF BudgetHolds
      <4>2. kept' \in Int /\ late' \in Nat /\ kept' - late' <= kept - late
        BY <3>1
      <4> QED
        BY <1>0, <4>1, <4>2, StillWithin
    <3> QED
      BY <3>3, <3>4 DEF BudgetHolds, IsMaxBudget
  <2> QED
    BY <1>2, <2>1, <2>2, OtherCounts
<1> QED
  BY <1>1, <1>2

LEMMA InitBooks == Init => Books
  BY BudgetAssumption DEF Init, Books, NotForgotten, BudgetHolds, IsMaxBudget

\* Nothing that was reserved in the window and not returned is missing from
\* the books, except what came back from an earlier window.
THEOREM NothingForgotten == Spec => []NotForgotten
<1>1. TypeOK /\ Books /\ [Next]_vars => TypeOK' /\ Books'
  BY TypesPreserved, BooksPreserved
<1>2. Books => NotForgotten
  BY DEF Books
<1> QED
  BY <1>1, <1>2, InitTypes, InitBooks, PTL DEF Spec

\* Without the latch a window never hands out more than its budget, but for
\* what came back from an earlier window.
THEOREM BudgetIsKept == Spec => []BudgetHolds
<1>1. TypeOK /\ Books /\ [Next]_vars => TypeOK' /\ Books'
  BY TypesPreserved, BooksPreserved
<1>2. Books => BudgetHolds
  BY DEF Books
<1> QED
  BY <1>1, <1>2, InitTypes, InitBooks, PTL DEF Spec

-----------------------------------------------------------------------------
(* As long as no live run loses its lease.                                 *)

\* Only the holder is at work, so no reservation outlives its window, and what
\* the holder may return is still in the count.
Alone == ~lost => /\ \A r \in Run : run[r] # IdleRun => lease = r
                  /\ \A r \in Run : ~run[r].late /\ run[r].n <= tokens
                  /\ late = 0 /\ tokens = kept

LEMMA IdleFields == IdleRun.n = 0 /\ ~IdleRun.late
  BY DEF IdleRun

LEMMA SameLate ==
  ASSUME NEW flag, flag = FALSE
  PROVE  [IdleRun EXCEPT !.late = flag] = IdleRun
  <1> DEFINE no == FALSE
  <1>1. no = flag
    BY Zenon
  <1> HIDE DEF no
  <1>2. [[pc |-> "idle", n |-> 0, past |-> no, late |-> no, retain |-> no] EXCEPT !.late = no]
          = [pc |-> "idle", n |-> 0, past |-> no, late |-> no, retain |-> no]
    OBVIOUS
  <1>3. IdleRun = [pc |-> "idle", n |-> 0, past |-> no, late |-> no, retain |-> no]
    BY DEF IdleRun, no
  <1> QED
    BY <1>1, <1>2, <1>3

LEMMA SameFields ==
  ASSUME NEW p \in RunType, NEW q \in RunType,
         p.pc = q.pc, p.n = q.n, p.past = q.past, p.late = q.late, p.retain = q.retain
  PROVE  p = q
  <1>1. p = [pc |-> p.pc, n |-> p.n, past |-> p.past, late |-> p.late, retain |-> p.retain]
    BY DEF RunType
  <1>2. q = [pc |-> q.pc, n |-> q.n, past |-> q.past, late |-> q.late, retain |-> q.retain]
    BY DEF RunType
  <1> QED
    BY <1>1, <1>2, Zenon

\* A run without its reservation that retains nothing is idle.
LEMMA ReturnedIsIdle ==
  ASSUME NEW q \in RunType, ~q.retain
  PROVE  [q EXCEPT !.pc = "idle", !.n = 0, !.past = FALSE, !.late = FALSE] = IdleRun
  <1> DEFINE p == [q EXCEPT !.pc = "idle", !.n = 0, !.past = FALSE, !.late = FALSE]
  <1>1. p \in RunType
    BY ReturnedIsARun DEF RunPc
  <1>2. p.pc = "idle" /\ p.n = 0 /\ p.past = FALSE /\ p.late = FALSE /\ p.retain = q.retain
    BY DEF RunType
  <1>3. q.retain = FALSE
    <2>1. q.retain \in BOOLEAN
      BY DEF RunType
    <2> QED
      BY <2>1, Zenon
  <1> HIDE DEF p
  <1>4. /\ IdleRun.pc = "idle" /\ IdleRun.n = 0 /\ IdleRun.past = FALSE
        /\ IdleRun.late = FALSE /\ IdleRun.retain = FALSE
    BY DEF IdleRun
  <1>5. p = IdleRun
    BY <1>1, <1>2, <1>3, <1>4, IdleIsARun, SameFields
  <1> QED
    BY <1>5 DEF p

\* A step of the holder that leaves counters and its reservation alone.
LEMMA HolderGoesOn ==
  ASSUME TypeOK, Alone, NEW r \in Run, run[r] # IdleRun,
         lost' = lost, lease' = lease, UNCHANGED <<tokens, kept, late>>,
         run' \in [Run -> RunType], \A q \in Run \ {r} : run'[q] = run[q],
         run'[r].late = run[r].late, run'[r].n = run[r].n
  PROVE  Alone'
  <1>1. CASE lost
    BY <1>1 DEF Alone
  <1>2. CASE ~lost
    <2>1. \A q \in Run : run'[q] # IdleRun => lease' = q
      BY <1>2 DEF Alone
    <2>2. \A q \in Run : ~run'[q].late /\ run'[q].n <= tokens'
      BY <1>2 DEF Alone
    <2> QED
      BY <1>2, <2>1, <2>2 DEF Alone
  <1> QED
    BY <1>1, <1>2

\* The holder, or a run that lost its lease, returns its reservation.
LEMMA HolderReturns ==
  ASSUME TypeOK, Alone, NEW r \in Run, NEW pc \in RunPc, Rollback(r, pc), run[r] # IdleRun,
         \/ lease' = lease
         \/ run'[r] = IdleRun
  PROVE  Alone'
  <1>1. lost' = lost
    BY DEF Rollback
  <1>2. CASE lost
    BY <1>1, <1>2 DEF Alone
  <1>3. CASE ~lost
    <2>1. /\ tokens \in Nat /\ run[r].n \in Nat /\ run[r].n <= tokens /\ late = 0 /\ kept = tokens
          /\ ~run[r].late /\ run \in [Run -> RunType]
      BY <1>3, CapAssumption DEF Alone, TypeOK, RunType
    <2>2. tokens' = tokens - run[r].n
      BY <2>1 DEF Rollback, Larger
    <2>3. kept' = kept - run[r].n /\ late' = late
      BY <2>1 DEF Rollback
    <2>4. /\ run'[r].n = 0 /\ ~run'[r].late
          /\ \A q \in Run \ {r} : run'[q] = run[q]
      BY <2>1 DEF Rollback, RunType
    <2>5. \A q \in Run \ {r} : run[q] = IdleRun
      BY <1>3 DEF Alone
    <2>6. tokens' \in Nat
      BY <2>1, <2>2
    <2>7. \A q \in Run : ~run'[q].late /\ run'[q].n <= tokens'
      BY <2>4, <2>5, <2>6, IdleFields
    <2>8. \A q \in Run : run'[q] # IdleRun => lease' = q
      BY <1>3, <2>4, <2>5 DEF Alone
    <2> QED
      BY <1>1, <2>1, <2>2, <2>3, <2>7, <2>8 DEF Alone
  <1> QED
    BY <1>2, <1>3

LEMMA AlonePreserved == TypeOK /\ Alone /\ [Next]_vars => Alone'
<1> SUFFICES ASSUME TypeOK, Alone, [Next]_vars PROVE Alone'
  OBVIOUS
<1> USE DEF budget, history, bounds
<1>0. run \in [Run -> RunType] /\ tokens \in Nat /\ kept \in Int
  BY DEF TypeOK
<1>a. \A pc \in RunPc \ {"idle"} : \A r \in Run : At(r, pc) => run[r] # IdleRun
  BY DEF At, IdleRun
<1>b. RunPc \ {"idle"} = {"begun", "refused", "reserved", "calling", "answered", "ending"}
  BY DEF RunPc
<1>1. ASSUME NEW r \in Run, Begin(r) PROVE Alone'
  <2>1. /\ \A q \in Run \ {r} : run'[q] = run[q]
        /\ run'[r].n = run[r].n /\ run'[r].late = run[r].late
    BY <1>0, <1>1 DEF Begin, Goto, RunType
  <2>2. CASE lost
    BY <1>1, <2>2 DEF Alone, Begin
  <2>3. CASE ~lost
    <3>1. \A q \in Run : run[q] = IdleRun
      BY <1>1, <2>3, RunAssumption DEF Alone, Begin
    <3>2. \A q \in Run : run'[q] # IdleRun => lease' = q
      BY <1>1, <2>1, <3>1 DEF Begin
    <3>3. \A q \in Run : ~run'[q].late /\ run'[q].n <= tokens'
      BY <1>0, <1>1, <2>1, <3>1, IdleFields DEF Begin
    <3> QED
      BY <1>1, <2>3, <3>2, <3>3 DEF Alone, Begin
  <2> QED
    BY <2>2, <2>3
<1>2. ASSUME NEW r \in Run,
             \/ NothingToDrain(r) \/ Forced(r) \/ NotCalled(r) \/ Call(r) \/ CallFails(r)
             \/ Answer(r) \/ Unpublished(r)
      PROVE  Alone'
  <2>1. run[r] # IdleRun
    BY <1>2, <1>a, <1>b DEF NothingToDrain, Forced, NotCalled, Call, CallFails, Answer, Unpublished
  <2>2. /\ \A q \in Run \ {r} : run'[q] = run[q]
        /\ run'[r].n = run[r].n /\ run'[r].late = run[r].late
    BY <1>0, <1>2 DEF NothingToDrain, Forced, NotCalled, Call, CallFails, Answer, Unpublished,
                      Goto, RunType
  <2>3. lost' = lost /\ lease' = lease /\ UNCHANGED <<tokens, kept, late>>
    BY <1>2 DEF NothingToDrain, Forced, NotCalled, Call, CallFails, Answer, Unpublished
  <2>4. run' \in [Run -> RunType]
    BY TypesPreserved DEF TypeOK
  <2> QED
    BY <2>1, <2>2, <2>3, <2>4, HolderGoesOn
<1>3. ASSUME NEW r \in Run, Reserve(r) PROVE Alone'
  <2>1. PICK u \in Usage, b \in Budgets, n \in 1..(Cap + 1) : Reserved(r, u, b, n)
    BY <1>3 DEF Reserve
  <2>2. lost' = lost /\ lease' = lease /\ run[r] # IdleRun
    BY <1>3, <1>a, <1>b DEF Reserve
  <2>3. CASE lost
    BY <2>2, <2>3 DEF Alone
  <2>4. CASE ~lost
    <3> DEFINE w == IF WindowExpired THEN NewWindow ELSE OldWindow
               got == Got(w, u, b, n)
               mine == [IdleRun EXCEPT !.pc = IF got.n > 0 THEN "reserved" ELSE "refused",
                                       !.n = got.n, !.past = got.past]
               other(q) == [run[q] EXCEPT !.late = run[q].late \/ (WindowExpired /\ run[q].n > 0)]
    <3>1. w.tokens = w.kept /\ w.late = 0 /\ w.tokens \in Nat
      BY <1>0, <2>4 DEF Alone, NewWindow, OldWindow
    <3>2. /\ tokens' = w.tokens + got.n /\ kept' = w.kept + got.n /\ late' = w.late
          /\ run' = [q \in Run |-> IF q = r THEN mine ELSE other(q)]
      BY <2>1 DEF Reserved
    <3>3. tokens' \in Nat /\ got.n \in Nat /\ got.n <= tokens'
      <4> HIDE DEF w
      <4>1. Within(n, b, w.tokens) \in 0..Cap /\ Past(n, u) \in 0..Cap
        BY <3>1, GrantBounds
      <4>2. got.n \in {Within(n, b, w.tokens), Past(n, u)}
        BY DEF Got
      <4> QED
        BY <3>1, <3>2, <4>1, <4>2, CapAssumption
    <3>4. \A q \in Run \ {r} : run[q] = IdleRun
      BY <2>2, <2>4 DEF Alone
    <3>5. mine.n = got.n /\ ~mine.late
      BY DEF IdleRun
    <3>6. \A q \in Run \ {r} : other(q) = IdleRun
      <4> TAKE q \in Run \ {r}
      <4>1. run[q] = IdleRun
        BY <3>4
      <4> DEFINE flag == run[q].late \/ (WindowExpired /\ run[q].n > 0)
      <4>2. flag \in BOOLEAN /\ ~flag
        BY <4>1, IdleFields
      <4> HIDE DEF flag
      <4>3. flag = FALSE
        BY <4>2, Zenon
      <4>4. [IdleRun EXCEPT !.late = flag] = IdleRun
        BY <4>3, SameLate
      <4> QED
        BY <4>1, <4>4 DEF flag
    <3> HIDE DEF w, got, mine, other
    <3>7. \A q \in Run : run'[q] # IdleRun => lease' = q
      BY <2>2, <2>4, <3>2, <3>6 DEF Alone
    <3>8. \A q \in Run : ~run'[q].late /\ run'[q].n <= tokens'
      BY <3>2, <3>3, <3>5, <3>6, IdleFields
    <3> QED
      BY <3>1, <3>2, <3>7, <3>8 DEF Alone
  <2> QED
    BY <2>3, <2>4
<1>4. ASSUME NEW r \in Run, NoChunk(r) PROVE Alone'
  <2>1. run[r] # IdleRun /\ Rollback(r, "ending") /\ lease' = lease /\ "ending" \in RunPc
    BY <1>4, <1>a, <1>b DEF NoChunk
  <2> QED
    BY <2>1, HolderReturns
<1>5. ASSUME NEW r \in Run, Publish(r) PROVE Alone'
  <2>1. /\ run'[r].n = 0 /\ ~run'[r].late /\ \A q \in Run \ {r} : run'[q] = run[q]
        /\ lost' = lost /\ lease' = lease /\ UNCHANGED <<tokens, kept, late>>
    BY <1>0, <1>5 DEF Publish, RunType
  <2>2. run[r] # IdleRun
    BY <1>5, <1>a, <1>b DEF Publish
  <2>3. CASE lost
    BY <2>1, <2>3 DEF Alone
  <2>4. CASE ~lost
    <3>1. \A q \in Run : run'[q] # IdleRun => lease' = q
      BY <2>1, <2>2, <2>4 DEF Alone
    <3>2. \A q \in Run : ~run'[q].late /\ run'[q].n <= tokens'
      BY <1>0, <2>1, <2>4 DEF Alone
    <3> QED
      BY <2>1, <2>4, <3>1, <3>2 DEF Alone
  <2> QED
    BY <2>3, <2>4
<1>6. ASSUME NEW r \in Run, Finish(r) PROVE Alone'
  <2>1. run[r] # IdleRun
    BY <1>6 DEF Finish, IdleRun
  <2>2. CASE run[r].retain
    <3>1. /\ run'[r] = IdleRun /\ \A q \in Run \ {r} : run'[q] = run[q]
          /\ lost' = lost /\ UNCHANGED <<tokens, kept, late>>
      BY <1>0, <1>6, <2>2 DEF Finish
    <3>2. CASE lost
      BY <3>1, <3>2 DEF Alone
    <3>3. CASE ~lost
      <4>1. \A q \in Run : run'[q] # IdleRun => lease' = q
        BY <2>1, <3>1, <3>3 DEF Alone
      <4>2. \A q \in Run : ~run'[q].late /\ run'[q].n <= tokens'
        BY <1>0, <3>1, <3>3, IdleFields DEF Alone
      <4> QED
        BY <3>1, <3>3, <4>1, <4>2 DEF Alone
    <3> QED
      BY <3>2, <3>3
  <2>3. CASE ~run[r].retain
    <3>1. Rollback(r, "idle") /\ "idle" \in RunPc
      BY <1>6, <2>3 DEF Finish, RunPc
    <3>2. run'[r] = IdleRun
      <4>1. run'[r] = [run[r] EXCEPT !.pc = "idle", !.n = 0, !.past = FALSE, !.late = FALSE]
        BY <1>0, <3>1 DEF Rollback
      <4>2. run[r] \in RunType
        BY <1>0
      <4> QED
        BY <2>3, <4>1, <4>2, ReturnedIsIdle
    <3> QED
      BY <2>1, <3>1, <3>2, HolderReturns
  <2> QED
    BY <2>2, <2>3
<1>7. ASSUME Tick \/ SetBack \/ UNCHANGED vars PROVE Alone'
  BY <1>7 DEF Tick, SetBack, vars, Alone
<1>8. ASSUME Expire PROVE Alone'
  <2>1. CASE lost'
    BY <2>1 DEF Alone
  <2>2. CASE ~lost'
    <3>1. ~lost /\ run[lease] = IdleRun /\ UNCHANGED <<run, tokens, kept, late>>
      BY <1>8, <2>2 DEF Expire
    <3>2. \A q \in Run : run[q] = IdleRun
      BY <3>1 DEF Alone
    <3> QED
      BY <3>1, <3>2 DEF Alone
  <2> QED
    BY <2>1, <2>2
<1>9. ASSUME NEW r \in Run, Crash(r) PROVE Alone'
  <2>1. /\ run'[r] = IdleRun /\ \A q \in Run \ {r} : run'[q] = run[q]
        /\ lost' = lost /\ lease' = lease /\ UNCHANGED <<tokens, kept, late>>
    BY <1>0, <1>9 DEF Crash
  <2> QED
    BY <1>0, <2>1, IdleFields DEF Alone
<1> QED
  BY <1>1, <1>2, <1>3, <1>4, <1>5, <1>6, <1>7, <1>8, <1>9 DEF Next, RunStep

LEMMA InitAlone == Init => Alone
  BY IdleFields DEF Init, Alone

\* The count in the row is exact until a live run loses its lease: whoever
\* reserves also settles before somebody else can start a new window.
THEOREM ExactCount == Spec => []ExactUnderLease
<1>1. TypeOK /\ Alone /\ [Next]_vars => TypeOK' /\ Alone'
  BY TypesPreserved, AlonePreserved
<1>2. Alone => ExactUnderLease
  BY DEF Alone, ExactUnderLease
<1> QED
  BY <1>1, <1>2, InitTypes, InitAlone, PTL DEF Spec

-----------------------------------------------------------------------------
(* The backoff.                                                            *)

\* Unless the clock was set back, the row knows of a failure at least as long
\* as it has been quiet; and a run that has reserved nothing is not past the
\* budget.
Remembers ==
  /\ setBacks = 0 => failAge >= 0 /\ (quiet >= failAge \/ quiet >= Backoff)
  /\ \A r \in Run : run[r].pc \in {"idle", "begun"} => ~run[r].past

\* A step that leaves the failure alone, and lets no run go back to its
\* beginning but without a reservation.
LEMMA StillRemembers ==
  ASSUME Remembers, UNCHANGED <<failAge, quiet>>, setBacks' = setBacks,
         \A r \in Run : run'[r].pc \in {"idle", "begun"} =>
           \/ ~run'[r].past
           \/ run[r].pc \in {"idle", "begun"} /\ run'[r].past = run[r].past
  PROVE  Remembers'
  BY DEF Remembers

LEMMA IdleNotPast == ~IdleRun.past /\ IdleRun.pc = "idle"
  BY DEF IdleRun

LEMMA RollbackNotPast ==
  ASSUME TypeOK, NEW r \in Run, NEW pc, Rollback(r, pc)
  PROVE  ~run'[r].past /\ \A q \in Run \ {r} : run'[q] = run[q]
  <1>1. run[r] \in RunType /\ run \in [Run -> RunType]
    BY DEF TypeOK
  <1>2. run'[r] = [run[r] EXCEPT !.pc = pc, !.n = 0, !.past = FALSE, !.late = FALSE]
    BY <1>1 DEF Rollback
  <1>3. run'[r].past = FALSE
    BY <1>1, <1>2 DEF RunType
  <1> QED
    BY <1>1, <1>3 DEF Rollback

LEMMA RemembersPreserved == TypeOK /\ Remembers /\ [Next]_vars => Remembers'
<1> SUFFICES ASSUME TypeOK, Remembers, [Next]_vars PROVE Remembers'
  OBVIOUS
<1> USE DEF budget, history, bounds
<1>0. run \in [Run -> RunType] /\ Backoff \in Nat /\ quiet \in 0..Backoff
      /\ failAge \in Int /\ failAge <= Never(Backoff) /\ setBacks \in Nat
  BY TimeAssumption DEF TypeOK
<1>1. ASSUME NEW r \in Run, Begin(r) \/ NothingToDrain(r) \/ Forced(r) \/ NotCalled(r)
             \/ Call(r) \/ CallFails(r) \/ Answer(r) \/ Unpublished(r)
      PROVE  Remembers'
  <2>1. UNCHANGED <<failAge, quiet>> /\ setBacks' = setBacks
    BY <1>1 DEF Begin, NothingToDrain, Forced, NotCalled, Call, CallFails, Answer, Unpublished
  <2>2. \A q \in Run \ {r} : run'[q] = run[q]
    BY <1>0, <1>1 DEF Begin, NothingToDrain, Forced, NotCalled, Call, CallFails, Answer,
                      Unpublished, Goto
  <2>3. run'[r].past = run[r].past
    BY <1>0, <1>1 DEF Begin, NothingToDrain, Forced, NotCalled, Call, CallFails, Answer,
                      Unpublished, Goto, RunType
  <2>4. run'[r].pc = "begun" => run[r].pc = "idle"
    BY <1>0, <1>1, IdleNotPast DEF Begin, NothingToDrain, Forced, NotCalled, Call, CallFails,
                      Answer, Unpublished, Goto, RunType
  <2>5. run'[r].pc # "idle"
    BY <1>0, <1>1 DEF Begin, NothingToDrain, Forced, NotCalled, Call, CallFails,
                      Answer, Unpublished, Goto, RunType
  <2> QED
    BY <2>1, <2>2, <2>3, <2>4, <2>5, StillRemembers
<1>2. ASSUME NEW r \in Run, Reserve(r) PROVE Remembers'
  <2>1. UNCHANGED <<failAge, quiet>> /\ setBacks' = setBacks
    BY <1>2 DEF Reserve
  <2>2. PICK u \in Usage, b \in Budgets, n \in 1..(Cap + 1) : Reserved(r, u, b, n)
    BY <1>2 DEF Reserve
  <2>3. run'[r].pc \notin {"idle", "begun"}
    <3> DEFINE w == IF WindowExpired THEN NewWindow ELSE OldWindow
               got == Got(w, u, b, n)
               pc == IF got.n > 0 THEN "reserved" ELSE "refused"
    <3>1. run'[r] = [IdleRun EXCEPT !.pc = pc, !.n = got.n, !.past = got.past]
      BY <2>2 DEF Reserved
    <3>2. pc \in {"reserved", "refused"}
      OBVIOUS
    <3> HIDE DEF w, got, pc
    <3>3. run'[r].pc = pc
      BY <3>1 DEF IdleRun
    <3> QED
      BY <3>2, <3>3
  <2>4. ASSUME NEW q \in Run, q # r PROVE run'[q].pc = run[q].pc /\ run'[q].past = run[q].past
    <3>1. run'[q] = [run[q] EXCEPT !.late = run[q].late \/ (WindowExpired /\ run[q].n > 0)]
      BY <2>2, <2>4 DEF Reserved
    <3>2. run[q] \in RunType
      BY <1>0
    <3> QED
      BY <3>1, <3>2 DEF RunType
  <2> QED
    BY <2>1, <2>3, <2>4, StillRemembers
<1>3. ASSUME NEW r \in Run, NoChunk(r) PROVE Remembers'
  <2>1. UNCHANGED <<failAge, quiet>> /\ setBacks' = setBacks
    BY <1>3 DEF NoChunk, Rollback
  <2> QED
    BY <1>3, <2>1, RollbackNotPast, StillRemembers DEF NoChunk
<1>4. ASSUME NEW r \in Run, Publish(r) PROVE Remembers'
  <2>1. run'[r].pc = "ending" /\ \A q \in Run \ {r} : run'[q] = run[q]
    BY <1>0, <1>4 DEF Publish, RunType
  <2>2. setBacks' = setBacks
    BY <1>4 DEF Publish
  <2>3. CASE failAge' = Never(Backoff) /\ quiet' = Backoff
    BY <1>0, <2>1, <2>2, <2>3 DEF Remembers
  <2>4. CASE UNCHANGED <<failAge, quiet>>
    BY <2>1, <2>2, <2>4, StillRemembers
  <2> QED
    BY <1>4, <2>3, <2>4 DEF Publish
<1>5. ASSUME NEW r \in Run, Finish(r) PROVE Remembers'
  <2>1. CASE run[r].retain
    <3>1. /\ failAge' = 0 /\ quiet' = 0 /\ run'[r] = IdleRun
          /\ \A q \in Run \ {r} : run'[q] = run[q]
      BY <1>0, <1>5, <2>1 DEF Finish
    <3> QED
      BY <1>0, <3>1, IdleNotPast DEF Remembers
  <2>2. CASE ~run[r].retain
    <3>1. Rollback(r, "idle") /\ UNCHANGED <<failAge, quiet>> /\ setBacks' = setBacks
      BY <1>5, <2>2 DEF Finish, Rollback
    <3> QED
      BY <3>1, RollbackNotPast, StillRemembers
  <2> QED
    BY <2>1, <2>2
<1>6. ASSUME Tick PROVE Remembers'
  <2>1. run' = run /\ setBacks' = setBacks
        /\ failAge' = Older(failAge, Backoff) /\ quiet' = Older(quiet, Backoff)
    BY <1>6 DEF Tick
  <2> QED
    BY <1>0, <2>1 DEF Remembers, Older
<1>7. ASSUME SetBack PROVE Remembers'
  <2>1. run' = run /\ setBacks' # 0
    BY <1>0, <1>7 DEF SetBack
  <2> QED
    BY <2>1 DEF Remembers
<1>8. ASSUME Expire \/ UNCHANGED vars PROVE Remembers'
  BY <1>8, StillRemembers DEF Expire, vars
<1>9. ASSUME NEW r \in Run, Crash(r) PROVE Remembers'
  <2>1. run'[r] = IdleRun /\ \A q \in Run \ {r} : run'[q] = run[q]
    BY <1>0, <1>9 DEF Crash
  <2>2. UNCHANGED <<failAge, quiet>> /\ setBacks' = setBacks
    BY <1>9 DEF Crash
  <2> QED
    BY <2>1, <2>2, IdleNotPast, StillRemembers
<1> QED
  BY <1>1, <1>2, <1>3, <1>4, <1>5, <1>6, <1>7, <1>8, <1>9 DEF Next, RunStep

LEMMA InitRemembers == Init => Remembers
  BY TimeAssumption, IdleNotPast DEF Init, Remembers

\* What a run that gets past the budget has read: no failure, or an old one.
LEMMA PastIsAllowed ==
  ASSUME NEW w, NEW u, NEW b, NEW n, Got(w, u, b, n).past
  PROVE  Past(n, u) > 0 /\ ~InBackoff
  <1>1. Got(w, u, b, n).past = (Past(n, u) > 0)
    <2>1. CASE Within(n, b, w.tokens) > 0
      <3>1. Got(w, u, b, n).past = FALSE
        BY <2>1 DEF Got
      <3> QED
        BY <3>1
    <2>2. CASE ~(Within(n, b, w.tokens) > 0)
      BY <2>2 DEF Got
    <2> QED
      BY <2>1, <2>2
  <1>2. Past(n, u) > 0
    BY <1>1
  <1> QED
    BY <1>2 DEF Past

LEMMA BacksOff ==
  ASSUME TypeOK, Remembers, [Next]_vars,
         NEW r \in Run, At(r, "begun"), run'[r].past, setBacks = 0
  PROVE  quiet >= Backoff
<1> USE DEF budget, history, bounds
<1>0. run \in [Run -> RunType] /\ ~run[r].past /\ run[r].pc = "begun"
  BY DEF TypeOK, Remembers, At
<1>1. ASSUME NEW q \in Run, Reserve(q) PROVE quiet >= Backoff
  <2>1. PICK u \in Usage, b \in Budgets, n \in 1..(Cap + 1) : Reserved(q, u, b, n)
    BY <1>1 DEF Reserve
  <2>2. CASE q # r
    <3>1. run'[r] = [run[r] EXCEPT !.late = run[r].late \/ (WindowExpired /\ run[r].n > 0)]
      BY <2>1, <2>2 DEF Reserved
    <3>2. run[r] \in RunType
      BY <1>0
    <3>3. run'[r].past = run[r].past
      BY <3>1, <3>2 DEF RunType
    <3> QED
      BY <1>0, <3>3
  <2>3. CASE q = r
    <3> DEFINE w == IF WindowExpired THEN NewWindow ELSE OldWindow
               got == Got(w, u, b, n)
               pc == IF got.n > 0 THEN "reserved" ELSE "refused"
    <3>1. run'[r] = [IdleRun EXCEPT !.pc = pc, !.n = got.n, !.past = got.past]
      BY <2>1, <2>3 DEF Reserved
    <3> HIDE DEF pc
    <3>2. run'[r].past = Got(w, u, b, n).past
      BY <3>1 DEF IdleRun
    <3> HIDE DEF w
    <3>3. ~InBackoff
      BY <3>2, PastIsAllowed
    <3> QED
      BY <3>3, TimeAssumption DEF InBackoff, Remembers, TypeOK
  <2> QED
    BY <2>2, <2>3
<1>2. ASSUME NEW q \in Run,
             \/ Begin(q) \/ NothingToDrain(q) \/ Forced(q) \/ NotCalled(q) \/ Call(q)
             \/ CallFails(q) \/ Answer(q) \/ Unpublished(q)
      PROVE  run'[r].past = run[r].past
  BY <1>0, <1>2 DEF Begin, NothingToDrain, Forced, NotCalled, Call, CallFails, Answer,
                    Unpublished, Goto, RunType
<1>4. ASSUME NEW q \in Run, Publish(q) PROVE ~run'[r].past
  <2>1. q # r
    BY <1>0, <1>4 DEF Publish, At
  <2> QED
    BY <1>0, <1>4, <2>1 DEF Publish
<1>5. ASSUME NEW q \in Run, Finish(q) \/ NoChunk(q) PROVE ~run'[r].past
  <2>1. q # r
    BY <1>0, <1>5 DEF Finish, NoChunk, At
  <2>2. run'[r] = run[r]
    BY <1>0, <1>5, <2>1 DEF Finish, NoChunk, Rollback
  <2> QED
    BY <1>0, <2>2
<1>6. ASSUME Tick \/ SetBack \/ Expire \/ UNCHANGED vars PROVE run'[r].past = run[r].past
  BY <1>6 DEF Tick, SetBack, Expire, vars
<1>7. ASSUME NEW q \in Run, Crash(q) PROVE ~run'[r].past
  BY <1>0, <1>7, IdleNotPast DEF Crash
<1> QED
  BY <1>0, <1>1, <1>2, <1>4, <1>5, <1>6, <1>7 DEF Next, RunStep

\* After a failed call with no publication since, nobody gets past the budget
\* before the backoff is over, unless the clock was set back.
THEOREM BackoffIsKept == Spec => BackoffHolds
<1>1. TypeOK /\ Remembers /\ [Next]_vars => TypeOK' /\ Remembers'
  BY TypesPreserved, RemembersPreserved
<1>2. TypeOK /\ Remembers /\ [Next]_vars =>
        [\A r \in Run : At(r, "begun") /\ run'[r].past /\ setBacks = 0 => quiet >= Backoff]_vars
  BY BacksOff
<1> QED
  BY <1>1, <1>2, InitTypes, InitRemembers, PTL DEF Spec, BackoffHolds
=============================================================================
