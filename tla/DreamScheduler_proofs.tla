------------------------ MODULE DreamScheduler_proofs ------------------------
(* Theorems about DreamScheduler, for every value of its constants. *)
EXTENDS DreamScheduler, TLAPS

RunType == [pc : Pc, forced : BOOLEAN, todo : SUBSET Task, task : Task \cup {0},
            out : Outcome, age : 0..Ttl + 1, current : BOOLEAN, lost : BOOLEAN,
            overtaken : BOOLEAN]
RowType == [due : Due, schedule : Schedule \cup {Absent, Legacy}, retries : 0..MaxRetries]

USE DEF bounds, At

-----------------------------------------------------------------------------
(* Rows: a write of any kind leaves no disabled task with a date. *)

RowOff(w) == w.schedule = Off => w.due = "off"

LEMMA AdvancedIsOff ==
  ASSUME NEW s \in Schedule
  PROVE  Advanced(s) \in RowType /\ RowOff(Advanced(s))
  BY BoundAssumption DEF Advanced, NextDue, RowType, RowOff, Due

LEMMA ReconciledIsOff ==
  ASSUME TypeOK, OffIsNeverDue, NEW t \in Task, NEW s \in Schedule
  PROVE  Reconciled(t, s) \in RowType /\ RowOff(Reconciled(t, s))
  <1>1. row[t] \in RowType /\ RowOff(row[t])
    BY DEF TypeOK, OffIsNeverDue, RowType, RowOff
  <1>2. CASE row[t].schedule = s
    BY <1>1, <1>2, IdAssumption DEF Reconciled, Schedule
  <1>3. CASE row[t].schedule # s /\ s = Off
    BY <1>1, <1>3 DEF Reconciled, RowType, RowOff, Due
  <1>4. CASE row[t].schedule # s /\ s # Off /\ row[t].schedule = Legacy /\ row[t].due # "off"
    BY <1>1, <1>4 DEF Reconciled, RowType, RowOff
  <1>5. CASE row[t].schedule # s /\ s # Off /\ ~(row[t].schedule = Legacy /\ row[t].due # "off")
    <2>1. Reconciled(t, s) = Advanced(s)
      BY <1>5 DEF Reconciled, Advanced
    <2> QED
      BY <2>1, AdvancedIsOff
  <1> QED
    BY <1>2, <1>3, <1>4, <1>5

LEMMA AfterRunIsOff ==
  ASSUME TypeOK, NEW t \in Task, NEW s \in Schedule, NEW out
  PROVE  AfterRun(t, s, out) \in RowType /\ RowOff(AfterRun(t, s, out))
  <1>1. row[t] \in RowType
    BY DEF TypeOK, RowType
  <1>2. CASE out # "transient" \/ row[t].retries + 1 > MaxRetries
    BY <1>2, AdvancedIsOff DEF AfterRun, AfterTransient
  <1>3. CASE out = "transient" /\ ~(row[t].retries + 1 > MaxRetries)
    <2>1. row[t].retries + 1 \in 0..MaxRetries
      BY <1>1, <1>3, BoundAssumption DEF RowType
    <2>2. AfterRun(t, s, out) =
            [due |-> IF s = Off THEN "off" ELSE IF row[t].due = "off" THEN "due" ELSE row[t].due,
             schedule |-> s, retries |-> row[t].retries + 1]
      BY <1>3 DEF AfterRun, AfterTransient
    <2> QED
      BY <1>1, <2>1, <2>2 DEF RowType, RowOff, Due
  <1> QED
    BY <1>2, <1>3

-----------------------------------------------------------------------------
(* Types. *)

LEMMA TypeIs ==
  TypeOK <=> /\ lease \in [holder : Run \cup {Nobody, Gone}, left : -1..Ttl]
             /\ row \in [Task -> RowType]
             /\ work \in [Task -> BOOLEAN]
             /\ config \in [Run -> [Task -> Schedule]]
             /\ run \in [Run -> RunType]
             /\ faults \in 0..MaxFaults /\ requests \in 0..MaxRequests
  BY DEF TypeOK, RowType, RunType

LEMMA ZeroAge == 0 \in 0..Ttl + 1
  BY DEF Ttl

LEMMA IdleIsARun == IdleRun \in RunType
  BY BoundAssumption DEF IdleRun, RunType, Pc, Outcome, Ttl

\* A run that changes one field at a time stays a run.
LEMMA ChangedIsARun ==
  ASSUME NEW q \in RunType
  PROVE  /\ \A x \in Pc : [q EXCEPT !.pc = x] \in RunType
         /\ \A x \in SUBSET Task : [q EXCEPT !.todo = x] \in RunType
         /\ \A x \in Task \cup {0} : [q EXCEPT !.task = x] \in RunType
         /\ \A x \in Outcome : [q EXCEPT !.out = x] \in RunType
         /\ \A x \in 0..Ttl + 1 : [q EXCEPT !.age = x] \in RunType
         /\ \A x \in BOOLEAN : [q EXCEPT !.current = x] \in RunType
         /\ \A x \in BOOLEAN : [q EXCEPT !.lost = x] \in RunType
         /\ \A x \in BOOLEAN : [q EXCEPT !.overtaken = x] \in RunType
  BY DEF RunType

LEMMA OneChanges ==
  ASSUME run \in [Run -> RunType], NEW r \in Run, NEW x \in RunType, run' = [run EXCEPT ![r] = x]
  PROVE  /\ run' \in [Run -> RunType] /\ run'[r] = x
         /\ \A q \in Run \ {r} : run'[q] = run[q]
  OBVIOUS

-----------------------------------------------------------------------------
(* Who holds the lease, and who knows it. *)

BeatPc == {"work", "checking", "retaking"}

\* A run whose generation is the lease's has not lost it to another run.
HolderOnly == \A r \in Run : run[r].current => lease.holder \in {r, Nobody, Gone}
\* A run at work that holds the lease and has not given it up, has kept it.
KnowsLease ==
  \A r \in Run : run[r].pc \in BeatPc /\ ~run[r].lost /\ lease.holder = r => run[r].current
\* As long as it has kept it, nobody else has written.
Alone == \A r \in Run : run[r].pc \in BeatPc /\ run[r].current => ~run[r].overtaken

Books == HolderOnly /\ KnowsLease /\ Alone

\* A record that may follow that of run q when the lease goes to nobody new.
Follows(q, x) ==
  \/ x = run[q]
  \/ x.pc \notin BeatPc /\ (x.current => run[q].current)
  \/ /\ x.pc \in BeatPc /\ x.current = run[q].current
     /\ x.lost \/ x.current \/ (run[q].pc \in BeatPc /\ ~run[q].lost)
     /\ x.current => ~x.overtaken

LEMMA QuietStep ==
  ASSUME TypeOK, Books, lease'.holder \in {lease.holder, Nobody, Gone},
         \A q \in Run : Follows(q, run'[q])
  PROVE  Books'
  <1>1. HolderOnly'
    BY DEF HolderOnly, Books, Follows
  <1>2. KnowsLease'
    <2>1. SUFFICES ASSUME NEW q \in Run, run'[q].pc \in BeatPc, ~run'[q].lost, lease'.holder = q
                   PROVE  run'[q].current
      BY DEF KnowsLease
    <2>2. lease.holder = q
      BY <2>1, IdAssumption
    <2> QED
      BY <2>1, <2>2 DEF KnowsLease, Books, Follows
  <1>3. Alone'
    BY DEF Alone, Books, Follows
  <1> QED
    BY <1>1, <1>2, <1>3 DEF Books

\* A step of one run that leaves the lease, or takes it from its holder.
LEMMA OneFollows ==
  ASSUME TypeOK, Books, lease'.holder \in {lease.holder, Nobody, Gone},
         NEW r \in Run, NEW x \in RunType, Follows(r, x), run' = [run EXCEPT ![r] = x]
  PROVE  run' \in [Run -> RunType] /\ Books'
  <1>1. run \in [Run -> RunType]
    BY TypeIs
  <1>2. run' \in [Run -> RunType] /\ run'[r] = x /\ \A q \in Run \ {r} : run'[q] = run[q]
    BY <1>1, OneChanges
  <1>3. \A q \in Run : Follows(q, run'[q])
    BY <1>2 DEF Follows
  <1> QED
    BY <1>2, <1>3, QuietStep

\* The run ends.
LEMMA EndFollows ==
  ASSUME TypeOK, Books, lease'.holder \in {lease.holder, Nobody, Gone}, NEW r \in Run, Ends(r)
  PROVE  run' \in [Run -> RunType] /\ Books'
  <1>1. Follows(r, IdleRun)
    BY DEF Follows, IdleRun, BeatPc
  <1> QED
    BY <1>1, IdleIsARun, OneFollows DEF Ends

\* The run goes on, changing nothing of what it knows of the lease.
LEMMA MoveFollows ==
  ASSUME TypeOK, Books, lease'.holder \in {lease.holder, Nobody, Gone},
         NEW r \in Run, NEW x \in RunType, x.current = run[r].current,
         x.pc \notin BeatPc \/ (run[r].pc \in BeatPc /\ x.overtaken = run[r].overtaken
                                 /\ (run[r].lost => x.lost)),
         run' = [run EXCEPT ![r] = x]
  PROVE  run' \in [Run -> RunType] /\ Books'
  <1>1. Follows(r, x)
    BY DEF Follows, Books, Alone
  <1> QED
    BY <1>1, OneFollows

-----------------------------------------------------------------------------
(* The invariant, and what each action does to it. *)

Inv == TypeOK /\ OffIsNeverDue /\ Books

\* The rows, with the rest of the types at hand.
LEMMA Whole ==
  ASSUME Inv, run' \in [Run -> RunType], Books',
         lease' \in [holder : Run \cup {Nobody, Gone}, left : -1..Ttl],
         row' \in [Task -> RowType], \A t \in Task : RowOff(row'[t]),
         work' \in [Task -> BOOLEAN], config' \in [Run -> [Task -> Schedule]],
         faults' \in 0..MaxFaults, requests' \in 0..MaxRequests
  PROVE  Inv'
  <1>1. OffIsNeverDue'
    BY DEF OffIsNeverDue, RowOff
  <1>2. TypeOK'
    BY DEF TypeOK, RowType, RunType
  <1> QED
    BY <1>1, <1>2 DEF Inv

LEMMA RowsNow == ASSUME Inv PROVE row \in [Task -> RowType] /\ \A t \in Task : RowOff(row[t])
  BY DEF Inv, TypeOK, OffIsNeverDue, RowOff, RowType

\* A record of the run with another program counter, and perhaps one field more.
Moved(r, pc) == [run[r] EXCEPT !.pc = pc]

LEMMA PlanKeeps == ASSUME Inv, NEW r \in Run, Plan(r) PROVE Inv'
  <1> DEFINE rec == [t \in Task |-> Reconciled(t, config[r][t])]
             due == {t \in Task : rec[t].due = "due"}
             todo == {t \in due : work[t]}
  <1>1. TypeOK /\ OffIsNeverDue /\ Books /\ run[r] \in RunType
    BY TypeIs DEF Inv
  <1>2. \A t \in Task : config[r][t] \in Schedule
    BY <1>1 DEF TypeOK
  <1>3. row' = [t \in Task |-> IF t \in due \ todo THEN Advanced(config[r][t]) ELSE rec[t]]
    BY DEF Plan
  <1>4. ASSUME NEW t \in Task PROVE row'[t] \in RowType /\ RowOff(row'[t])
    <2>1. row'[t] = Advanced(config[r][t]) \/ row'[t] = Reconciled(t, config[r][t])
      BY <1>3
    <2> QED
      BY <1>1, <1>2, <2>1, AdvancedIsOff, ReconciledIsOff
  <1>5. row' \in [Task -> RowType]
    BY <1>3, <1>4
  <1>6. run' \in [Run -> RunType] /\ Books'
    <2>1. CASE run' = run
      BY <1>1, <2>1, QuietStep, TypeIs DEF Plan, Follows
    <2>2. CASE run' = [run EXCEPT ![r].pc = "acquire", ![r].todo = todo]
      <3> DEFINE x == [Moved(r, "acquire") EXCEPT !.todo = todo]
      <3>1. run' = [run EXCEPT ![r] = x]
        BY <1>1, <2>2, TypeIs DEF Moved, RunType
      <3>2. Moved(r, "acquire") \in RunType /\ todo \in SUBSET Task
        BY <1>1, ChangedIsARun DEF Moved, Pc
      <3>3. x \in RunType
        BY <3>2, ChangedIsARun
      <3>4. x.pc = "acquire" /\ x.current = run[r].current
        BY <1>1 DEF Moved, RunType
      <3>5. lease' = lease /\ x.pc \notin BeatPc
        BY <3>4 DEF Plan, BeatPc
      <3> HIDE DEF x
      <3> QED
        BY <1>1, <3>1, <3>3, <3>4, <3>5, MoveFollows
    <2> QED
      BY <2>1, <2>2 DEF Plan
  <1> QED
    BY <1>1, <1>4, <1>5, <1>6, Whole, TypeIs DEF Plan

LEMMA ManualKeeps == ASSUME Inv, NEW r \in Run, Manual(r) PROVE Inv'
  <1>1. TypeOK /\ OffIsNeverDue /\ Books /\ run[r] \in RunType
    BY TypeIs DEF Inv
  <1>2. PICK S \in {{t} : t \in Task} \cup {{t \in Task : config[r][t] # Off}}, forced \in BOOLEAN :
          /\ row' = [t \in Task |-> IF t \in S THEN Seeded(t, config[r][t]) ELSE row[t]]
          /\ LET todo == IF forced THEN S ELSE {t \in S : work[t]}
             IN run' = IF todo = {} THEN run
                       ELSE [run EXCEPT ![r] = [IdleRun EXCEPT !.pc = "acquire", !.todo = todo,
                                                               !.forced = forced]]
    BY DEF Manual
  <1>3. ASSUME NEW t \in Task PROVE row'[t] \in RowType /\ RowOff(row'[t])
    <2>1. row'[t] = row[t] \/ row'[t] = Advanced(config[r][t])
      BY <1>2 DEF Seeded
    <2>2. config[r][t] \in Schedule
      BY <1>1 DEF TypeOK
    <2> QED
      BY <2>1, <2>2, AdvancedIsOff, RowsNow
  <1>4. row' \in [Task -> RowType]
    BY <1>2, <1>3
  <1>5. run' \in [Run -> RunType] /\ Books'
    <2> DEFINE todo == IF forced THEN S ELSE {t \in S : work[t]}
               x == [IdleRun EXCEPT !.pc = "acquire", !.todo = todo, !.forced = forced]
    <2>1. CASE run' = run
      BY <1>1, <2>1, QuietStep, TypeIs DEF Manual, Follows
    <2>2. CASE run' = [run EXCEPT ![r] = x]
      <3>1. S \in SUBSET Task
        BY <1>2
      <3>2. todo \in SUBSET Task
        BY <3>1
      <3>3. x \in RunType /\ x.pc = "acquire" /\ ~x.current
        BY <3>2, IdleIsARun DEF IdleRun, RunType, Pc
      <3>4. Follows(r, x)
        BY <3>3 DEF Follows, BeatPc
      <3> HIDE DEF x
      <3> QED
        BY <1>1, <2>2, <3>3, <3>4, OneFollows DEF Manual
    <2> QED
      BY <1>2, <2>1, <2>2
  <1>6. requests' \in 0..MaxRequests
    BY <1>1, BoundAssumption DEF Manual, TypeOK
  <1> QED
    BY <1>1, <1>3, <1>4, <1>5, <1>6, Whole, TypeIs DEF Manual

\* Taking the lease: whoever else had kept it has lost it now.
LEMMA AcquireKeeps == ASSUME Inv, NEW r \in Run, Acquire(r) PROVE Inv'
  <1>1. TypeOK /\ Books /\ run \in [Run -> RunType]
    BY TypeIs DEF Inv
  <1>2. lease' = [holder |-> r, left |-> Ttl]
    BY DEF Acquire, TakeLease
  <1>3. ASSUME NEW q \in Run
        PROVE  /\ run'[q] \in RunType
               /\ run'[q].current <=> (q = r \/ StillCurrent(q, r))
               /\ q # r => /\ run'[q].pc = run[q].pc /\ run'[q].lost = run[q].lost
                           /\ run'[q].overtaken = run[q].overtaken
               /\ q = r => run'[q].pc = "group"
    <2> DEFINE y == [run[q] EXCEPT !.current = (q = r \/ StillCurrent(q, r)),
                                   !.pc = IF q = r THEN "group" ELSE run[q].pc]
    <2>1. run'[q] = y
      BY <1>3 DEF Acquire
    <2>2. run[q] \in RunType
      BY <1>1, <1>3
    <2>3. (q = r \/ StillCurrent(q, r)) \in BOOLEAN
      OBVIOUS
    <2> DEFINE c == (q = r \/ StillCurrent(q, r))
    <2> HIDE DEF c
    <2>4. [run[q] EXCEPT !.current = c, !.pc = IF q = r THEN "group" ELSE run[q].pc] \in RunType
      BY <2>2, <2>3 DEF RunType, Pc, c
    <2> USE DEF c
    <2>5. y.current = (q = r \/ StillCurrent(q, r))
      BY <2>2 DEF RunType
    <2>6. /\ y.lost = run[q].lost /\ y.overtaken = run[q].overtaken
          /\ y.pc = IF q = r THEN "group" ELSE run[q].pc
      BY <2>2 DEF RunType
    <2> HIDE DEF c
    <2> QED
      BY <2>1, <2>4, <2>5, <2>6 DEF c
  <1>4. run' \in [Run -> RunType]
    BY <1>3 DEF Acquire
  <1>5. ASSUME NEW q \in Run, run'[q].current PROVE q = r
    <2>1. SUFFICES ASSUME q # r PROVE FALSE
      OBVIOUS
    <2>2. run[q].current /\ lease.holder = r
      BY <1>3, <1>5, <2>1 DEF StillCurrent, KeepsGeneration
    <2>3. lease.holder \in {q, Nobody, Gone}
      BY <1>1, <2>2 DEF Books, HolderOnly
    <2> QED
      BY <2>1, <2>2, <2>3, IdAssumption
  <1>6. HolderOnly'
    BY <1>2, <1>5 DEF HolderOnly
  <1>7. KnowsLease'
    BY <1>2, <1>3 DEF KnowsLease, BeatPc
  <1>8. Alone'
    BY <1>3, <1>5 DEF Alone, BeatPc
  <1>9. lease' \in [holder : Run \cup {Nobody, Gone}, left : -1..Ttl]
    BY <1>2 DEF Ttl
  <1> QED
    BY <1>1, <1>4, <1>6, <1>7, <1>8, <1>9, Whole, RowsNow, TypeIs DEF Books, Acquire

LEMMA BusyKeeps == ASSUME Inv, NEW r \in Run, Busy(r) PROVE Inv'
  <1>1. TypeOK /\ Books
    BY DEF Inv
  <1>2. run' \in [Run -> RunType] /\ Books'
    BY <1>1, EndFollows DEF Busy
  <1> QED
    BY <1>1, <1>2, Whole, RowsNow, TypeIs DEF Busy

LEMMA BreakKeeps == ASSUME Inv, NEW r \in Run, Break(r) PROVE Inv'
  <1>1. TypeOK /\ Books /\ run[r] \in RunType
    BY TypeIs DEF Inv
  <1>2. Moved(r, "release") \in RunType
    BY <1>1, ChangedIsARun DEF Moved, Pc
  <1>3. run' = [run EXCEPT ![r] = Moved(r, "release")]
    BY DEF Break, Moved
  <1>4. Moved(r, "release").current = run[r].current /\ Moved(r, "release").pc \notin BeatPc
    BY <1>1 DEF Moved, RunType, BeatPc
  <1>5. run' \in [Run -> RunType] /\ Books'
    BY <1>1, <1>2, <1>3, <1>4, MoveFollows DEF Break
  <1> QED
    BY <1>1, <1>5, Whole, RowsNow, TypeIs DEF Break

LEMMA SkipKeeps == ASSUME Inv, NEW r \in Run, Skip(r) PROVE Inv'
  <1>1. TypeOK /\ Books /\ run[r] \in RunType
    BY TypeIs DEF Inv
  <1>2. PICK t \in Task : /\ row' = [row EXCEPT ![t] = Advanced(config[r][t])]
                          /\ run' = [run EXCEPT ![r].todo = @ \ {t}]
    BY DEF Skip
  <1>3. Advanced(config[r][t]) \in RowType /\ RowOff(Advanced(config[r][t]))
    BY <1>1, AdvancedIsOff DEF TypeOK
  <1>4. row' \in [Task -> RowType] /\ \A u \in Task : RowOff(row'[u])
    BY <1>2, <1>3, RowsNow
  <1> DEFINE x == [run[r] EXCEPT !.todo = run[r].todo \ {t}]
  <1>5. x \in RunType
    <2>1. run[r].todo \ {t} \in SUBSET Task
      BY <1>1 DEF RunType
    <2> QED
      BY <1>1, <2>1, ChangedIsARun
  <1>6. run' = [run EXCEPT ![r] = x] /\ x.current = run[r].current /\ x.pc \notin BeatPc
    BY <1>1, <1>2 DEF RunType, Skip, BeatPc
  <1> HIDE DEF x
  <1>7. run' \in [Run -> RunType] /\ Books'
    BY <1>1, <1>5, <1>6, MoveFollows DEF Skip
  <1> QED
    BY <1>1, <1>4, <1>7, Whole, TypeIs DEF Skip

LEMMA StartTaskKeeps == ASSUME Inv, NEW r \in Run, StartTask(r) PROVE Inv'
  <1>1. TypeOK /\ Books /\ run[r] \in RunType
    BY TypeIs DEF Inv
  <1>2. PICK t \in Task :
          run' = [run EXCEPT ![r].pc = "setup", ![r].task = t, ![r].todo = @ \ {t}]
    BY DEF StartTask
  <1> DEFINE x == [run[r] EXCEPT !.pc = "setup", !.task = t, !.todo = run[r].todo \ {t}]
  <1>3. x \in RunType
    BY <1>1 DEF RunType, Pc
  <1>4. run' = [run EXCEPT ![r] = x] /\ x.current = run[r].current /\ x.pc \notin BeatPc
    BY <1>1, <1>2 DEF RunType, BeatPc
  <1> HIDE DEF x
  <1>5. run' \in [Run -> RunType] /\ Books'
    BY <1>1, <1>3, <1>4, MoveFollows DEF StartTask
  <1> QED
    BY <1>1, <1>5, Whole, RowsNow, TypeIs DEF StartTask

LEMMA SetupKeeps == ASSUME Inv, NEW r \in Run, Setup(r) PROVE Inv'
  <1>1. TypeOK /\ Books /\ run[r] \in RunType
    BY TypeIs DEF Inv
  <1>2. lease' \in [holder : Run \cup {Nobody, Gone}, left : -1..Ttl] /\ lease'.holder = lease.holder
    BY <1>1, TypeIs DEF Setup, Ttl
  <1>3. CASE OwnershipMatches(r)
    <2>1. PICK a \in 0..Ttl + 1, pc \in {"work", "checking"} :
            run' = [run EXCEPT ![r].pc = pc, ![r].age = a, ![r].overtaken = FALSE]
      <3>1. CASE Active
        <4>1. run' = [run EXCEPT ![r].pc = "work", ![r].age = 0, ![r].overtaken = FALSE]
          BY <1>3, <3>1 DEF Setup
        <4> QED
          BY <4>1 DEF Ttl
      <3>2. CASE ~Active
        <4>1. PICK a \in {Ttl, Ttl + 1} :
                run' = [run EXCEPT ![r].pc = "checking", ![r].age = a, ![r].overtaken = FALSE]
          BY <1>3, <3>2 DEF Setup
        <4>2. a \in 0..Ttl + 1
          BY DEF Ttl
        <4> QED
          BY <4>1, <4>2
      <3> QED
        BY <3>1, <3>2
    <2> DEFINE x == [run[r] EXCEPT !.pc = pc, !.age = a, !.overtaken = FALSE]
    <2>2. x \in RunType
      BY <1>1, <2>1 DEF RunType, Pc
    <2>3. run' = [run EXCEPT ![r] = x] /\ x.pc \in BeatPc
          /\ x.current = run[r].current /\ x.overtaken = FALSE
      BY <1>1, <2>1 DEF RunType, BeatPc
    <2>4. Follows(r, x)
      BY <1>3, <2>3 DEF Follows, OwnershipMatches
    <2> HIDE DEF x
    <2> QED
      BY <1>1, <1>2, <2>2, <2>3, <2>4, OneFollows, Whole, RowsNow, TypeIs DEF Setup
  <1>4. CASE ~OwnershipMatches(r)
    <2> DEFINE x == [run[r] EXCEPT !.pc = "finish", !.out = "transient"]
    <2>1. x \in RunType
      BY <1>1 DEF RunType, Pc, Outcome
    <2>2. run' = [run EXCEPT ![r] = x] /\ x.current = run[r].current /\ x.pc \notin BeatPc
      BY <1>1, <1>4 DEF RunType, BeatPc, Setup
    <2> HIDE DEF x
    <2>3. run' \in [Run -> RunType] /\ Books'
      BY <1>1, <1>2, <2>1, <2>2, MoveFollows
    <2> QED
      BY <1>1, <1>2, <2>3, Whole, RowsNow, TypeIs DEF Setup
  <1> QED
    BY <1>3, <1>4

LEMMA RenewKeeps == ASSUME Inv, NEW r \in Run, Renew(r) PROVE Inv'
  <1>1. TypeOK /\ Books /\ run[r] \in RunType /\ run[r].pc \in BeatPc
    BY TypeIs DEF Inv, Renew, BeatPc
  <1>2. lease' \in [holder : Run \cup {Nobody, Gone}, left : -1..Ttl] /\ lease'.holder = lease.holder
    BY <1>1, TypeIs DEF Renew, Ttl
  <1>3. PICK x \in RunType : /\ run' = [run EXCEPT ![r] = x] /\ x.current = run[r].current
                             /\ x.overtaken = run[r].overtaken /\ x.lost = run[r].lost
    <2>1. CASE Renewable(r)
      <3> DEFINE y == [run[r] EXCEPT !.age = 0]
      <3>1. y \in RunType
        BY <1>1, ChangedIsARun, ZeroAge
      <3>2. run' = [run EXCEPT ![r] = y]
        BY <2>1 DEF Renew
      <3>3. y.current = run[r].current /\ y.overtaken = run[r].overtaken /\ y.lost = run[r].lost
        BY <1>1 DEF RunType
      <3> QED
        BY <3>1, <3>2, <3>3
    <2>2. CASE ~Renewable(r)
      <3> DEFINE y == [run[r] EXCEPT !.pc = "checking"]
      <3>1. y \in RunType
        BY <1>1, ChangedIsARun DEF Pc
      <3>2. run' = [run EXCEPT ![r] = y]
        BY <2>2 DEF Renew
      <3>3. y.current = run[r].current /\ y.overtaken = run[r].overtaken /\ y.lost = run[r].lost
        BY <1>1 DEF RunType
      <3> QED
        BY <3>1, <3>2, <3>3
    <2> QED
      BY <2>1, <2>2
  <1>4. run' \in [Run -> RunType] /\ Books'
    BY <1>1, <1>2, <1>3, MoveFollows
  <1> QED
    BY <1>1, <1>2, <1>4, Whole, RowsNow, TypeIs DEF Renew

\* A run that gives the lease up.
LEMMA LostFollows ==
  ASSUME TypeOK, Books, NEW r \in Run, run[r].pc \in BeatPc, DeclareLost(r), lease' = lease
  PROVE  run' \in [Run -> RunType] /\ Books'
  <1> DEFINE x == [run[r] EXCEPT !.pc = "work", !.lost = TRUE, !.age = 0]
  <1>1. run[r] \in RunType
    BY TypeIs
  <1>2. x \in RunType
    BY <1>1, ZeroAge DEF RunType, Pc
  <1>3. run' = [run EXCEPT ![r] = x]
    BY DEF DeclareLost
  <1>4. x.current = run[r].current /\ x.overtaken = run[r].overtaken /\ x.lost
    BY <1>1 DEF RunType
  <1> HIDE DEF x
  <1> QED
    BY <1>2, <1>3, <1>4, MoveFollows

LEMMA CheckGenerationKeeps == ASSUME Inv, NEW r \in Run, CheckGeneration(r) PROVE Inv'
  <1>1. TypeOK /\ Books /\ run[r] \in RunType /\ run[r].pc \in BeatPc
    BY TypeIs DEF Inv, CheckGeneration, BeatPc
  <1>2. CASE ~run[r].current \/ Lapsed(r)
    BY <1>1, <1>2, LostFollows, Whole, RowsNow, TypeIs DEF CheckGeneration
  <1>3. CASE ~(~run[r].current \/ Lapsed(r))
    <2>1. run' = [run EXCEPT ![r] = Moved(r, "retaking")]
      BY <1>3 DEF CheckGeneration, Moved
    <2>2. Moved(r, "retaking") \in RunType
      BY <1>1, ChangedIsARun DEF Moved, Pc
    <2>3. /\ Moved(r, "retaking").current = run[r].current
          /\ Moved(r, "retaking").overtaken = run[r].overtaken
          /\ Moved(r, "retaking").lost = run[r].lost
      BY <1>1 DEF Moved, RunType
    <2>4. run' \in [Run -> RunType] /\ Books'
      BY <1>1, <2>1, <2>2, <2>3, MoveFollows DEF CheckGeneration
    <2> QED
      BY <1>1, <2>4, Whole, RowsNow, TypeIs DEF CheckGeneration
  <1> QED
    BY <1>2, <1>3

\* Taking the lease again: kept by a run that still held it, else lost.
LEMMA RetakeKeeps == ASSUME Inv, NEW r \in Run, Retake(r) PROVE Inv'
  <1>1. TypeOK /\ Books /\ run \in [Run -> RunType] /\ run[r].pc \in BeatPc
    BY TypeIs DEF Inv, Retake, BeatPc
  <1>2. CASE ~Free(r)
    BY <1>1, <1>2, LostFollows, Whole, RowsNow, TypeIs DEF Retake
  <1>3. CASE Free(r)
    <2>1. lease' = [holder |-> r, left |-> Ttl]
      BY <1>3 DEF Retake, TakeLease
    <2>2. ASSUME NEW q \in Run
          PROVE  /\ run'[q] \in RunType
                 /\ run'[q].current <=> StillCurrent(q, r)
                 /\ run'[q].overtaken = run[q].overtaken
                 /\ run'[q].pc \in BeatPc <=> run[q].pc \in BeatPc
                 /\ q = r => (run'[q].lost <=> ~StillCurrent(r, r))
      <3> DEFINE c == StillCurrent(q, r)
                 l == IF q = r THEN ~StillCurrent(r, r) ELSE run[q].lost
      <3>1. run[q] \in RunType
        BY <1>1, <2>2
      <3>2. run[q].current \in BOOLEAN /\ run[q].lost \in BOOLEAN
        BY <3>1 DEF RunType
      <3>3. c \in BOOLEAN
        BY <3>2 DEF StillCurrent
      <3>4. l \in BOOLEAN
        BY <3>2 DEF StillCurrent
      <3>5. run'[q] = [run[q] EXCEPT !.current = c,
                                     !.pc = IF q = r THEN "work" ELSE run[q].pc,
                                     !.age = IF q = r THEN 0 ELSE run[q].age,
                                     !.lost = l]
        BY <1>3, <2>2 DEF Retake
      <3>6. (q = r => (l <=> ~StillCurrent(r, r))) /\ (c <=> StillCurrent(q, r))
        OBVIOUS
      <3> HIDE DEF c, l
      <3>7. run'[q] \in RunType
        BY <3>1, <3>3, <3>4, <3>5, ZeroAge DEF RunType, Pc
      <3>8. /\ run'[q].current = c /\ run'[q].lost = l /\ run'[q].overtaken = run[q].overtaken
            /\ run'[q].pc = IF q = r THEN "work" ELSE run[q].pc
        BY <3>1, <3>5 DEF RunType
      <3> QED
        BY <1>1, <3>6, <3>7, <3>8 DEF BeatPc
    <2>3. run' \in [Run -> RunType]
      BY <1>3, <2>2 DEF Retake
    <2>4. ASSUME NEW q \in Run, run'[q].current PROVE q = r
      <3>1. SUFFICES ASSUME q # r PROVE FALSE
        OBVIOUS
      <3>2. run[q].current /\ lease.holder = r
        BY <2>2, <2>4 DEF StillCurrent, KeepsGeneration
      <3>3. lease.holder \in {q, Nobody, Gone}
        BY <1>1, <3>2 DEF Books, HolderOnly
      <3> QED
        BY <3>1, <3>2, <3>3, IdAssumption
    <2>5. HolderOnly'
      BY <2>1, <2>4 DEF HolderOnly
    <2>6. KnowsLease'
      BY <2>1, <2>2 DEF KnowsLease
    <2>7. Alone'
      BY <1>1, <2>2 DEF Alone, Books, StillCurrent
    <2>8. lease' \in [holder : Run \cup {Nobody, Gone}, left : -1..Ttl]
      BY <2>1 DEF Ttl
    <2> QED
      BY <1>1, <2>3, <2>5, <2>6, <2>7, <2>8, Whole, RowsNow, TypeIs DEF Books, Retake
  <1> QED
    BY <1>2, <1>3

\* A write overtakes the other runs; none of them has the lease's generation.
LEMMA GuardedWriteKeeps == ASSUME Inv, NEW r \in Run, GuardedWrite(r) PROVE Inv'
  <1>1. TypeOK /\ Books /\ run \in [Run -> RunType] /\ lease.holder = r
    BY TypeIs DEF Inv, GuardedWrite, Owns
  <1>2. PICK out \in {"completed", "transient"} :
          /\ work' = IF out = "completed" THEN [work EXCEPT ![run[r].task] = FALSE] ELSE work
          /\ run' = [q \in Run |-> [run[q] EXCEPT
                       !.overtaken = @ \/ q # r,
                       !.pc = IF q = r THEN "finish" ELSE @,
                       !.out = IF q = r THEN out ELSE @]]
    BY DEF GuardedWrite
  <1>3. work' \in [Task -> BOOLEAN]
    BY <1>1, <1>2, TypeIs
  <1>4. ASSUME NEW q \in Run
        PROVE  /\ run'[q] \in RunType
               /\ run'[q].current = run[q].current /\ run'[q].lost = run[q].lost
               /\ run'[q].pc = IF q = r THEN "finish" ELSE run[q].pc
    <2> DEFINE o == run[q].overtaken \/ q # r
    <2>1. run[q] \in RunType
      BY <1>1, <1>4
    <2>2. o \in BOOLEAN
      OBVIOUS
    <2>3. run'[q] = [run[q] EXCEPT !.overtaken = o,
                                   !.pc = IF q = r THEN "finish" ELSE run[q].pc,
                                   !.out = IF q = r THEN out ELSE run[q].out]
      BY <1>2, <1>4
    <2> HIDE DEF o
    <2>4. run'[q] \in RunType
      <3> DEFINE pc == IF q = r THEN "finish" ELSE run[q].pc
                 outcome == IF q = r THEN out ELSE run[q].out
      <3>1. pc \in Pc
        BY <2>1 DEF RunType, Pc
      <3>2. outcome \in Outcome
        BY <1>2, <2>1 DEF RunType, Outcome
      <3>3. run'[q] = [run[q] EXCEPT !.overtaken = o, !.pc = pc, !.out = outcome]
        BY <2>3
      <3> HIDE DEF pc, outcome
      <3> QED
        BY <2>1, <2>2, <3>1, <3>2, <3>3 DEF RunType
    <2>5. /\ run'[q].current = run[q].current /\ run'[q].lost = run[q].lost
          /\ run'[q].pc = IF q = r THEN "finish" ELSE run[q].pc
      BY <2>1, <2>3 DEF RunType
    <2> QED
      BY <2>4, <2>5
  <1>5. run' \in [Run -> RunType]
    BY <1>2, <1>4
  <1>6. lease' = lease
    BY DEF GuardedWrite
  <1>7. HolderOnly'
    BY <1>1, <1>4, <1>6 DEF HolderOnly, Books
  <1>8. KnowsLease'
    BY <1>1, <1>4, <1>6 DEF KnowsLease, Books, BeatPc
  <1>9. Alone'
    <2>1. SUFFICES ASSUME NEW q \in Run, run'[q].pc \in BeatPc, run'[q].current PROVE FALSE
      BY DEF Alone
    <2>2. q # r /\ run[q].current
      BY <1>4, <2>1 DEF BeatPc
    <2> QED
      BY <1>1, <2>2, IdAssumption DEF Books, HolderOnly
  <1> QED
    BY <1>1, <1>3, <1>5, <1>7, <1>8, <1>9, Whole, RowsNow, TypeIs DEF Books, GuardedWrite

LEMMA FailKeeps == ASSUME Inv, NEW r \in Run, Fail(r) PROVE Inv'
  <1>1. TypeOK /\ Books /\ run[r] \in RunType
    BY TypeIs DEF Inv
  <1>2. PICK out \in Outcome : run' = [run EXCEPT ![r].pc = "finish", ![r].out = out]
    BY DEF Fail, Outcome
  <1> DEFINE x == [run[r] EXCEPT !.pc = "finish", !.out = out]
  <1>3. x \in RunType
    BY <1>1, <1>2 DEF RunType, Pc
  <1>4. run' = [run EXCEPT ![r] = x] /\ x.current = run[r].current /\ x.pc \notin BeatPc
    BY <1>1, <1>2 DEF RunType, BeatPc
  <1> HIDE DEF x
  <1>5. run' \in [Run -> RunType] /\ Books'
    BY <1>1, <1>3, <1>4, MoveFollows DEF Fail
  <1> QED
    BY <1>1, <1>5, Whole, RowsNow, TypeIs DEF Fail

\* The row is written whoever holds the lease.
LEMMA FinishKeeps == ASSUME Inv, NEW r \in Run, Finish(r) PROVE Inv'
  <1>1. TypeOK /\ Books /\ run[r] \in RunType
    BY TypeIs DEF Inv
  <1> DEFINE t == run[r].task
             w == AfterRun(t, config[r][t], run[r].out)
  <1>2. row' = [row EXCEPT ![t] = w]
    BY DEF Finish
  <1>3. t \in Task => w \in RowType /\ RowOff(w)
    BY <1>1, AfterRunIsOff DEF TypeOK
  <1>4. row' \in [Task -> RowType] /\ \A u \in Task : RowOff(row'[u])
    <2> HIDE DEF w, t
    <2> QED
      BY <1>2, <1>3, RowsNow
  <1> DEFINE x == [run[r] EXCEPT !.pc = "group", !.task = 0, !.out = "none",
                                 !.age = 0, !.lost = FALSE, !.overtaken = FALSE]
  <1>5. x \in RunType
    BY <1>1, ZeroAge DEF RunType, Pc, Outcome
  <1>6. run' = [run EXCEPT ![r] = x] /\ x.current = run[r].current /\ x.pc \notin BeatPc
    BY <1>1 DEF RunType, BeatPc, Finish
  <1> HIDE DEF x
  <1>7. run' \in [Run -> RunType] /\ Books'
    BY <1>1, <1>5, <1>6, MoveFollows DEF Finish
  <1> QED
    BY <1>1, <1>4, <1>7, Whole, TypeIs DEF Finish

\* The holder goes, by its release or with its process.
LEMMA LetGo ==
  ASSUME Inv, NEW r \in Run, Ends(r), UNCHANGED <<row, work, config, requests>>,
         faults' \in 0..MaxFaults, Abandoned(r) \/ Release(r)
  PROVE  Inv'
  <1>1. TypeOK /\ Books
    BY DEF Inv
  <1>2. lease' \in [holder : Run \cup {Nobody, Gone}, left : -1..Ttl]
    BY <1>1, TypeIs DEF Abandoned, Release, Ttl
  <1>3. lease'.holder \in {lease.holder, Nobody, Gone}
    BY <1>1, TypeIs DEF Abandoned, Release
  <1>4. run' \in [Run -> RunType] /\ Books'
    BY <1>1, <1>3, EndFollows
  <1> QED
    BY <1>1, <1>2, <1>4, Whole, RowsNow, TypeIs

LEMMA FaultCounts == ASSUME Inv, faults < MaxFaults, faults' = faults + 1 PROVE faults' \in 0..MaxFaults
  BY BoundAssumption DEF Inv, TypeOK

LEMMA LeavingKeeps ==
  ASSUME Inv, NEW r \in Run, Release(r) \/ Crash(r) \/ ReleaseThrows(r) PROVE Inv'
  <1>1. CASE Release(r)
    BY <1>1, LetGo DEF Release, Inv, TypeOK
  <1>2. CASE Crash(r)
    BY <1>2, LetGo, FaultCounts DEF Crash
  <1>3. CASE ReleaseThrows(r)
    BY <1>3, LetGo, FaultCounts DEF ReleaseThrows
  <1> QED
    BY <1>1, <1>2, <1>3

LEMMA ThrowKeeps == ASSUME Inv, NEW r \in Run, Throw(r) PROVE Inv'
  <1>1. TypeOK /\ Books /\ run[r] \in RunType
    BY TypeIs DEF Inv
  <1>2. CASE /\ Beating(r) /\ ~run[r].lost
             /\ run' = [run EXCEPT ![r].pc = "work", ![r].lost = Lapsed(r),
                                   ![r].age = IF Lapsed(r) THEN 0 ELSE @]
    <2> DEFINE l == Lapsed(r)
               a == IF Lapsed(r) THEN 0 ELSE run[r].age
               x == [run[r] EXCEPT !.pc = "work", !.lost = l, !.age = a]
    <2>1. l \in BOOLEAN
      BY DEF Lapsed
    <2>2. a \in 0..Ttl + 1
      BY <1>1, ZeroAge DEF RunType
    <2>3. run' = [run EXCEPT ![r] = x]
      BY <1>2
    <2> HIDE DEF l, a
    <2>4. x \in RunType
      BY <1>1, <2>1, <2>2 DEF RunType, Pc
    <2>5. x.current = run[r].current /\ x.overtaken = run[r].overtaken
      BY <1>1 DEF RunType
    <2> HIDE DEF x
    <2>6. run[r].pc \in BeatPc
      BY <1>2 DEF Beating, BeatPc
    <2>7. run' \in [Run -> RunType] /\ Books'
      BY <1>1, <1>2, <2>3, <2>4, <2>5, <2>6, MoveFollows DEF Throw
    <2> QED
      BY <1>1, <2>7, Whole, RowsNow, TypeIs, FaultCounts DEF Throw
  <1>3. CASE run' = [run EXCEPT ![r].pc = "release"]
    <2>1. Moved(r, "release") \in RunType
      BY <1>1, ChangedIsARun DEF Moved, Pc
    <2>2. run' = [run EXCEPT ![r] = Moved(r, "release")]
      BY <1>3 DEF Moved
    <2>3. Moved(r, "release").current = run[r].current /\ Moved(r, "release").pc \notin BeatPc
      BY <1>1 DEF Moved, RunType, BeatPc
    <2>4. run' \in [Run -> RunType] /\ Books'
      BY <1>1, <2>1, <2>2, <2>3, MoveFollows DEF Throw
    <2> QED
      BY <1>1, <2>4, Whole, RowsNow, TypeIs, FaultCounts DEF Throw
  <1> QED
    BY <1>2, <1>3 DEF Throw

LEMMA PassesKeeps == ASSUME Inv, Passes, faults' \in 0..MaxFaults PROVE Inv'
  <1>1. TypeOK /\ Books /\ run \in [Run -> RunType]
    BY TypeIs DEF Inv
  <1>2. lease' \in [holder : Run \cup {Nobody, Gone}, left : -1..Ttl] /\ lease'.holder = lease.holder
    BY <1>1, TypeIs DEF Passes, Ttl
  <1>3. ASSUME NEW q \in Run
        PROVE  run'[q] \in RunType /\ Follows(q, run'[q])
    <2> DEFINE a == IF Beating(q) /\ ~run[q].lost THEN Older(run[q].age) ELSE run[q].age
    <2>1. run[q] \in RunType
      BY <1>1
    <2>2. a \in 0..Ttl + 1
      BY <2>1 DEF RunType, Older, Ttl
    <2>3. run'[q] = [run[q] EXCEPT !.age = a]
      BY <1>3 DEF Passes
    <2> HIDE DEF a
    <2>4. run'[q] \in RunType
      BY <2>1, <2>2, <2>3, ChangedIsARun
    <2>5. /\ run'[q].pc = run[q].pc /\ run'[q].current = run[q].current
          /\ run'[q].lost = run[q].lost /\ run'[q].overtaken = run[q].overtaken
      BY <2>1, <2>3 DEF RunType
    <2>6. Follows(q, run'[q])
      BY <1>1, <2>5 DEF Follows, Books, Alone
    <2> QED
      BY <2>4, <2>6
  <1>4. run' \in [Run -> RunType]
    BY <1>3 DEF Passes
  <1>5. Books'
    BY <1>1, <1>2, <1>3, QuietStep
  <1> QED
    BY <1>1, <1>2, <1>4, <1>5, Whole, RowsNow, TypeIs DEF Passes

LEMMA OutsideKeeps ==
  ASSUME Inv, (\E t \in Task : SlotArrives(t) \/ WorkArrives(t)) \/ (\E r \in Run : Edit(r))
  PROVE  Inv'
  <1>1. TypeOK /\ Books
    BY DEF Inv
  <1>2. run' = run /\ lease' = lease
    BY DEF SlotArrives, WorkArrives, Edit
  <1>3. run' \in [Run -> RunType] /\ Books'
    BY <1>1, <1>2, QuietStep, TypeIs DEF Follows
  <1>4. ASSUME NEW t \in Task, SlotArrives(t)
        PROVE  row' \in [Task -> RowType] /\ \A u \in Task : RowOff(row'[u])
    <2> DEFINE w == [row[t] EXCEPT !.due = "due"]
    <2>1. row' = [row EXCEPT ![t] = w]
      BY <1>4 DEF SlotArrives
    <2>2. w \in RowType /\ w.schedule = row[t].schedule
      BY RowsNow DEF RowType, Due
    <2>3. RowOff(w)
      BY <1>4, <2>2, RowsNow DEF RowOff, SlotArrives
    <2> HIDE DEF w
    <2> QED
      BY <2>1, <2>2, <2>3, RowsNow
  <1>5. work' \in [Task -> BOOLEAN] /\ config' \in [Run -> [Task -> Schedule]]
    <2>1. CASE \E t \in Task : SlotArrives(t) \/ WorkArrives(t)
      BY <1>1, <2>1, TypeIs DEF SlotArrives, WorkArrives
    <2>2. ASSUME NEW r \in Run, Edit(r)
          PROVE  work' \in [Task -> BOOLEAN] /\ config' \in [Run -> [Task -> Schedule]]
      BY <1>1, <2>2, TypeIs DEF Edit
    <2> QED
      BY <2>1, <2>2
  <1>6. requests' \in 0..MaxRequests /\ faults' \in 0..MaxFaults
    BY <1>1, BoundAssumption DEF SlotArrives, WorkArrives, Edit, TypeOK
  <1> QED
    BY <1>1, <1>2, <1>3, <1>4, <1>5, <1>6, Whole, RowsNow, TypeIs DEF WorkArrives, Edit

LEMMA StutterKeeps == ASSUME Inv, UNCHANGED vars PROVE Inv'
  BY DEF Inv, TypeOK, OffIsNeverDue, Books, HolderOnly, KnowsLease, Alone, vars

-----------------------------------------------------------------------------
LEMMA InitInv == Init => Inv
  <1> SUFFICES ASSUME Init PROVE Inv
    OBVIOUS
  <1>1. row \in [Task -> RowType]
    BY BoundAssumption DEF Init, RowType
  <1>2. config \in [Run -> [Task -> Schedule]]
    BY DEF Init
  <1>3. run \in [Run -> RunType]
    BY IdleIsARun DEF Init
  <1>4. TypeOK
    BY <1>1, <1>2, <1>3, TypeIs, BoundAssumption DEF Init, Ttl
  <1>5. OffIsNeverDue
    BY IdAssumption DEF Init, OffIsNeverDue, Schedule
  <1>6. Books
    BY DEF Init, IdleRun, Books, HolderOnly, KnowsLease, Alone, BeatPc
  <1> QED
    BY <1>4, <1>5, <1>6 DEF Inv

LEMMA NextKeeps == Inv /\ [Next]_vars => Inv'
  <1> SUFFICES ASSUME Inv, [Next]_vars PROVE Inv'
    OBVIOUS
  <1>1. ASSUME NEW r \in Run,
               Plan(r) \/ Manual(r) \/ Renew(r) \/ Settle(r) \/ Throw(r) \/ Crash(r) \/ ReleaseThrows(r)
        PROVE  Inv'
    BY <1>1, PlanKeeps, ManualKeeps, RenewKeeps, GuardedWriteKeeps, FailKeeps, ThrowKeeps,
       LeavingKeeps DEF Settle
  <1>2. ASSUME NEW r \in Run, Step(r) PROVE Inv'
    BY <1>2, AcquireKeeps, BusyKeeps, BreakKeeps, SkipKeeps, StartTaskKeeps, SetupKeeps,
       CheckGenerationKeeps, RetakeKeeps, FinishKeeps, LeavingKeeps DEF Step
  <1>3. CASE Tick \/ Stall
    <2>1. faults' \in 0..MaxFaults /\ Passes
      BY <1>3, FaultCounts DEF Tick, Stall, Inv, TypeOK
    <2> QED
      BY <2>1, PassesKeeps
  <1> QED
    BY <1>1, <1>2, <1>3, OutsideKeeps, StutterKeeps DEF Next

\* Every variable keeps its type, however many runs, tasks and faults there are.
THEOREM TypeCorrect == Spec => []TypeOK
  <1>1. Inv => TypeOK
    BY DEF Inv
  <1> QED
    BY <1>1, InitInv, NextKeeps, PTL DEF Spec

\* What a run may write under the guard of lease.ts has not been overtaken by
\* another run since it was read, however often the lease lapses and is taken.
THEOREM WritesAreFresh == Spec => []ReadIsFresh
  <1>1. Inv => ReadIsFresh
    BY DEF Inv, Books, KnowsLease, Alone, ReadIsFresh, BeatPc, Owns
  <1> QED
    BY <1>1, InitInv, NextKeeps, PTL DEF Spec

\* A disabled task never comes due, whoever writes its row last.
THEOREM DisabledStaysOff == Spec => []OffIsNeverDue
  <1>1. Inv => OffIsNeverDue
    BY DEF Inv
  <1> QED
    BY <1>1, InitInv, NextKeeps, PTL DEF Spec

-----------------------------------------------------------------------------
(* A slot that stays due has used up a try.                                *)

\* From one row of a task to the next: the slot is let go, or one more of its
\* tries is counted, or the row only takes up another schedule.
Counts(v, w) == v.due = "due" /\ w.due = "due" =>
                  w = v \/ w.retries = v.retries + 1 \/ w.schedule # v.schedule

\* While its schedule stays, whatever is done to a row whose slot has come either
\* lets the slot go or counts a try, of which there are no more than MaxRetries.
TriesAreCounted == [][\A t \in Task : Counts(row[t], row'[t])]_vars

LEMMA AdvancedCounts == ASSUME NEW s, NEW v PROVE Counts(v, Advanced(s))
<1>1. Advanced(s).due \in {"off", "ahead"}
  BY DEF Advanced, NextDue
<1> QED
  BY <1>1 DEF Counts

LEMMA ReconciledCounts ==
  ASSUME NEW t \in Task, NEW s \in Schedule, row[t] \in RowType
  PROVE  Counts(row[t], Reconciled(t, s))
<1>1. CASE row[t].schedule = s
  <2>1. Reconciled(t, s) = row[t]
    BY <1>1, IdAssumption DEF Reconciled, Schedule
  <2> QED
    BY <2>1 DEF Counts
<1>2. CASE row[t].schedule # s /\ s = Off
  <2>1. Reconciled(t, s).due = "off"
    BY <1>2 DEF Reconciled, RowType
  <2> QED
    BY <2>1 DEF Counts
<1>3. CASE row[t].schedule # s /\ s # Off /\ row[t].schedule = Legacy /\ row[t].due # "off"
  <2>1. Reconciled(t, s).schedule = s
    BY <1>3 DEF Reconciled, RowType
  <2> QED
    BY <1>3, <2>1 DEF Counts
<1>4. CASE row[t].schedule # s /\ s # Off /\ ~ (row[t].schedule = Legacy /\ row[t].due # "off")
  <2>1. Reconciled(t, s).due \in {"off", "ahead"}
    BY <1>4 DEF Reconciled, NextDue
  <2> QED
    BY <2>1 DEF Counts
<1> QED
  BY <1>1, <1>2, <1>3, <1>4

LEMMA AfterRunCounts ==
  ASSUME NEW t \in Task, NEW s, NEW out
  PROVE  Counts(row[t], AfterRun(t, s, out))
<1>1. CASE AfterRun(t, s, out) = Advanced(s)
  BY <1>1, AdvancedCounts
<1>2. CASE AfterRun(t, s, out).retries = row[t].retries + 1
  BY <1>2 DEF Counts
<1> QED
  BY <1>1, <1>2 DEF AfterRun, AfterTransient

LEMMA StepCounts == Inv /\ [Next]_vars => \A t \in Task : Counts(row[t], row'[t])
<1> SUFFICES ASSUME Inv, [Next]_vars, NEW t \in Task PROVE Counts(row[t], row'[t])
  OBVIOUS
<1>t. row \in [Task -> RowType] /\ row[t] \in RowType
  BY RowsNow
<1>s. ASSUME row' = row PROVE Counts(row[t], row'[t])
  BY <1>s DEF Counts
<1>1. ASSUME NEW r \in Run, Plan(r) PROVE Counts(row[t], row'[t])
  <2>1. \/ row'[t] = Advanced(config[r][t])
        \/ row'[t] = Reconciled(t, config[r][t])
    BY <1>1 DEF Plan
  <2>2. config[r][t] \in Schedule
    BY DEF Inv, TypeOK
  <2> QED
    BY <1>t, <2>1, <2>2, AdvancedCounts, ReconciledCounts
<1>2. ASSUME NEW r \in Run, Manual(r) PROVE Counts(row[t], row'[t])
  <2>1. row'[t] = row[t] \/ row'[t] = Advanced(config[r][t])
    BY <1>2 DEF Manual, Seeded
  <2> QED
    BY <2>1, AdvancedCounts DEF Counts
<1>3. ASSUME NEW r \in Run, Skip(r) PROVE Counts(row[t], row'[t])
  <2>1. PICK u \in Task : row' = [row EXCEPT ![u] = Advanced(config[r][u])]
    BY <1>3 DEF Skip
  <2>2. row'[t] = row[t] \/ row'[t] = Advanced(config[r][u])
    BY <1>t, <2>1
  <2> QED
    BY <2>2, AdvancedCounts DEF Counts
<1>4. ASSUME NEW r \in Run, Finish(r) PROVE Counts(row[t], row'[t])
  <2> DEFINE u == run[r].task
             w == AfterRun(u, config[r][u], run[r].out)
  <2>1. row' = [row EXCEPT ![u] = w]
    BY <1>4 DEF Finish
  <2>2. u = t => Counts(row[t], w)
    BY AfterRunCounts
  <2> HIDE DEF u, w
  <2>3. row'[t] = row[t] \/ (u = t /\ row'[t] = w)
    BY <1>t, <2>1
  <2> QED
    BY <2>2, <2>3 DEF Counts
<1>5. ASSUME NEW u \in Task, SlotArrives(u) PROVE Counts(row[t], row'[t])
  <2>1. row[u].due = "ahead" /\ (u # t => row'[t] = row[t])
    BY <1>5, <1>t DEF SlotArrives
  <2> QED
    BY <2>1 DEF Counts
<1>6. CASE \E r \in Run : \/ Acquire(r) \/ Busy(r) \/ Break(r) \/ StartTask(r) \/ Setup(r)
                          \/ CheckGeneration(r) \/ Retake(r) \/ Release(r)
                          \/ Renew(r) \/ Settle(r) \/ Crash(r) \/ Throw(r)
                          \/ ReleaseThrows(r) \/ Edit(r)
  <2>1. row' = row
    BY <1>6 DEF Acquire, Busy, Break, StartTask, Setup, CheckGeneration, Retake, Release, Renew,
                Settle, GuardedWrite, Fail, Crash, Throw, ReleaseThrows, Edit
  <2> QED
    BY <1>s, <2>1
<1>7. CASE Tick \/ Stall \/ (\E u \in Task : WorkArrives(u)) \/ UNCHANGED vars
  <2>1. row' = row
    BY <1>7 DEF Tick, Stall, Passes, WorkArrives, vars
  <2> QED
    BY <1>s, <2>1
<1> QED
  BY <1>1, <1>2, <1>3, <1>4, <1>5, <1>6, <1>7 DEF Next, Step

\* Whoever runs, skips, fails or edits a task, and however late a run's last
\* write comes: a slot that stays due under one schedule has one more try
\* behind it, and TypeCorrect bounds the tries.
THEOREM SlotsUseTries == Spec => TriesAreCounted
  BY InitInv, NextKeeps, StepCounts, PTL DEF Spec, TriesAreCounted
=============================================================================
