----------------------- MODULE CompactionMarker_proofs -----------------------
(***************************************************************************)
(* Theorems about CompactionMarker, for any number of processes, messages  *)
(* and faults.  All but the types are about rebuilds that reach as far as  *)
(* the compartments did (MayShrink = FALSE), and the last one is about one *)
(* failure at most.                                                        *)
(***************************************************************************)
EXTENDS CompactionMarker, WellFoundedInduction, TLAPS

Place == 0..MaxMsg

-----------------------------------------------------------------------------
(* Maxima.  A set of messages has one, since the distances from the last    *)
(* message have a smallest.                                                *)

LEMMA MaxOf ==
  ASSUME NEW S \in SUBSET Place, S # {}
  PROVE  Max(S) \in S /\ \A x \in S : x <= Max(S)
  <1> DEFINE D == {n \in Nat : MaxMsg - n \in S}
  <1>1. MaxMsg \in Nat /\ \A x \in S : x \in Nat /\ x <= MaxMsg
    BY MessageAssumption DEF Place
  <1>2. D # {} /\ D \subseteq Nat
    <2>1. PICK x \in S : TRUE
      OBVIOUS
    <2>2. MaxMsg - x \in Nat /\ MaxMsg - (MaxMsg - x) = x
      BY <1>1, <2>1
    <2> QED
      BY <2>1, <2>2
  <1>3. PICK n \in D : \A k \in D : n <= k
    <2> DEFINE R == OpToRel(<, Nat)
    <2>1. IsWellFoundedOn(R, Nat)
      BY NatLessThanWellFounded
    <2>2. \A x, y \in Nat : x < y => <<x, y>> \in R
      BY DEF OpToRel
    <2> HIDE DEF R
    <2> HIDE DEF D
    <2>3. PICK n \in D : \A y \in D : ~ (<<y, n>> \in R)
      BY <1>2, <2>1, WFMin
    <2>4. ASSUME NEW k \in D PROVE n <= k
      <3>1. n \in Nat /\ k \in Nat
        BY <1>2, Zenon
      <3>2. ~ (k < n)
        BY <3>1, <2>2, <2>3, Zenon
      <3> QED
        BY <3>1, <3>2
    <2> QED
      BY <2>3, <2>4
  <1>4. ASSUME NEW x \in S PROVE MaxMsg - n >= x
    <2>1. MaxMsg - x \in D
      BY <1>1
    <2> QED
      BY <1>1, <1>3, <2>1
  <1>5. \E m \in S : \A x \in S : m >= x
    BY <1>3, <1>4
  <1>6. Max(S) \in S /\ \A x \in S : Max(S) >= x
    BY <1>5 DEF Max
  <1> QED
    BY <1>1, <1>6

\* The last of some messages, 0 for none.
LastOf(S) == IF S = {} THEN 0 ELSE Max(S)

LEMMA LastOfIs ==
  ASSUME NEW S \in SUBSET Target
  PROVE  /\ LastOf(S) \in Place
         /\ \A e \in S : e <= LastOf(S)
         /\ S # {} => LastOf(S) \in S
  <1>1. Target \subseteq Place /\ 0 \in Place
    BY MessageAssumption DEF Target, Place
  <1>2. CASE S = {}
    BY <1>1, <1>2 DEF LastOf
  <1>3. CASE S # {}
    <2>1. S \in SUBSET Place
      BY <1>1
    <2>2. Max(S) \in S /\ \A x \in S : x <= Max(S)
      BY <1>3, <2>1, MaxOf
    <2> QED
      BY <1>1, <1>3, <2>2 DEF LastOf
  <1> QED
    BY <1>2, <1>3

\* The last compartment's end, and no end is past it.
LEMMA LastEndIs ==
  ASSUME ends \subseteq Target
  PROVE  /\ LastEnd \in Place
         /\ \A e \in ends : e <= LastEnd
         /\ ends # {} => LastEnd \in ends
  <1>1. LastEnd = LastOf(ends)
    BY DEF LastEnd, LastOf
  <1> QED
    BY <1>1, LastOfIs

\* A marker's user message is at or before its target.
LEMMA BoundaryIs ==
  ASSUME NEW t \in Target
  PROVE  Boundary(t) \in Target /\ Boundary(t) <= t
  <1> DEFINE U == {u \in UserMsg : u <= t}
  <1>1. U \in SUBSET Place /\ U \subseteq Target /\ U # {}
    <2>1. Target \subseteq Place /\ 1 <= t
      BY MessageAssumption DEF Target, Place
    <2>2. U \subseteq Target
      BY MessageAssumption DEF Target
    <2>3. 1 \in U
      BY <2>1, MessageAssumption
    <2> QED
      BY <2>1, <2>2, <2>3
  <1>2. Max(U) \in U
    BY <1>1, MaxOf
  <1> QED
    BY <1>1, <1>2 DEF Boundary

\* The host's answer starts no later than the last target in its database.
LEMMA CutBelow ==
  ASSUME rows \subseteq Target, NEW d \in Place, \A t \in rows : t <= d
  PROVE  Cut \in Place /\ Cut <= d
  <1> DEFINE B == {Boundary(t) : t \in rows}
  <1>1. Target \subseteq Place /\ 0 \in Place
    BY MessageAssumption DEF Target, Place
  <1>2. CASE rows = {}
    BY <1>1, <1>2, MessageAssumption DEF Cut, Place
  <1>3. CASE rows # {}
    <2>1. \A t \in rows : Boundary(t) \in Target /\ Boundary(t) <= t
      BY BoundaryIs
    <2>2. B \in SUBSET Place /\ B # {}
      BY <1>1, <1>3, <2>1
    <2>3. Max(B) \in B
      BY <2>2, MaxOf
    <2>4. PICK t \in rows : Max(B) = Boundary(t)
      BY <2>3
    <2>5. Cut = Boundary(t)
      BY <1>3, <2>4 DEF Cut
    <2> QED
      BY <1>1, <2>1, <2>4, <2>5, MessageAssumption DEF Place, Target
  <1> QED
    BY <1>2, <1>3

-----------------------------------------------------------------------------
(* What a change of the marker looks like at each of its statements.       *)

JobRecord == [kind : JobKinds, at : JobSteps, target : 0..MaxMsg, old : 0..MaxMsg]

WellShaped(j) ==
  /\ j.kind \in {"drain", "direct"} => j.target # 0
  /\ j.at = "none" => j.kind = "none"
  /\ j.at = "check" => j.kind = "drain"
  /\ j.at = "drop" => j.kind = "drain"
  /\ j.at = "remove" => j.kind \in {"drain", "direct", "compact", "startup"}
  /\ j.at = "forget" => j.kind \in {"direct", "compact", "startup"}
  /\ j.at \in {"inject", "persist"} => j.kind \in {"drain", "direct"}
  /\ j.at = "clear" => j.kind \in {"drain", "direct", "compact"}
  /\ j.at = "rehydrate" => j.kind = "startup"

Typed == TypeOK /\ \A p \in Proc : WellShaped(job[p])

LEMMA NoJobIsShaped == NoJob \in JobRecord /\ WellShaped(NoJob)
  BY MessageAssumption DEF NoJob, JobRecord, JobKinds, JobSteps, WellShaped

\* A new record for one process leaves those of the others.
LEMMA JobSet ==
  ASSUME Typed, NEW p \in Proc, NEW j \in JobRecord, WellShaped(j),
         job' = [job EXCEPT ![p] = j]
  PROVE  /\ job' \in [Proc -> JobRecord]
         /\ job'[p] = j
         /\ \A q \in Proc : q # p => job'[q] = job[q]
         /\ \A q \in Proc : WellShaped(job'[q])
  <1>1. job \in [Proc -> JobRecord] /\ \A q \in Proc : WellShaped(job[q])
    BY DEF Typed, TypeOK, JobRecord
  <1>2. job' \in [Proc -> JobRecord] /\ job'[p] = j /\ \A q \in Proc : q # p => job'[q] = job[q]
    BY <1>1
  <1>3. ASSUME NEW q \in Proc PROVE WellShaped(job'[q])
    BY <1>1, <1>2
  <1> QED
    BY <1>2, <1>3

\* Going to another statement changes nothing else in the record.
LEMMA JobGoes ==
  ASSUME Typed, NEW p \in Proc, NEW at \in JobSteps, GotoStep(p, at),
         WellShaped([job[p] EXCEPT !.at = at])
  PROVE  /\ job' \in [Proc -> JobRecord]
         /\ job'[p].kind = job[p].kind /\ job'[p].target = job[p].target /\ job'[p].at = at
         /\ \A q \in Proc : q # p => job'[q] = job[q]
         /\ \A q \in Proc : WellShaped(job'[q])
  <1> DEFINE j == [job[p] EXCEPT !.at = at]
  <1>1. job[p] \in JobRecord
    BY DEF Typed, TypeOK, JobRecord
  <1>2. j \in JobRecord /\ j.kind = job[p].kind /\ j.target = job[p].target /\ j.at = at
    BY <1>1 DEF JobRecord
  <1>3. job' = [job EXCEPT ![p] = j]
    BY DEF GotoStep
  <1> HIDE DEF j
  <1>4. WellShaped(j)
    BY DEF j
  <1> QED
    BY <1>2, <1>3, <1>4, JobSet

\* The change is over.
LEMMA JobOver ==
  ASSUME Typed, NEW p \in Proc, JobEnds(p)
  PROVE  /\ job' \in [Proc -> JobRecord]
         /\ job'[p] = NoJob
         /\ \A q \in Proc : q # p => job'[q] = job[q]
         /\ \A q \in Proc : WellShaped(job'[q])
  BY NoJobIsShaped, JobSet DEF JobEnds

\* A change starts at a statement that fits its kind.
LEMMA JobStarts ==
  ASSUME Typed, NEW p \in Proc, NEW kind \in {"drain", "direct", "compact"},
         NEW target \in 0..MaxMsg, kind # "compact" => target # 0,
         NEW none \in {"inject", "clear"}, none = "inject" <=> kind # "compact",
         StartJob(p, kind, target, none)
  PROVE  /\ job' \in [Proc -> JobRecord]
         /\ job'[p].kind = kind /\ job'[p].target = target
         /\ job'[p].at \in {"remove", none}
         /\ \A q \in Proc : q # p => job'[q] = job[q]
         /\ \A q \in Proc : WellShaped(job'[q])
  <1> DEFINE j == [kind |-> kind, target |-> target, old |-> state,
                   at |-> IF state = 0 THEN none ELSE "remove"]
  <1>1. /\ j \in JobRecord
        /\ j.kind = kind /\ j.target = target
        /\ j.at \in {"remove", none}
    BY DEF Typed, TypeOK, JobRecord, JobKinds, JobSteps
  <1>2. job' = [job EXCEPT ![p] = j]
    BY DEF StartJob
  <1> HIDE DEF j
  <1>3. WellShaped(j)
    BY <1>1 DEF WellShaped
  <1> QED
    BY <1>1, <1>2, <1>3, JobSet

-----------------------------------------------------------------------------
(* Types.                                                                  *)

PassRecord == [pc : {"idle", "prepared", "folded", "down"}, due : BOOLEAN, end : 0..MaxMsg]

\* A new record of a transform pass.
LEMMA PassSet ==
  ASSUME TypeOK, NEW p \in Proc, NEW r \in PassRecord, pass' = [pass EXCEPT ![p] = r]
  PROVE  /\ pass' \in [Proc -> PassRecord]
         /\ pass'[p] = r
         /\ \A q \in Proc : q # p => pass'[q] = pass[q]
  BY DEF TypeOK, PassRecord

LEMMA PassRecords ==
  ASSUME TypeOK, NEW p \in Proc
  PROVE  /\ IdlePass \in PassRecord
         /\ [IdlePass EXCEPT !.pc = "down"] \in PassRecord
         /\ pass[p] \in PassRecord
         /\ [pass[p] EXCEPT !.pc = "folded"] \in PassRecord
         /\ [pass[p] EXCEPT !.end = LastEnd] \in PassRecord
         /\ [pc |-> "prepared", due |-> deferred[p], end |-> LastEnd] \in PassRecord
  <1>1. LastEnd \in 0..MaxMsg
    BY LastEndIs DEF TypeOK, Place
  <1>2. pass[p] \in PassRecord /\ deferred[p] \in BOOLEAN
    BY DEF TypeOK, PassRecord
  <1>3. IdlePass \in PassRecord /\ [IdlePass EXCEPT !.pc = "down"] \in PassRecord
    <2>1. 0 \in 0..MaxMsg
      BY MessageAssumption
    <2> DEFINE no == FALSE
    <2>2. no \in BOOLEAN /\ IdlePass = [pc |-> "idle", due |-> no, end |-> 0]
      BY DEF IdlePass
    <2> HIDE DEF no
    <2>3. IdlePass \in PassRecord
      BY <2>1, <2>2 DEF PassRecord
    <2>4. [IdlePass EXCEPT !.pc = "down"] \in PassRecord
      BY <2>3 DEF PassRecord
    <2> QED
      BY <2>3, <2>4
  <1> QED
    BY <1>1, <1>2, <1>3 DEF PassRecord

\* Only the outcome of an action that leaves the change of the marker alone
\* has to be looked at in the other variables.
RestTyped ==
  /\ ends \subseteq Target
  /\ base \in {NoCache} \cup 0..MaxMsg
  /\ pending \in 0..MaxMsg
  /\ state \in 0..MaxMsg
  /\ rows \subseteq Target
  /\ deferred \in [Proc -> BOOLEAN]
  /\ promoted \in [Proc -> 0..MaxMsg]
  /\ faults \in 0..MaxFaults

LEMMA TypedParts ==
  Typed <=> /\ RestTyped
            /\ pass \in [Proc -> PassRecord]
            /\ job \in [Proc -> JobRecord]
            /\ \A p \in Proc : WellShaped(job[p])
  BY DEF Typed, TypeOK, RestTyped, PassRecord, JobRecord

\* A change of the marker that starts may use up a fault.
LEMMA FaultsAfterStart ==
  ASSUME Typed, NEW p \in Proc, Starts(p)
  PROVE  faults' \in 0..MaxFaults
  BY BoundAssumption DEF Typed, TypeOK, Starts

\* Compartments change.
LEMMA TypedWrites ==
  ASSUME Typed, NEW p \in Proc, Publish(p) \/ PersistNoise(p) \/ PromoteRebuild(p)
  PROVE  Typed'
  <1>1. RestTyped /\ LastEnd \in 0..MaxMsg
    BY TypedParts, LastEndIs DEF RestTyped, Place
  <1>2. UNCHANGED <<pass, job, state, rows, faults>>
    BY DEF Publish, PersistNoise, PromoteRebuild, memory
  <1>3. RestTyped'
    <2>1. CASE Publish(p)
      <3>1. PICK e \in LastEnd + 1..MaxMsg : ends' = ends \cup {e} /\ pending' = e
        BY <2>1 DEF Publish
      <3>2. e \in Target /\ e \in 0..MaxMsg
        BY <1>1, <3>1, MessageAssumption DEF Target
      <3> QED
        BY <1>1, <2>1, <3>1, <3>2 DEF Publish, RestTyped
    <2>2. CASE PersistNoise(p)
      <3>1. PICK e \in LastEnd + 1..MaxMsg : ends' = ends \cup {e}
        BY <2>2 DEF PersistNoise
      <3>2. e \in Target
        BY <1>1, <3>1, MessageAssumption DEF Target
      <3> QED
        BY <1>1, <2>2, <3>1, <3>2 DEF PersistNoise, RestTyped, memory
    <2>3. CASE PromoteRebuild(p)
      <3>1. PICK E \in (SUBSET Target) \ {{}} :
               ends' = E /\ promoted' = [promoted EXCEPT ![p] = Max(E)]
        BY <2>3 DEF PromoteRebuild
      <3>2. E \in SUBSET Place /\ E # {}
        <4>1. Target \subseteq Place
          BY MessageAssumption DEF Target, Place
        <4>2. E \in SUBSET Target /\ E # {}
          BY <3>1
        <4> QED
          BY <4>1, <4>2
      <3>3. Max(E) \in 0..MaxMsg
        BY <3>2, MaxOf DEF Place
      <3> QED
        BY <1>1, <2>3, <3>1, <3>3 DEF PromoteRebuild, RestTyped
    <2> QED
      BY <2>1, <2>2, <2>3
  <1>4. pass' \in [Proc -> PassRecord] /\ job' \in [Proc -> JobRecord]
        /\ \A q \in Proc : WellShaped(job'[q])
    BY <1>2, TypedParts
  <1> QED
    BY <1>3, <1>4 DEF Typed, TypeOK, RestTyped, PassRecord, JobRecord

\* A transform pass.
LEMMA TypedPass ==
  ASSUME Typed, NEW p \in Proc, PassStep(p)
  PROVE  Typed'
  <1>1. RestTyped /\ LastEnd \in 0..MaxMsg
    BY TypedParts, LastEndIs DEF RestTyped, Place
  <1>2. TypeOK
    BY DEF Typed
  <1>3. RestTyped'
    <2>1. CASE Drain(p)
      <3>1. faults' \in 0..MaxFaults
        BY <1>1, <2>1, FaultsAfterStart DEF Drain, RestTyped
      <3> QED
        BY <1>1, <2>1, <3>1 DEF Drain, RestTyped
    <2> QED
      BY <1>1, <2>1 DEF PassStep, Prepare, PrepareAgain, Fold, FoldFails, RestTyped
  <1>4. pass' \in [Proc -> PassRecord]
    <2>1. CASE Prepare(p)
      BY <1>2, <2>1, PassSet, PassRecords DEF Prepare
    <2>2. CASE PrepareAgain(p)
      <3>1. pass' = [pass EXCEPT ![p] = [pass[p] EXCEPT !.end = LastEnd]]
        BY <2>2 DEF PrepareAgain
      <3> QED
        BY <1>2, <3>1, PassSet, PassRecords
    <2>3. CASE Fold(p)
      <3>1. pass' = [pass EXCEPT ![p] = [pass[p] EXCEPT !.pc = "folded"]]
        BY <2>3 DEF Fold
      <3> QED
        BY <1>2, <3>1, PassSet, PassRecords
    <2>4. CASE FoldFails(p)
      BY <1>2, <2>4, PassSet, PassRecords DEF FoldFails
    <2>5. CASE Drain(p)
      <3>1. pass' = pass \/ pass' = [pass EXCEPT ![p] = IdlePass]
        BY <2>5 DEF Drain
      <3> QED
        BY <1>2, <3>1, PassSet, PassRecords, TypedParts
    <2> QED
      BY <2>1, <2>2, <2>3, <2>4, <2>5 DEF PassStep
  <1>5. job' \in [Proc -> JobRecord] /\ \A q \in Proc : WellShaped(job'[q])
    <2>1. CASE job' = job
      BY <2>1, TypedParts
    <2>2. CASE job' # job
      <3> DEFINE j == [kind |-> "drain", at |-> "check", target |-> pending, old |-> 0]
      <3>1. Drain(p) /\ pending \in 1..pass[p].end /\ job' = [job EXCEPT ![p] = j]
        BY <2>2 DEF PassStep, Prepare, PrepareAgain, Fold, FoldFails, Drain
      <3>2. pending \in 0..MaxMsg /\ pending # 0 /\ 0 \in 0..MaxMsg
        BY <1>1, <3>1, MessageAssumption DEF RestTyped
      <3>3. j \in JobRecord /\ WellShaped(j)
        BY <3>2 DEF JobRecord, JobKinds, JobSteps, WellShaped
      <3> HIDE DEF j
      <3> QED
        BY <3>1, <3>3, JobSet
    <2> QED
      BY <2>1, <2>2
  <1> QED
    BY <1>3, <1>4, <1>5 DEF Typed, TypeOK, RestTyped, PassRecord, JobRecord

\* A change that is over lets the pass it was a drain of end.
LEMMA PassAfterJob ==
  ASSUME Typed, NEW p \in Proc, JobEnds(p)
  PROVE  /\ pass' \in [Proc -> PassRecord]
         /\ \A q \in Proc : pass'[q] = pass[q] \/ pass'[q] = IdlePass
  <1>1. TypeOK /\ pass \in [Proc -> PassRecord]
    BY TypedParts DEF Typed
  <1>2. pass' = pass \/ pass' = [pass EXCEPT ![p] = IdlePass]
    BY DEF JobEnds
  <1> QED
    BY <1>1, <1>2, PassSet, PassRecords

\* A statement of a change of the marker.
LEMMA TypedJob ==
  ASSUME Typed, NEW p \in Proc, JobStep(p)
  PROVE  Typed'
  <1>1. /\ RestTyped
        /\ pass \in [Proc -> PassRecord]
        /\ job \in [Proc -> JobRecord]
        /\ job[p] \in JobRecord
        /\ WellShaped(job[p])
    BY TypedParts
  <1>2. job[p].target \in 0..MaxMsg /\ job[p].kind \in JobKinds
    BY <1>1 DEF JobRecord
  <1> DEFINE JobFine == job' \in [Proc -> JobRecord] /\ \A q \in Proc : WellShaped(job'[q])
             PassFine == pass' \in [Proc -> PassRecord]
  <1>3. CASE Check(p)
    <2>1. job[p].kind = "drain" /\ job[p].at = "check" /\ job[p].target # 0
      BY <1>1, <1>3 DEF Check, JobAt, WellShaped
    <2>2. RestTyped' /\ PassFine
      BY <1>1, <1>3 DEF Check, RestTyped, memory
    <2>3. CASE GotoStep(p, "drop") \/ GotoStep(p, "clear")
      <3>1. PICK at \in {"drop", "clear"} : GotoStep(p, at)
        BY <2>3
      <3>2. WellShaped([job[p] EXCEPT !.at = at]) /\ at \in JobSteps
        BY <1>1, <2>1, <3>1 DEF WellShaped, JobRecord, JobSteps
      <3> QED
        BY <2>2, <3>1, <3>2, JobGoes, TypedParts DEF Typed, TypeOK, RestTyped, PassRecord, JobRecord
    <2>4. CASE StartJob(p, "drain", job[p].target, "inject")
      <3>1. JobFine
        BY <1>2, <2>1, <2>4, JobStarts
      <3> QED
        BY <2>2, <3>1 DEF Typed, TypeOK, RestTyped, PassRecord, JobRecord
    <2> QED
      BY <1>3, <2>3, <2>4 DEF Check
  <1>4. CASE Remove(p) \/ Forget(p) \/ Inject(p) \/ Persist(p)
    <2>1. PassFine
      BY <1>1, <1>4 DEF Remove, Forget, Inject, Persist, memory
    <2>2. PICK at \in {"inject", "forget", "clear", "rehydrate", "persist"} :
             GotoStep(p, at) /\ WellShaped([job[p] EXCEPT !.at = at])
      <3>1. CASE Remove(p)
        <4>1. job[p].kind \in {"drain", "direct", "compact", "startup"}
          BY <1>1, <3>1 DEF Remove, JobAt, WellShaped
        <4> QED
          BY <1>1, <3>1, <4>1 DEF Remove, WellShaped, JobRecord
      <3>2. CASE Forget(p)
        <4>1. job[p].kind \in {"direct", "compact", "startup"}
          BY <1>1, <3>2 DEF Forget, JobAt, WellShaped
        <4>2. CASE job[p].kind = "direct"
          BY <1>1, <3>2, <4>2 DEF Forget, WellShaped, JobRecord
        <4>3. CASE job[p].kind = "compact"
          BY <1>1, <3>2, <4>3 DEF Forget, WellShaped, JobRecord
        <4>4. CASE job[p].kind = "startup"
          BY <1>1, <3>2, <4>4 DEF Forget, WellShaped, JobRecord
        <4> QED
          BY <4>1, <4>2, <4>3, <4>4
      <3>3. CASE Inject(p)
        <4>1. job[p].kind \in {"drain", "direct"}
          BY <1>1, <3>3 DEF Inject, JobAt, WellShaped
        <4> QED
          BY <1>1, <3>3, <4>1 DEF Inject, WellShaped, JobRecord
      <3>4. CASE Persist(p)
        <4>1. job[p].kind \in {"drain", "direct"}
          BY <1>1, <3>4 DEF Persist, JobAt, WellShaped
        <4> QED
          BY <1>1, <3>4, <4>1 DEF Persist, WellShaped, JobRecord
      <3> QED
        BY <1>4, <3>1, <3>2, <3>3, <3>4
    <2>3. JobFine
      BY <2>2, JobGoes DEF JobSteps
    <2>4. RestTyped'
      <3>1. CASE Remove(p) \/ Forget(p)
        BY <1>1, <3>1, MessageAssumption DEF Remove, Forget, RestTyped, memory
      <3>2. CASE Inject(p)
        <4>1. job[p].target \in Target
          BY <1>1, <1>2, <3>2, MessageAssumption DEF Inject, JobAt, WellShaped, Target
        <4> QED
          BY <1>1, <3>2, <4>1 DEF Inject, RestTyped, memory
      <3>3. CASE Persist(p)
        BY <1>1, <1>2, <3>3 DEF Persist, RestTyped, memory
      <3> QED
        BY <1>4, <3>1, <3>2, <3>3
    <2> QED
      BY <2>1, <2>3, <2>4 DEF Typed, TypeOK, RestTyped, PassRecord, JobRecord
  <1>5. CASE Clear(p) \/ Rehydrate(p)
    <2>1. JobEnds(p)
      BY <1>5 DEF Clear, Rehydrate
    <2>2. JobFine /\ PassFine
      BY <2>1, JobOver, PassAfterJob
    <2>3. RestTyped'
      <3>1. CASE Clear(p)
        <4>1. pending' \in 0..MaxMsg
          BY <1>1, <3>1, MessageAssumption DEF Clear, RestTyped
        <4>2. (pending' # 0) \in BOOLEAN
          OBVIOUS
        <4>3. deferred' \in [Proc -> BOOLEAN]
          BY <1>1, <3>1, <4>2 DEF Clear, RestTyped
        <4> QED
          BY <1>1, <3>1, <4>1, <4>3 DEF Clear, RestTyped
      <3>2. CASE Rehydrate(p)
        <4>1. (pending # 0) \in BOOLEAN
          OBVIOUS
        <4>2. deferred' \in [Proc -> BOOLEAN]
          BY <1>1, <3>2, <4>1 DEF Rehydrate, RestTyped
        <4> QED
          BY <1>1, <3>2, <4>2 DEF Rehydrate, RestTyped
      <3> QED
        BY <1>5, <3>1, <3>2
    <2> QED
      BY <2>2, <2>3 DEF Typed, TypeOK, RestTyped, PassRecord, JobRecord
  <1> QED
    BY <1>3, <1>4, <1>5 DEF JobStep

\* A change of the marker starts outside a pass, or a step of one fails.
LEMMA TypedStarts ==
  ASSUME Typed, NEW p \in Proc, UpdateDirectly(p) \/ HostCompacts(p) \/ HostFails(p)
  PROVE  Typed'
  <1>1. /\ RestTyped
        /\ pass \in [Proc -> PassRecord]
        /\ job \in [Proc -> JobRecord]
        /\ job[p] \in JobRecord
        /\ WellShaped(job[p])
    BY TypedParts
  <1> DEFINE JobFine == job' \in [Proc -> JobRecord] /\ \A q \in Proc : WellShaped(job'[q])
             PassFine == pass' \in [Proc -> PassRecord]
  <1>2. CASE UpdateDirectly(p)
    <2>1. promoted[p] \in 0..MaxMsg /\ promoted[p] # 0
      BY <1>1, <1>2 DEF UpdateDirectly, RestTyped
    <2>2. RestTyped' /\ PassFine
      <3>1. 0 \in 0..MaxMsg
        BY MessageAssumption
      <3>2. faults' \in 0..MaxFaults
        BY <1>2, FaultsAfterStart DEF UpdateDirectly
      <3> QED
        BY <1>1, <1>2, <3>1, <3>2 DEF UpdateDirectly, RestTyped
    <2>3. JobFine
      <3>1. CASE Covers(promoted[p])
        <4> DEFINE j == [kind |-> "direct", at |-> "clear", target |-> promoted[p], old |-> 0]
        <4>1. job' = [job EXCEPT ![p] = j]
          BY <1>2, <3>1 DEF UpdateDirectly
        <4>2. j \in JobRecord /\ WellShaped(j)
          BY <2>1, MessageAssumption DEF JobRecord, JobKinds, JobSteps, WellShaped
        <4> HIDE DEF j
        <4> QED
          BY <4>1, <4>2, JobSet
      <3>2. CASE ~ Covers(promoted[p])
        <4>1. StartJob(p, "direct", promoted[p], "inject")
          BY <1>2, <3>2 DEF UpdateDirectly
        <4> QED
          BY <2>1, <4>1, JobStarts
      <3> QED
        BY <3>1, <3>2
    <2> QED
      BY <2>2, <2>3 DEF Typed, TypeOK, RestTyped, PassRecord, JobRecord
  <1>3. CASE HostCompacts(p)
    <2>1. RestTyped' /\ PassFine
      <3>1. faults' \in 0..MaxFaults
        BY <1>3, FaultsAfterStart DEF HostCompacts
      <3> QED
        BY <1>1, <1>3, <3>1 DEF HostCompacts, RestTyped, memory
    <2>2. StartJob(p, "compact", 0, "clear") /\ 0 \in 0..MaxMsg
      BY <1>3, MessageAssumption DEF HostCompacts
    <2>3. JobFine
      BY <2>2, JobStarts
    <2> QED
      BY <2>1, <2>3 DEF Typed, TypeOK, RestTyped, PassRecord, JobRecord
  <1>4. CASE HostFails(p)
    <2>1. RestTyped'
      <3>1. faults' \in 0..MaxFaults
        BY <1>1, <1>4, BoundAssumption DEF HostFails, RemoveFails, InjectFails, RestTyped
      <3> QED
        BY <1>1, <1>4, <3>1 DEF HostFails, RemoveFails, InjectFails, RestTyped
    <2>2. CASE JobEnds(p)
      <3>1. JobFine /\ PassFine
        BY <2>2, JobOver, PassAfterJob
      <3> QED
        BY <2>1, <3>1 DEF Typed, TypeOK, RestTyped, PassRecord, JobRecord
    <2>3. CASE ~ JobEnds(p)
      <3>1. PICK at \in {"forget", "rehydrate"} :
               /\ GotoStep(p, at) /\ UNCHANGED pass
               /\ job[p].kind = IF at = "forget" THEN "compact" ELSE "startup"
        BY <1>4, <2>3 DEF HostFails, RemoveFails, InjectFails
      <3>2. WellShaped([job[p] EXCEPT !.at = at]) /\ at \in JobSteps
        BY <1>1, <3>1 DEF WellShaped, JobRecord, JobSteps
      <3>3. JobFine /\ PassFine
        BY <1>1, <3>1, <3>2, JobGoes
      <3> QED
        BY <2>1, <3>3 DEF Typed, TypeOK, RestTyped, PassRecord, JobRecord
    <2> QED
      BY <2>2, <2>3
  <1> QED
    BY <1>2, <1>3, <1>4

\* Crashes and starts.
LEMMA TypedCrash ==
  ASSUME Typed, NEW p \in Proc, Crash(p) \/ Restart(p)
  PROVE  Typed'
  <1>1. RestTyped /\ TypeOK /\ 0 \in 0..MaxMsg
    BY TypedParts, MessageAssumption DEF Typed
  <1> DEFINE JobFine == job' \in [Proc -> JobRecord] /\ \A q \in Proc : WellShaped(job'[q])
             PassFine == pass' \in [Proc -> PassRecord]
  <1>2. PassFine
    BY <1>1, PassSet, PassRecords DEF Crash, Restart
  <1>3. RestTyped'
    <2>1. CASE Crash(p)
      <3>1. faults' \in 0..MaxFaults
        BY <1>1, <2>1, BoundAssumption DEF Crash, RestTyped
      <3>2. deferred' \in [Proc -> BOOLEAN]
        BY <1>1, <2>1 DEF Crash, RestTyped
      <3>3. promoted' \in [Proc -> 0..MaxMsg]
        BY <1>1, <2>1 DEF Crash, RestTyped
      <3> QED
        BY <1>1, <2>1, <3>1, <3>2, <3>3 DEF Crash, RestTyped
    <2>2. CASE Restart(p)
      <3>1. faults' \in 0..MaxFaults
        BY <2>2, FaultsAfterStart DEF Restart
      <3> QED
        BY <1>1, <2>2, <3>1 DEF Restart, RestTyped
    <2> QED
      BY <2>1, <2>2
  <1>4. JobFine
    <2>1. CASE Crash(p)
      BY <2>1, NoJobIsShaped, JobSet DEF Crash
    <2>2. CASE Restart(p)
      <3>1. PICK at \in {"remove", "rehydrate"} :
              job' = [job EXCEPT ![p] = [NoJob EXCEPT !.kind = "startup", !.old = state, !.at = at]]
        BY <2>2 DEF Restart
      <3> DEFINE j == [NoJob EXCEPT !.kind = "startup", !.old = state, !.at = at]
      <3>2. j \in JobRecord /\ j.kind = "startup" /\ j.at = at
        BY <1>1, NoJobIsShaped DEF JobRecord, JobKinds, JobSteps, RestTyped
      <3>3. WellShaped(j)
        BY <3>2 DEF WellShaped
      <3>4. job' = [job EXCEPT ![p] = j]
        BY <3>1
      <3> HIDE DEF j
      <3> QED
        BY <3>2, <3>3, <3>4, JobSet
    <2> QED
      BY <2>1, <2>2
  <1> QED
    BY <1>2, <1>3, <1>4 DEF Typed, TypeOK, RestTyped, PassRecord, JobRecord

LEMMA TypedInit == Init => Typed
  <1> SUFFICES ASSUME Init PROVE Typed
    OBVIOUS
  <1>1. 0 \in 0..MaxMsg /\ 0 \in 0..MaxFaults
    BY MessageAssumption, BoundAssumption
  <1>2. IdlePass \in PassRecord
    <2> DEFINE no == FALSE
    <2>1. no \in BOOLEAN /\ IdlePass = [pc |-> "idle", due |-> no, end |-> 0]
      BY DEF IdlePass
    <2> HIDE DEF no
    <2> QED
      BY <1>1, <2>1 DEF PassRecord
  <1>3. pass \in [Proc -> PassRecord]
    BY <1>2 DEF Init
  <1>4. job \in [Proc -> JobRecord] /\ \A p \in Proc : WellShaped(job[p])
    BY NoJobIsShaped DEF Init
  <1>5. RestTyped
    BY <1>1 DEF Init, RestTyped
  <1> QED
    BY <1>3, <1>4, <1>5, TypedParts

LEMMA TypedStep == Typed /\ [Next]_vars => Typed'
  <1> SUFFICES ASSUME Typed, [Next]_vars PROVE Typed'
    OBVIOUS
  <1>1. CASE UNCHANGED vars
    BY <1>1 DEF vars, Typed, TypeOK
  <1>2. ASSUME NEW p \in Proc,
               \/ Publish(p) \/ PersistNoise(p) \/ PromoteRebuild(p)
               \/ PassStep(p) \/ JobStep(p) \/ HostFails(p)
               \/ UpdateDirectly(p) \/ HostCompacts(p)
               \/ Crash(p) \/ Restart(p)
        PROVE  Typed'
    BY <1>2, TypedWrites, TypedPass, TypedJob, TypedStarts, TypedCrash
  <1> QED
    BY <1>1, <1>2 DEF Next

\* Types of all variables hold, and every statement of a change of the marker
\* finds a job of a kind that reaches it: no drop outside a drain, no message 0
\* injected as a marker.
THEOREM MarkerTypes == Spec => [](TypeOK /\ \A p \in Proc : WellShaped(job[p]))
  <1>1. Init => Typed
    BY TypedInit
  <1>2. Typed /\ [Next]_vars => Typed'
    BY TypedStep
  <1>3. Typed => TypeOK /\ \A p \in Proc : WellShaped(job[p])
    BY DEF Typed
  <1> QED
    BY <1>1, <1>2, <1>3, PTL DEF Spec

-----------------------------------------------------------------------------
(* What is delivered only grows as long as rebuilds reach as far as the    *)
(* compartments did, and the marker follows it.                            *)

LEMMA Grows ==
  ASSUME Typed, base <= LastEnd, MayShrink = FALSE, [Next]_vars
  PROVE  /\ LastEnd \in Place /\ Delivered \in Place /\ Delivered <= LastEnd
         /\ LastEnd' \in Place /\ Delivered' \in Place /\ Delivered' <= LastEnd'
         /\ LastEnd <= LastEnd' /\ Delivered <= Delivered'
         /\ base' <= LastEnd'
  <1>1. Typed' /\ ends \in SUBSET Target /\ ends' \in SUBSET Target
        /\ base \in {NoCache} \cup Place /\ base' \in {NoCache} \cup Place
    BY TypedStep DEF Typed, TypeOK, Place
  <1>2. LastEnd = LastOf(ends) /\ LastEnd' = LastOf(ends')
    BY DEF LastEnd, LastOf
  <1>3. LastEnd \in Place /\ LastEnd' \in Place /\ Place \subseteq Nat
    BY <1>1, <1>2, LastOfIs DEF Place
  <1>4. /\ Delivered = IF base = NoCache THEN LastEnd ELSE base
        /\ Delivered' = IF base' = NoCache THEN LastEnd' ELSE base'
    BY DEF Delivered
  <1>5. LastEnd <= LastEnd' /\ (base' = base \/ base' = NoCache \/ base' = LastEnd)
    <2>1. CASE UNCHANGED <<ends, base>>
      BY <1>2, <1>3, <2>1
    <2>2. ASSUME NEW p \in Proc, Publish(p) \/ PersistNoise(p)
          PROVE  LastEnd <= LastEnd' /\ base' = base
      <3>1. PICK e \in LastEnd + 1..MaxMsg : ends' = ends \cup {e}
        BY <2>2 DEF Publish, PersistNoise
      <3>2. e <= LastEnd'
        BY <1>1, <1>2, <3>1, LastOfIs
      <3> QED
        BY <1>3, <2>2, <3>1, <3>2, MessageAssumption DEF Publish, PersistNoise
    <2>3. ASSUME NEW p \in Proc, PromoteRebuild(p)
          PROVE  LastEnd <= LastEnd' /\ base' = NoCache
      <3>1. PICK E \in (SUBSET Target) \ {{}} : ends' = E /\ (MayShrink \/ Max(E) >= LastEnd)
        BY <2>3 DEF PromoteRebuild
      <3>2. LastEnd' = Max(E)
        BY <1>2, <3>1 DEF LastOf
      <3> QED
        BY <1>3, <2>3, <3>1, <3>2 DEF PromoteRebuild
    <2>4. ASSUME NEW p \in Proc, Fold(p)
          PROVE  ends' = ends /\ base' = LastEnd
      BY <2>4 DEF Fold
    <2>5. CASE UNCHANGED vars
      BY <2>1, <2>5 DEF vars
    <2>6. CASE Next
      <3>1. PICK p \in Proc : \/ Publish(p) \/ PersistNoise(p) \/ PromoteRebuild(p)
                              \/ PassStep(p) \/ JobStep(p) \/ HostFails(p)
                              \/ UpdateDirectly(p) \/ HostCompacts(p)
                              \/ Crash(p) \/ Restart(p)
        BY <2>6 DEF Next
      <3>2. CASE UpdateDirectly(p) \/ HostCompacts(p) \/ HostFails(p) \/ Crash(p) \/ Restart(p)
        BY <2>1, <3>2 DEF UpdateDirectly, HostCompacts, HostFails, RemoveFails, InjectFails,
                          Crash, Restart
      <3>3. CASE JobStep(p)
        BY <2>1, <3>3 DEF JobStep, Check, Remove, Forget, Inject, Persist, Clear, Rehydrate
      <3>4. CASE PassStep(p)
        <4>1. Fold(p) \/ UNCHANGED <<ends, base>>
          BY <3>4 DEF PassStep, Prepare, PrepareAgain, FoldFails, Drain
        <4> QED
          BY <1>2, <1>3, <2>1, <2>4, <4>1
      <3> QED
        BY <2>2, <2>3, <3>1, <3>2, <3>3, <3>4
    <2> QED
      BY <2>5, <2>6
  <1> QED
    BY <1>1, <1>3, <1>4, <1>5 DEF NoCache

Actor(p) == \/ Publish(p) \/ PersistNoise(p) \/ PromoteRebuild(p)
            \/ PassStep(p) \/ JobStep(p) \/ HostFails(p)
            \/ UpdateDirectly(p) \/ HostCompacts(p)
            \/ Crash(p) \/ Restart(p)

\* How a step can change what is noted: a publication sets it, others clear it.
LEMMA PendingChanges ==
  ASSUME NEW p \in Proc, Actor(p)
  PROVE  \/ pending' = pending
         \/ pending' = 0
         \/ Publish(p)
  BY DEF Actor, PersistNoise, PromoteRebuild, PassStep, Prepare, PrepareAgain, Fold, FoldFails,
         Drain, JobStep, Check, Remove, Forget, Inject, Persist, Clear, Rehydrate,
         HostFails, RemoveFails, InjectFails, UpdateDirectly, HostCompacts, Crash, Restart

\* ... the markers: only an injection adds one, its target.
LEMMA RowChanges ==
  ASSUME NEW p \in Proc, Actor(p), NEW t \in rows'
  PROVE  t \in rows \/ t = job[p].target
  BY DEF Actor, Publish, PersistNoise, PromoteRebuild, PassStep, Prepare, PrepareAgain, Fold,
         FoldFails, Drain, JobStep, Check, Remove, Forget, Inject, Persist, Clear, Rehydrate,
         HostFails, RemoveFails, InjectFails, UpdateDirectly, HostCompacts, Crash, Restart

\* ... where a promoted rebuild ends.
LEMMA PromotedChanges ==
  ASSUME Typed, NEW p \in Proc, Actor(p), NEW q \in Proc
  PROVE  \/ promoted'[q] = promoted[q]
         \/ promoted'[q] = 0
         \/ PromoteRebuild(p) /\ p = q
  <1>1. promoted \in [Proc -> 0..MaxMsg]
    BY DEF Typed, TypeOK
  <1>2. CASE UpdateDirectly(p) \/ Crash(p) \/ PromoteRebuild(p)
    <2>1. CASE PromoteRebuild(p)
      <3>1. PICK v : promoted' = [promoted EXCEPT ![p] = v]
        BY <2>1 DEF PromoteRebuild
      <3> QED
        BY <1>1, <2>1, <3>1
    <2> QED
      BY <1>1, <1>2, <2>1 DEF UpdateDirectly, Crash
  <1>3. CASE ~ (UpdateDirectly(p) \/ Crash(p) \/ PromoteRebuild(p))
    <2>1. promoted' = promoted
      BY <1>3 DEF Actor, Publish, PersistNoise, PassStep, Prepare, PrepareAgain, Fold, FoldFails,
             Drain, JobStep, Check, Remove, Forget, Inject, Persist, Clear, Rehydrate, memory,
             HostFails, RemoveFails, InjectFails, HostCompacts, Restart
    <2> QED
      BY <2>1
  <1> QED
    BY <1>2, <1>3

\* ... a pass.
LEMMA PassChanges ==
  ASSUME Typed, NEW p \in Proc, Actor(p), NEW q \in Proc
  PROVE  \/ pass'[q] = pass[q]
         \/ pass'[q].pc \in {"idle", "down"}
         \/ pass'[q].pc = "prepared" /\ pass'[q].end = LastEnd
         \/ Fold(p) /\ pass[q].pc = "prepared" /\ pass'[q].end = pass[q].end
  <1>1. pass \in [Proc -> PassRecord] /\ pass[p] \in PassRecord /\ TypeOK
    BY TypedParts DEF Typed
  <1>2. CASE PassStep(p)
    <2>1. CASE Prepare(p)
      BY <1>1, <2>1 DEF Prepare
    <2>2. CASE PrepareAgain(p)
      BY <1>1, <2>2 DEF PrepareAgain, PassRecord
    <2>3. CASE Fold(p)
      BY <1>1, <2>3 DEF Fold, PassRecord
    <2>4. CASE FoldFails(p) \/ Drain(p)
      BY <1>1, <2>4 DEF FoldFails, Drain, IdlePass
    <2> QED
      BY <1>2, <2>1, <2>2, <2>3, <2>4 DEF PassStep
  <1>3. CASE JobEnds(p)
    BY <1>3, PassAfterJob DEF IdlePass
  <1>4. CASE Crash(p) \/ Restart(p)
    BY <1>1, <1>4 DEF Crash, Restart, IdlePass
  <1>5. CASE ~ (PassStep(p) \/ JobEnds(p) \/ Crash(p) \/ Restart(p))
    <2>1. pass' = pass
      BY <1>5 DEF Actor, Publish, PersistNoise, PromoteRebuild, JobStep, Check, Remove, Forget,
             Inject, Persist, Clear, Rehydrate, memory, HostFails, RemoveFails, InjectFails,
             UpdateDirectly, HostCompacts
    <2> QED
      BY <2>1
  <1> QED
    BY <1>2, <1>3, <1>4, <1>5

\* ... a change of the marker.
LEMMA JobChanges ==
  ASSUME Typed, NEW p \in Proc, Actor(p), NEW q \in Proc
  PROVE  \/ job'[q].kind = job[q].kind /\ job'[q].target = job[q].target
         \/ job'[q].kind # "direct" /\ job'[q].target = 0
         \/ /\ pass[q].pc = "folded" /\ pending \in 1..pass[q].end
            /\ job'[q].kind = "drain" /\ job'[q].target = pending
         \/ /\ promoted[q] # 0
            /\ job'[q].kind = "direct" /\ job'[q].target = promoted[q]
  <1>1. job \in [Proc -> JobRecord] /\ job[p] \in JobRecord /\ WellShaped(job[p]) /\ TypeOK
    BY TypedParts DEF Typed
  <1> DEFINE Same == job'[q].kind = job[q].kind /\ job'[q].target = job[q].target
             None == job'[q].kind # "direct" /\ job'[q].target = 0
  <1>2. CASE UNCHANGED job
    BY <1>2
  <1>3. ASSUME NEW at \in JobSteps, GotoStep(p, at) PROVE Same
    BY <1>1, <1>3 DEF GotoStep, JobRecord
  <1>4. CASE JobEnds(p)
    BY <1>1, <1>4 DEF JobEnds, NoJob
  <1>5. CASE Drain(p)
    BY <1>1, <1>5 DEF Drain
  <1>6. CASE UpdateDirectly(p)
    BY <1>1, <1>6 DEF UpdateDirectly, StartJob
  <1>7. CASE HostCompacts(p)
    BY <1>1, <1>7 DEF HostCompacts, StartJob
  <1>8. CASE Crash(p) \/ Restart(p)
    <2>1. PICK j : job' = [job EXCEPT ![p] = j] /\ j.kind \in {"none", "startup"} /\ j.target = 0
      <3>1. CASE Crash(p)
        <4>1. NoJob.kind = "none" /\ NoJob.target = 0
          BY DEF NoJob
        <4> QED
          BY <3>1, <4>1 DEF Crash
      <3>2. CASE Restart(p)
        <4>1. PICK at \in {"remove", "rehydrate"} :
                job' = [job EXCEPT ![p] = [NoJob EXCEPT !.kind = "startup", !.old = state, !.at = at]]
          BY <3>2 DEF Restart
        <4> DEFINE j == [NoJob EXCEPT !.kind = "startup", !.old = state, !.at = at]
        <4>2. NoJob.target = 0
          BY DEF NoJob
        <4>3. j.kind = "startup" /\ j.target = 0
          BY <4>2, NoJobIsShaped DEF JobRecord
        <4>4. job' = [job EXCEPT ![p] = j]
          BY <4>1
        <4> HIDE DEF j
        <4> QED
          BY <4>3, <4>4
      <3> QED
        BY <1>8, <3>1, <3>2
    <2> QED
      BY <1>1, <2>1
  <1>9. CASE Check(p)
    <2>1. GotoStep(p, "drop") \/ GotoStep(p, "clear") \/ StartJob(p, "drain", job[p].target, "inject")
      BY <1>9 DEF Check
    <2>2. CASE StartJob(p, "drain", job[p].target, "inject")
      <3>1. job[p].kind = "drain"
        BY <1>1, <1>9 DEF Check, JobAt, WellShaped
      <3> QED
        BY <1>1, <2>2, <3>1 DEF StartJob
    <2> QED
      BY <1>3, <2>1, <2>2 DEF JobSteps
  <1>10. CASE Remove(p) \/ Inject(p) \/ Persist(p) \/ HostFails(p)
    <2>1. JobEnds(p) \/ \E at \in JobSteps : GotoStep(p, at)
      BY <1>10 DEF Remove, Inject, Persist, HostFails, RemoveFails, InjectFails, JobSteps
    <2> QED
      BY <1>3, <1>4, <2>1
  <1>11. CASE Forget(p)
    <2>1. job[p].kind \in {"direct", "compact", "startup"}
      BY <1>1, <1>11 DEF Forget, JobAt, WellShaped
    <2>2. \E at \in JobSteps : GotoStep(p, at)
      BY <1>11, <2>1 DEF Forget, JobSteps
    <2> QED
      BY <1>3, <2>2
  <1>12. CASE Clear(p) \/ Rehydrate(p)
    BY <1>4, <1>12 DEF Clear, Rehydrate
  <1> QED
    BY <1>2, <1>4, <1>5, <1>6, <1>7, <1>8, <1>9, <1>10, <1>11, <1>12
       DEF Actor, Publish, PersistNoise, PromoteRebuild, PassStep, Prepare, PrepareAgain, Fold,
           FoldFails, JobStep

\* How far everything reaches.
Reach ==
  /\ base <= LastEnd
  /\ pending <= LastEnd
  /\ \A t \in rows : t <= Delivered
  /\ \A p \in Proc : /\ promoted[p] <= Delivered
                     /\ job[p].target <= Delivered
                     /\ pass[p].pc = "prepared" => pass[p].end <= LastEnd
                     /\ pass[p].pc = "folded" => pass[p].end <= Delivered

\* Who is to move the marker for a rebuild moves it as far as the target noted.
Covering ==
  \A p \in Proc : /\ promoted[p] # 0 => pending <= promoted[p]
                  /\ job[p].kind = "direct" => pending <= job[p].target

MarkerInv == Typed /\ Reach /\ Covering

LEMMA MarkerInit == Init => MarkerInv
  <1> SUFFICES ASSUME Init PROVE MarkerInv
    OBVIOUS
  <1>1. Typed
    BY TypedInit
  <1>2. LastEnd = 0 /\ Delivered = 0
    BY DEF Init, LastEnd, Delivered
  <1>3. Reach
    BY <1>2, MessageAssumption DEF Init, Reach, NoCache, IdlePass, NoJob
  <1>4. Covering
    BY DEF Init, Covering, NoJob
  <1> QED
    BY <1>1, <1>3, <1>4 DEF MarkerInv

LEMMA MarkerStep ==
  ASSUME MayShrink = FALSE, MarkerInv, NEW p \in Proc, Actor(p)
  PROVE  MarkerInv'
  <1>1. Typed /\ Reach /\ Covering /\ [Next]_vars
    BY DEF MarkerInv, Next, Actor
  <1>2. Typed'
    BY <1>1, TypedStep
  <1>3. /\ LastEnd \in Nat /\ Delivered \in Nat /\ LastEnd' \in Nat /\ Delivered' \in Nat
        /\ Delivered <= LastEnd /\ Delivered' <= LastEnd'
        /\ LastEnd <= LastEnd' /\ Delivered <= Delivered'
        /\ base' <= LastEnd'
    <2>1. base <= LastEnd
      BY <1>1 DEF Reach
    <2>2. Place \subseteq Nat
      BY MessageAssumption DEF Place
    <2> QED
      BY <1>1, <2>1, <2>2, Grows
  <1>4. pending \in Nat /\ pending' \in Nat /\ rows \subseteq Nat /\ rows' \subseteq Nat
    BY <1>1, <1>2, MessageAssumption DEF Typed, TypeOK, Target
  <1>5. ASSUME NEW q \in Proc
        PROVE  /\ job[q].target \in Nat /\ job'[q].target \in Nat
               /\ promoted[q] \in Nat /\ promoted'[q] \in Nat
               /\ pass[q].end \in Nat /\ pass'[q].end \in Nat
    BY <1>1, <1>2 DEF Typed, TypeOK
  <1>6. ASSUME Publish(p)
        PROVE  pending' = LastEnd'
    <2>1. PICK e \in LastEnd + 1..MaxMsg : ends' = ends \cup {e} /\ pending' = e
      BY <1>6 DEF Publish
    <2>2. ends \in SUBSET Target /\ ends' \in SUBSET Target
      BY <1>1, <1>2 DEF Typed, TypeOK
    <2>3. LastEnd = LastOf(ends) /\ LastEnd' = LastOf(ends')
      BY DEF LastEnd, LastOf
    <2>4. LastEnd' \in ends \cup {e} /\ e <= LastEnd'
      BY <2>1, <2>2, <2>3, LastOfIs
    <2>5. LastEnd' \in ends => LastEnd' <= LastEnd
      BY <2>2, <2>3, LastOfIs
    <2> QED
      BY <1>3, <2>1, <2>4, <2>5, MessageAssumption
  <1>7. ASSUME PromoteRebuild(p)
        PROVE  promoted'[p] = LastEnd' /\ Delivered' = LastEnd'
    <2>1. PICK E \in (SUBSET Target) \ {{}} :
             ends' = E /\ promoted' = [promoted EXCEPT ![p] = Max(E)]
      BY <1>7 DEF PromoteRebuild
    <2>2. LastEnd' = Max(E) /\ Delivered' = LastEnd'
      BY <1>7, <2>1 DEF PromoteRebuild, LastEnd, Delivered
    <2>3. promoted'[p] = Max(E)
      BY <1>1, <2>1 DEF Typed, TypeOK
    <2> QED
      BY <2>2, <2>3
  <1>8. pending' <= LastEnd'
    BY <1>1, <1>3, <1>4, <1>6, PendingChanges DEF Reach
  <1>9. ASSUME NEW t \in rows' PROVE t <= Delivered'
    <2>1. t <= Delivered
      BY <1>1, RowChanges DEF Reach
    <2> QED
      BY <1>3, <1>4, <2>1
  <1>10. ASSUME NEW q \in Proc PROVE promoted'[q] <= Delivered'
    <2>1. promoted[q] <= Delivered
      BY <1>1 DEF Reach
    <2> QED
      BY <1>1, <1>3, <1>5, <1>7, <2>1, PromotedChanges
  <1>11. ASSUME NEW q \in Proc PROVE job'[q].target <= Delivered'
    <2>1. /\ job[q].target <= Delivered /\ promoted[q] <= Delivered
          /\ pass[q].pc = "folded" => pass[q].end <= Delivered
      BY <1>1 DEF Reach
    <2> QED
      BY <1>1, <1>3, <1>4, <1>5, <2>1, JobChanges
  <1>12. ASSUME NEW q \in Proc
         PROVE  /\ pass'[q].pc = "prepared" => pass'[q].end <= LastEnd'
                /\ pass'[q].pc = "folded" => pass'[q].end <= Delivered'
    <2>1. /\ pass[q].pc = "prepared" => pass[q].end <= LastEnd
          /\ pass[q].pc = "folded" => pass[q].end <= Delivered
      BY <1>1 DEF Reach
    <2>2. CASE Fold(p) /\ pass[q].pc = "prepared" /\ pass'[q].end = pass[q].end
      <3>1. Delivered' = LastEnd
        BY <1>3, <2>2 DEF Fold, Delivered, NoCache, LastEnd
      <3> QED
        BY <1>3, <1>5, <2>1, <2>2, <3>1
    <2>3. CASE pass'[q] = pass[q]
      BY <1>3, <1>5, <2>1, <2>3
    <2> QED
      BY <1>1, <1>3, <2>2, <2>3, PassChanges
  <1>13. Reach'
    BY <1>3, <1>8, <1>9, <1>10, <1>11, <1>12 DEF Reach
  <1>14. ASSUME NEW q \in Proc
         PROVE  /\ promoted'[q] # 0 => pending' <= promoted'[q]
                /\ job'[q].kind = "direct" => pending' <= job'[q].target
    <2>1. /\ promoted[q] # 0 => pending <= promoted[q]
          /\ job[q].kind = "direct" => pending <= job[q].target
      BY <1>1 DEF Covering
    <2>2. CASE Publish(p)
      <3>1. ~ Rebuilding /\ promoted' = promoted /\ job' = job
        BY <2>2 DEF Publish
      <3> QED
        BY <3>1 DEF Rebuilding
    <2>3. CASE ~ Publish(p)
      <3>1. pending' <= pending
        BY <1>4, <2>3, PendingChanges
      <3>2. promoted'[q] # 0 => pending' <= promoted'[q]
        BY <1>1, <1>4, <1>5, <1>7, <1>8, <2>1, <3>1, PromotedChanges
      <3>3. job'[q].kind = "direct" => pending' <= job'[q].target
        BY <1>1, <1>4, <1>5, <2>1, <3>1, JobChanges
      <3> QED
        BY <3>2, <3>3
    <2> QED
      BY <2>2, <2>3
  <1>15. Covering'
    BY <1>14 DEF Covering
  <1> QED
    BY <1>2, <1>13, <1>15 DEF MarkerInv

LEMMA MarkerNext ==
  ASSUME MayShrink = FALSE
  PROVE  MarkerInv /\ [Next]_vars => MarkerInv'
  <1> SUFFICES ASSUME MarkerInv, [Next]_vars PROVE MarkerInv'
    OBVIOUS
  <1>1. CASE UNCHANGED vars
    BY <1>1 DEF vars, MarkerInv, Typed, TypeOK, Reach, Covering, LastEnd, Delivered
  <1>2. CASE Next
    BY <1>2, MarkerStep DEF Next, Actor
  <1> QED
    BY <1>1, <1>2

\* No message is lost to the model while rebuilds reach as far as the
\* compartments did: whatever the marker keeps from the plugin is in the prefix
\* that is delivered.
THEOREM NothingHidden ==
  ASSUME MayShrink = FALSE
  PROVE  Spec => []HiddenIsDelivered
  <1>1. MarkerInv => HiddenIsDelivered
    <2> SUFFICES ASSUME MarkerInv PROVE HiddenIsDelivered
      OBVIOUS
    <2>1. /\ Typed /\ Reach
          /\ LastEnd \in Place /\ base \in {NoCache} \cup Place
          /\ rows \subseteq Target /\ base <= LastEnd
      BY LastEndIs DEF MarkerInv, Typed, TypeOK, Reach, Place
    <2>2. Delivered \in Place
      BY <2>1 DEF Delivered
    <2>3. \A t \in rows : t <= Delivered
      BY <2>1 DEF Reach
    <2>4. Cut \in Place /\ Cut <= Delivered
      BY <2>1, <2>2, <2>3, CutBelow
    <2> QED
      BY <2>2, <2>4, MessageAssumption DEF HiddenIsDelivered, Place
  <1>2. Init => MarkerInv
    BY MarkerInit
  <1>3. MarkerInv /\ [Next]_vars => MarkerInv'
    BY MarkerNext
  <1> QED
    BY <1>1, <1>2, <1>3, PTL DEF Spec

\* A noted target is dropped only by one who has moved the marker at least that
\* far or found it there, who found that very target stale, or because the host
\* compacted by itself.
THEOREM TargetIsHonoured ==
  ASSUME MayShrink = FALSE
  PROVE  Spec => TargetHonoured
  <1> DEFINE Dropped ==
        pending # 0 /\ pending' = 0 =>
          \E p \in Proc : \/ JobAt(p, "clear") /\ (job[p].kind = "compact" \/ job[p].target >= pending)
                          \/ JobAt(p, "drop") /\ job[p].target = pending
  <1>1. MarkerInv /\ [Next]_vars => [Dropped]_vars
    <2> SUFFICES ASSUME MarkerInv, Next, pending # 0, pending' = 0 PROVE Dropped
      BY DEF vars
    <2>1. PICK p \in Proc : Actor(p)
      BY DEF Next, Actor
    <2>2. /\ Typed /\ pending \in Nat /\ LastEnd \in Nat
          /\ job[p].target \in Nat /\ job[p].kind \in JobKinds /\ WellShaped(job[p])
      BY LastEndIs DEF MarkerInv, Typed, TypeOK, Place
    <2>3. Clear(p)
      <3>1. CASE Publish(p)
        BY <2>2, <3>1 DEF Publish
      <3> QED
        BY <2>1, <3>1 DEF Actor, PersistNoise, PromoteRebuild, PassStep, Prepare, PrepareAgain,
           Fold, FoldFails, Drain, JobStep, Check, Remove, Forget, Inject, Persist, Rehydrate,
           HostFails, RemoveFails, InjectFails, UpdateDirectly, HostCompacts, Crash, Restart
    <2>4. CASE job[p].kind = "drain"
      BY <2>2, <2>3, <2>4 DEF Clear, JobAt
    <2>5. CASE job[p].kind = "direct"
      <3>1. pending <= job[p].target
        BY <2>5 DEF MarkerInv, Covering
      <3>2. JobAt(p, "clear")
        BY <2>2, <2>3, <2>5 DEF Clear, JobAt, WellShaped
      <3> QED
        BY <2>2, <3>1, <3>2
    <2>6. CASE job[p].kind \notin {"drain", "direct"}
      BY <2>2, <2>3, <2>6 DEF Clear, JobAt, WellShaped, JobKinds
    <2> QED
      BY <2>4, <2>5, <2>6
  <1>2. Init => MarkerInv
    BY MarkerInit
  <1>3. MarkerInv /\ [Next]_vars => MarkerInv'
    BY MarkerNext
  <1>4. [][Dropped]_vars => TargetHonoured
    BY PTL DEF TargetHonoured
  <1> QED
    BY <1>1, <1>2, <1>3, <1>4, PTL DEF Spec

-----------------------------------------------------------------------------
(* A marker on record that is gone, and who makes up for it.               *)

Busy(p) == job[p] # NoJob
Solo == \A p, q \in Proc : Busy(p) /\ Busy(q) => p = q
Pair == \A p, q, r \in Proc : Busy(p) /\ Busy(q) /\ Busy(r) => p = q \/ p = r \/ q = r

\* The statements from the first change of the marker to the last.
Working == {"remove", "forget", "inject", "persist"}
Works == \E p \in Proc : job[p].at \in Working

Down == \E p \in Proc : pass[p].pc = "down"

\* No marker keeps from the plugin what the one on record does.
Broken == state # 0 /\ \A t \in rows : Boundary(t) < Boundary(state)

\* The markers that no change under way removes, or may still decide to.
Safe == {t \in rows : \A q \in Proc : /\ job[q].at = "remove" => job[q].old # t
                                      /\ job[q].at = "check" => state # t}
Reaches(S, t) == \E u \in S : Boundary(u) >= Boundary(t)

\* What a change relies on when it comes to its end: its marker is there, the
\* one it found reaches far enough, the target it drops is not the last end of a
\* compartment or a rebuild makes up for it.
Ending(j) ==
  /\ j.at = "persist" => j.target \in rows
  /\ j.kind = "drain" /\ j.at = "clear" => j.target <= state
  /\ j.at = "drop" => j.target \notin ends \/ (\E q \in Proc : promoted[q] >= j.target) \/ Down
  /\ j.kind = "direct" /\ j.at = "clear" => pending <= state
  /\ j.kind = "compact" /\ j.at = "clear" => state = 0

\* What a change that nobody disturbs relies on.
Undisturbed(j) ==
  /\ j.at = "remove" => j.old = state
  /\ j.kind \in {"drain", "direct"} /\ j.at \in Working => state < j.target
  /\ j.kind = "direct" /\ j.at \in {"inject", "persist"} => state = 0
  /\ j.kind = "drain" => j.target <= pending

\* Nothing has failed and no changes have overlapped.
Calm ==
  /\ ~ Down /\ \A p \in Proc : job[p].kind # "startup"
  /\ Solo
  /\ \A p \in Proc : Ending(job[p]) /\ Undisturbed(job[p])
  /\ Broken => \E p \in Proc : job[p].at \in Working \ {"remove"}
  /\ pending # 0 => pending \in ends \/ Rebuilding

\* Two changes have overlapped: none removes what the other has injected.
Sound ==
  /\ ~ Down /\ \A p \in Proc : job[p].kind # "startup"
  /\ Pair
  /\ Broken => Works
  /\ \A p \in Proc : job[p].at = "persist" => Reaches(Safe, job[p].target)
  /\ \A p, q \in Proc :
       p # q /\ job[p].kind \in {"drain", "direct"} /\ job[p].at \in {"remove", "forget", "inject"} =>
         /\ job[q].at = "remove" => job[q].old # job[p].target
         /\ job[q].at = "check" => state # job[p].target
  /\ \A p, q \in Proc : p # q /\ job[p].at = "remove" /\ job[q].at = "check" => job[p].old = state

\* A process has crashed or a step has failed: a later target makes up for it.
Hurt ==
  /\ Solo
  /\ \A p \in Proc : pass[p].pc = "down" => ~ Busy(p)
  /\ \A p \in Proc : Ending(job[p])
  /\ Broken => \/ Works
               \/ Down
               \/ pending > state /\ pending \in ends
               \/ \E q \in Proc : promoted[q] > state

Repaired == IF faults = 0 THEN Calm ELSE Sound \/ Hurt

-----------------------------------------------------------------------------
(* What the steps leave alone.                                             *)

LEMMA JobIs ==
  ASSUME Typed, NEW p \in Proc
  PROVE  /\ job[p].at \in JobSteps /\ job[p].kind \in JobKinds
         /\ job[p].target \in Nat /\ job[p].old \in Nat
         /\ WellShaped(job[p])
         /\ job[p].at # "none" => Busy(p)
         /\ state \in Nat /\ pending \in Nat /\ promoted[p] \in Nat
  <1>1. job[p] \in JobRecord /\ WellShaped(job[p]) /\ RestTyped
    BY TypedParts
  <1>2. NoJob.at = "none"
    BY DEF NoJob
  <1> QED
    BY <1>1, <1>2 DEF JobRecord, RestTyped, Busy

\* Another process's record.
LEMMA OthersKeep ==
  ASSUME Typed, NEW p \in Proc, Actor(p), NEW q \in Proc, q # p
  PROVE  job'[q] = job[q] /\ pass'[q] = pass[q] /\ promoted'[q] = promoted[q]
  <1>1. /\ job \in [Proc -> JobRecord] /\ pass \in [Proc -> PassRecord]
        /\ promoted \in [Proc -> 0..MaxMsg]
    BY TypedParts DEF RestTyped
  <1>2. (\E j : job' = [job EXCEPT ![p] = j]) \/ job' = job
    BY DEF Actor, Publish, PersistNoise, PromoteRebuild, PassStep, Prepare, PrepareAgain, Fold,
           FoldFails, Drain, JobStep, Check, Remove, Forget, Inject, Persist, Clear, Rehydrate,
           HostFails, RemoveFails, InjectFails, UpdateDirectly, HostCompacts, Crash, Restart,
           GotoStep, JobEnds, StartJob
  <1>3. (\E r : pass' = [pass EXCEPT ![p] = r]) \/ pass' = pass
    BY DEF Actor, Publish, PersistNoise, PromoteRebuild, PassStep, Prepare, PrepareAgain, Fold,
           FoldFails, Drain, JobStep, Check, Remove, Forget, Inject, Persist, Clear, Rehydrate,
           HostFails, RemoveFails, InjectFails, UpdateDirectly, HostCompacts, Crash, Restart,
           JobEnds, memory
  <1>4. (\E e : promoted' = [promoted EXCEPT ![p] = e]) \/ promoted' = promoted
    BY DEF Actor, Publish, PersistNoise, PromoteRebuild, PassStep, Prepare, PrepareAgain, Fold,
           FoldFails, Drain, JobStep, Check, Remove, Forget, Inject, Persist, Clear, Rehydrate,
           HostFails, RemoveFails, InjectFails, UpdateDirectly, HostCompacts, Crash, Restart,
           memory
  <1> QED
    BY <1>1, <1>2, <1>3, <1>4

\* A pass that is down stays so until its process starts again.
LEMMA DownKeeps ==
  ASSUME Typed, NEW p \in Proc, Actor(p),
         pass[p].pc = "down" => ~ Busy(p)
  PROVE  /\ ~ Crash(p) => (pass'[p].pc = "down" => pass[p].pc = "down")
         /\ ~ Restart(p) => (pass[p].pc = "down" => pass'[p].pc = "down")
  <1>1. pass \in [Proc -> PassRecord] /\ pass[p] \in PassRecord /\ IdlePass.pc = "idle"
    BY TypedParts DEF IdlePass
  <1>2. pass[p].pc = "down" => job[p].at = "none" /\ job[p].kind = "none"
    BY DEF Busy, NoJob
  <1>3. CASE PassStep(p)
    BY <1>1, <1>3 DEF PassStep, Prepare, PrepareAgain, Fold, FoldFails, Drain, Yielded, PassRecord
  <1>4. CASE JobStep(p) \/ HostFails(p)
    <2>1. job[p].at # "none"
      BY <1>4 DEF JobStep, JobAt, Check, Remove, Forget, Inject, Persist, Clear, Rehydrate,
                  HostFails, RemoveFails, InjectFails
    <2>2. pass' = pass \/ pass' = [pass EXCEPT ![p] = IdlePass]
      BY <1>4 DEF JobStep, JobEnds, Check, Remove, Forget, Inject, Persist, Clear, Rehydrate,
                  HostFails, RemoveFails, InjectFails, memory
    <2> QED
      BY <1>1, <1>2, <2>1, <2>2
  <1>5. CASE Crash(p) \/ Restart(p)
    BY <1>1, <1>5 DEF Crash, Restart
  <1>6. CASE \/ Publish(p) \/ PersistNoise(p) \/ PromoteRebuild(p) \/ UpdateDirectly(p)
             \/ HostCompacts(p)
    BY <1>6 DEF Publish, PersistNoise, PromoteRebuild, UpdateDirectly, HostCompacts, memory
  <1> QED
    BY <1>3, <1>4, <1>5, <1>6 DEF Actor

-----------------------------------------------------------------------------
(* What each step does to the record of its process.                       *)

\* A step that has nothing to do with the marker.
Quiet(p) == \/ Publish(p) \/ PersistNoise(p) \/ PromoteRebuild(p)
            \/ Prepare(p) \/ PrepareAgain(p) \/ Fold(p) \/ FoldFails(p)
            \/ Drain(p) /\ UNCHANGED job

\* A change of the marker starts.
Begins(p) == \/ Drain(p) /\ ~ UNCHANGED job
             \/ UpdateDirectly(p) \/ HostCompacts(p) \/ Restart(p)

LEMMA QuietIs ==
  ASSUME Typed, NEW p \in Proc, Quiet(p)
  PROVE  /\ UNCHANGED <<job, state, rows, faults>>
         /\ UNCHANGED promoted \/ PromoteRebuild(p)
         /\ pass'[p].pc = "down" => pass[p].pc = "down"
  <1>1. CASE Drain(p) /\ UNCHANGED job
    <2>1. job \in [Proc -> JobRecord] /\ pass \in [Proc -> PassRecord] /\ NoJob.kind = "none"
          /\ IdlePass.pc = "idle"
      BY TypedParts DEF NoJob, IdlePass
    <2> QED
      BY <1>1, <2>1 DEF Drain
  <1>2. CASE Publish(p) \/ PersistNoise(p) \/ PromoteRebuild(p)
    BY <1>2 DEF Publish, PersistNoise, PromoteRebuild, memory
  <1>3. CASE Prepare(p) \/ PrepareAgain(p) \/ Fold(p) \/ FoldFails(p)
    <2>1. pass \in [Proc -> PassRecord] /\ IdlePass.pc = "idle"
      BY TypedParts DEF IdlePass
    <2> QED
      BY <1>3, <2>1 DEF Prepare, PrepareAgain, Fold, FoldFails, Yielded, PassRecord
  <1> QED
    BY <1>1, <1>2, <1>3 DEF Quiet

LEMMA BeginsIs ==
  ASSUME Typed, NEW p \in Proc, Begins(p)
  PROVE  /\ UNCHANGED <<state, rows, ends, pending>>
         /\ job[p] = NoJob /\ Starts(p)
         /\ \/ /\ Drain(p) /\ pending # 0
               /\ job'[p].kind = "drain" /\ job'[p].at = "check" /\ job'[p].target = pending
               /\ UNCHANGED promoted
            \/ /\ UpdateDirectly(p) /\ promoted[p] # 0 /\ promoted'[p] = 0
               /\ job'[p].kind = "direct" /\ job'[p].target = promoted[p]
               /\ \/ job'[p].at = "clear" /\ promoted[p] <= state
                  \/ job'[p].at = "inject" /\ state = 0
                  \/ job'[p].at = "remove" /\ job'[p].old = state /\ state < promoted[p]
            \/ /\ HostCompacts(p) /\ job'[p].kind = "compact" /\ UNCHANGED promoted
               /\ \/ job'[p].at = "clear" /\ state = 0
                  \/ job'[p].at = "remove" /\ job'[p].old = state
            \/ /\ Restart(p) /\ job'[p].kind = "startup" /\ UNCHANGED promoted
               /\ pass[p].pc = "down" /\ pass'[p].pc = "idle"
               /\ job'[p].at = IF state # 0 /\ state \notin rows THEN "remove" ELSE "rehydrate"
  <1>1. /\ job \in [Proc -> JobRecord] /\ pass \in [Proc -> PassRecord]
        /\ promoted \in [Proc -> Nat] /\ state \in Nat /\ promoted[p] \in Nat
    BY TypedParts DEF RestTyped
  <1>2. CASE Drain(p) /\ ~ UNCHANGED job
    BY <1>1, <1>2 DEF Drain
  <1>3. CASE UpdateDirectly(p)
    <2>1. job[p] = NoJob /\ Starts(p) /\ promoted[p] # 0 /\ promoted'[p] = 0
      BY <1>1, <1>3 DEF UpdateDirectly, Yielded
    <2>2. CASE Covers(promoted[p])
      BY <1>1, <1>3, <2>1, <2>2 DEF UpdateDirectly, Covers
    <2>3. CASE ~ Covers(promoted[p])
      BY <1>1, <1>3, <2>1, <2>3 DEF UpdateDirectly, Covers, StartJob
    <2> QED
      BY <2>2, <2>3
  <1>4. CASE HostCompacts(p)
    BY <1>1, <1>4 DEF HostCompacts, Yielded, StartJob, memory
  <1>5. CASE Restart(p)
    <2>1. job[p] = NoJob /\ Starts(p) /\ UNCHANGED <<state, rows, ends, pending, promoted>>
      BY <1>5 DEF Restart, Starts
    <2> DEFINE at == IF state # 0 /\ state \notin rows THEN "remove" ELSE "rehydrate"
               j == [NoJob EXCEPT !.kind = "startup", !.old = state, !.at = at]
    <2>2. job' = [job EXCEPT ![p] = j]
      BY <1>5 DEF Restart
    <2>3. j.kind = "startup" /\ j.at = at
      BY NoJobIsShaped DEF JobRecord
    <2> HIDE DEF j
    <2>4. pass[p].pc = "down" /\ pass'[p].pc = "idle"
      BY <1>1, <1>5 DEF Restart, IdlePass
    <2> QED
      BY <1>1, <1>5, <2>1, <2>2, <2>3, <2>4
  <1> QED
    BY <1>2, <1>3, <1>4, <1>5 DEF Begins

LEMMA GoesIs ==
  ASSUME Typed, NEW p \in Proc, NEW at, GotoStep(p, at)
  PROVE  /\ job'[p].at = at /\ job'[p].kind = job[p].kind
         /\ job'[p].target = job[p].target /\ job'[p].old = job[p].old
  BY TypedParts DEF GotoStep, JobRecord

LEMMA CheckIs ==
  ASSUME Typed, NEW p \in Proc, Check(p)
  PROVE  /\ UNCHANGED <<state, rows, ends, pending, promoted, pass, faults>>
         /\ job[p].kind = "drain" /\ job'[p].kind = "drain"
         /\ job[p].target # 0 /\ job'[p].target = job[p].target
         /\ \/ job'[p].at = "drop" /\ job[p].target \notin ends
            \/ job'[p].at = "clear" /\ job[p].target <= state
            \/ job'[p].at = "inject" /\ state = 0
            \/ job'[p].at = "remove" /\ job'[p].old = state /\ state < job[p].target
  <1>1. /\ job \in [Proc -> JobRecord] /\ job[p].kind = "drain" /\ job[p].target # 0
        /\ state \in Nat /\ job[p].target \in Nat
    BY JobIs, TypedParts DEF Check, JobAt, WellShaped
  <1>2. CASE GotoStep(p, "drop") /\ job[p].target \notin ends
    BY <1>1, <1>2, GoesIs DEF Check, memory
  <1>3. CASE GotoStep(p, "clear") /\ Covers(job[p].target)
    BY <1>1, <1>3, GoesIs DEF Check, memory, Covers
  <1>4. CASE StartJob(p, "drain", job[p].target, "inject") /\ ~ Covers(job[p].target)
    BY <1>1, <1>4 DEF Check, memory, Covers, StartJob
  <1> QED
    BY <1>2, <1>3, <1>4 DEF Check

LEMMA RemoveIs ==
  ASSUME Typed, NEW p \in Proc, Remove(p)
  PROVE  /\ UNCHANGED <<state, ends, pending, promoted, pass, faults>>
         /\ rows' = rows \ {job[p].old}
         /\ job'[p].kind = job[p].kind /\ job'[p].target = job[p].target
         /\ job'[p].at = IF job[p].kind = "drain" THEN "inject" ELSE "forget"
  BY GoesIs DEF Remove, memory

LEMMA ForgetIs ==
  ASSUME Typed, NEW p \in Proc, Forget(p)
  PROVE  /\ UNCHANGED <<rows, ends, pending, promoted, pass, faults>>
         /\ state' = 0
         /\ job'[p].kind = job[p].kind /\ job'[p].target = job[p].target
         /\ \/ job[p].kind = "direct" /\ job'[p].at = "inject"
            \/ job[p].kind = "compact" /\ job'[p].at = "clear"
            \/ job[p].kind = "startup" /\ job'[p].at = "rehydrate"
  <1>1. job[p].kind \in {"direct", "compact", "startup"}
    BY JobIs DEF Forget, JobAt, WellShaped
  <1>2. CASE job[p].kind = "direct"
    BY <1>2, GoesIs DEF Forget, memory
  <1>3. CASE job[p].kind = "compact"
    BY <1>3, GoesIs DEF Forget, memory
  <1>4. CASE job[p].kind = "startup"
    BY <1>4, GoesIs DEF Forget, memory
  <1> QED
    BY <1>1, <1>2, <1>3, <1>4

LEMMA InjectIs ==
  ASSUME Typed, NEW p \in Proc, Inject(p)
  PROVE  /\ UNCHANGED <<state, ends, pending, promoted, pass, faults>>
         /\ job[p].target \in rows'
         /\ \A t \in rows : t \in rows' \/ Boundary(t) = Boundary(job[p].target)
         /\ job[p].kind \in {"drain", "direct"}
         /\ job'[p].kind = job[p].kind /\ job'[p].target = job[p].target
         /\ job'[p].at = "persist"
  BY GoesIs, JobIs DEF Inject, JobAt, WellShaped, memory

LEMMA PersistIs ==
  ASSUME Typed, NEW p \in Proc, Persist(p)
  PROVE  /\ UNCHANGED <<rows, ends, pending, promoted, pass, faults>>
         /\ state' = job[p].target
         /\ job[p].kind \in {"drain", "direct"}
         /\ job'[p].kind = job[p].kind /\ job'[p].target = job[p].target
         /\ job'[p].at = "clear"
  BY GoesIs, JobIs DEF Persist, JobAt, WellShaped, memory

LEMMA OverIs ==
  ASSUME Typed, NEW p \in Proc, Clear(p) \/ Rehydrate(p)
  PROVE  /\ UNCHANGED <<state, rows, ends, promoted, faults>>
         /\ job'[p] = NoJob
         /\ job[p].at \in {"clear", "drop", "rehydrate"}
         /\ \/ pending' = pending
            \/ /\ pending' = 0
               /\ \/ job[p].kind = "drain" /\ pending = job[p].target
                  \/ job[p].kind # "drain" /\ job[p].at = "clear"
  <1>1. WellShaped(job[p]) /\ JobEnds(p)
    BY JobIs DEF Clear, Rehydrate
  <1>2. job'[p] = NoJob
    BY <1>1, JobOver
  <1>3. CASE Clear(p)
    BY <1>1, <1>2, <1>3 DEF Clear, JobAt, WellShaped
  <1>4. CASE Rehydrate(p)
    BY <1>1, <1>2, <1>4 DEF Rehydrate, JobAt
  <1> QED
    BY <1>3, <1>4

\* Every step is one of these.
LEMMA StepIs ==
  ASSUME NEW p \in Proc, Actor(p)
  PROVE  \/ Quiet(p) \/ Begins(p) \/ Check(p) \/ Remove(p) \/ Forget(p) \/ Inject(p)
         \/ Persist(p) \/ (Clear(p) \/ Rehydrate(p)) \/ HostFails(p) \/ Crash(p)
  BY DEF Actor, Quiet, Begins, PassStep, JobStep

LEMMA AtNone == NoJob.at = "none" /\ NoJob.kind = "none" /\ NoJob.target = 0 /\ NoJob.old = 0
  BY DEF NoJob

\* After an overlap there are no more faults, so that no third change joins.
LEMMA LastFault ==
  ASSUME MaxFaults <= 1, Typed, faults # 0, NEW p \in Proc
  PROVE  ~ Crash(p) /\ ~ HostFails(p) /\ (Starts(p) => NobodyChanges /\ faults' = faults)
  <1>1. faults \in 0..MaxFaults /\ MaxFaults \in Nat
    BY BoundAssumption DEF Typed, TypeOK
  <1>2. ~ (faults < MaxFaults)
    BY <1>1
  <1> QED
    BY <1>2 DEF Crash, HostFails, RemoveFails, InjectFails, Starts

LEMMA SoundStep ==
  ASSUME MaxFaults <= 1, Typed, Sound, faults # 0, NEW p \in Proc, Actor(p), Typed'
  PROVE  Sound'
  <1>1. ~ Down' /\ (\A q \in Proc : pass[q].pc # "down")
    <2>1. ~ Crash(p) /\ (\A q \in Proc : pass[q].pc # "down")
      BY LastFault DEF Sound, Down
    <2>2. \A q \in Proc : pass'[q].pc # "down"
      BY <2>1, DownKeeps, OthersKeep
    <2> QED
      BY <2>1, <2>2 DEF Down
  <1>2. \A q \in Proc : q # p => job'[q] = job[q]
    BY OthersKeep
  <1>3. CASE Quiet(p)
    <2>1. UNCHANGED <<job, state, rows>>
      BY <1>3, QuietIs
    <2>2. Broken' = Broken /\ Works' = Works /\ Pair' = Pair
      BY <2>1 DEF Broken, Works, Pair, Busy, Boundary
    <2>3. Safe' = Safe
      BY <2>1 DEF Safe
    <2> QED
      BY <1>1, <2>1, <2>2, <2>3 DEF Sound
  <1>4. CASE Begins(p)
    <2>1. NobodyChanges /\ UNCHANGED <<state, rows>>
      BY <1>4, BeginsIs, LastFault
    <2>2. \A q \in Proc : job[q].at = "none"
      BY <2>1, AtNone DEF NobodyChanges
    <2>3. ~ Broken'
      <3>1. ~ Works
        BY <2>2 DEF Works, Working
      <3> QED
        BY <2>1, <3>1 DEF Sound, Broken, Boundary
    <2>4. Pair'
      BY <1>2, <2>1 DEF Pair, Busy, NobodyChanges
    <2>5. job'[p].at # "persist" /\ job'[p].kind # "startup"
      BY <1>1, <1>4, BeginsIs
    <2>6. \A q \in Proc : q # p => job'[q].at = "none" /\ job'[q].kind = "none"
      BY <1>2, <2>1, AtNone DEF NobodyChanges
    <2> QED
      BY <1>1, <2>3, <2>4, <2>5, <2>6 DEF Sound
  <1>5. ASSUME Check(p) \/ Remove(p) \/ Forget(p) \/ Inject(p) \/ Persist(p) \/ Clear(p) \/ Rehydrate(p)
        PROVE  /\ Pair'
               /\ Busy(p)
               /\ \A q, r \in Proc : q # p /\ r # p /\ Busy(q) /\ Busy(r) => q = r
    <2>1. Busy(p)
      BY <1>5, AtNone DEF Busy, Check, Remove, Forget, Inject, Persist, Clear, Rehydrate, JobAt
    <2>2. \A q \in Proc : Busy(q)' => Busy(q)
      BY <1>2, <2>1 DEF Busy
    <2> QED
      BY <2>1, <2>2 DEF Sound, Pair
  <1>6. CASE Check(p)
    <2>1. job[p].at = "check"
      BY <1>6 DEF Check, JobAt
    <2>2. Safe \subseteq Safe'
      <3>1. rows' = rows /\ state' = state /\ rows \subseteq Target
        BY <1>6, CheckIs DEF Typed, TypeOK
      <3> QED
        BY <1>2, <1>6, <2>1, <3>1, CheckIs DEF Safe, Target
    <2>3. \A b : Reaches(Safe, b) => Reaches(Safe', b)
      BY <2>2 DEF Reaches
    <2>4. Broken' => Works'
      <3>1. Broken' = Broken
        BY <1>6, CheckIs DEF Broken, Boundary
      <3>2. Works => Works'
        BY <1>2, <2>1 DEF Works, Working
      <3> QED
        BY <3>1, <3>2 DEF Sound
    <2>5. ASSUME NEW q \in Proc, NEW r \in Proc, q # r, job'[q].kind \in {"drain", "direct"},
                 job'[q].at \in {"remove", "forget", "inject"}
          PROVE  /\ job'[r].at = "remove" => job'[r].old # job'[q].target
                 /\ job'[r].at = "check" => state' # job'[q].target
      <3>1. state' = state /\ state \in Nat /\ job[p].target \in Nat
        BY <1>6, CheckIs, JobIs
      <3>2. CASE q = p
        <4>1. state # job[p].target
          BY <1>6, <2>5, <3>1, <3>2, CheckIs
        <4>2. job[r].at = "remove" => job[r].old = state
          BY <2>1, <2>5, <3>2 DEF Sound
        <4> QED
          BY <1>2, <1>6, <2>5, <3>1, <3>2, <4>1, <4>2, CheckIs
      <3>3. CASE q # p
        <4>1. job'[q] = job[q]
          BY <1>2, <3>3
        <4>2. r = p => state # job[q].target
          BY <2>1, <2>5, <4>1 DEF Sound
        <4>3. r # p => job'[r] = job[r]
          BY <1>2
        <4>4. CASE r # p
          BY <2>5, <3>1, <4>1, <4>3, <4>4 DEF Sound
        <4>5. CASE r = p
          BY <1>6, <2>5, <3>1, <4>1, <4>2, <4>5, CheckIs
        <4> QED
          BY <4>4, <4>5
      <3> QED
        BY <3>2, <3>3
    <2>6. ASSUME NEW q \in Proc, NEW r \in Proc, q # r, job'[q].at = "remove", job'[r].at = "check"
          PROVE  job'[q].old = state'
      <3>1. r # p
        BY <1>6, <2>6, CheckIs
      <3> QED
        BY <1>2, <1>6, <2>6, <3>1, CheckIs DEF Sound
    <2>7. \A q \in Proc : /\ job'[q].kind # "startup"
                          /\ job'[q].at = "persist" => Reaches(Safe', job'[q].target)
      BY <1>2, <1>6, <2>3, CheckIs DEF Sound
    <2> QED
      BY <1>1, <1>5, <1>6, <2>4, <2>5, <2>6, <2>7 DEF Sound
  <1>7. CASE Remove(p)
    <2>1. job[p].at = "remove"
      BY <1>7 DEF Remove, JobAt
    <2>2. job'[p].at \in {"inject", "forget"} /\ Works'
      BY <1>7, RemoveIs DEF Works, Working
    <2>3. Safe \subseteq Safe'
      BY <1>2, <1>7, <2>1, <2>2, RemoveIs DEF Safe
    <2>4. \A b : Reaches(Safe, b) => Reaches(Safe', b)
      BY <2>3 DEF Reaches
    <2>5. \A q \in Proc : /\ job'[q].kind = job[q].kind
                          /\ job'[q].target = job[q].target
                          /\ q # p => job'[q] = job[q]
      BY <1>2, <1>7, RemoveIs
    <2>6. state' = state
      BY <1>7, RemoveIs
    <2>7. \A q \in Proc : /\ job'[q].kind # "startup"
                          /\ job'[q].at = "persist" => Reaches(Safe', job'[q].target)
      BY <2>2, <2>4, <2>5 DEF Sound
    <2>8. ASSUME NEW q \in Proc, NEW r \in Proc, q # r, job'[q].kind \in {"drain", "direct"},
                 job'[q].at \in {"remove", "forget", "inject"}
          PROVE  /\ job'[r].at = "remove" => job'[r].old # job'[q].target
                 /\ job'[r].at = "check" => state' # job'[q].target
      <3>1. job[q].kind \in {"drain", "direct"} /\ job[q].at \in {"remove", "forget", "inject"}
        BY <2>1, <2>5, <2>8
      <3> QED
        BY <2>2, <2>5, <2>6, <2>8, <3>1 DEF Sound
    <2>9. \A q, r \in Proc : q # r /\ job'[q].at = "remove" /\ job'[r].at = "check" => job'[q].old = state'
      BY <2>2, <2>5, <2>6 DEF Sound
    <2> QED
      BY <1>1, <1>5, <1>7, <2>2, <2>7, <2>8, <2>9 DEF Sound
  <1>8. CASE Inject(p)
    <2>1. job[p].at = "inject"
      BY <1>8 DEF Inject, JobAt
    <2>2. job'[p].at = "persist" /\ Works'
      BY <1>8, InjectIs DEF Works, Working
    <2>3. \A q \in Proc : /\ job'[q].kind = job[q].kind
                          /\ job'[q].target = job[q].target
                          /\ q # p => job'[q] = job[q]
      BY <1>2, <1>8, InjectIs
    <2>4. state' = state
      BY <1>8, InjectIs
    <2>5. job[p].target \in Safe' /\ Boundary(job[p].target) \in Nat
      <3>1. job[p].kind \in {"drain", "direct"} /\ job[p].target \in rows'
        BY <1>8, InjectIs
      <3>2. \A q \in Proc : q # p => /\ job[q].at = "remove" => job[q].old # job[p].target
                                     /\ job[q].at = "check" => state # job[p].target
        BY <2>1, <3>1 DEF Sound
      <3>3. job[p].target \in Target
        BY <3>1 DEF Typed, TypeOK
      <3>4. Boundary(job[p].target) \in Nat
        BY <3>3, BoundaryIs DEF Target
      <3> QED
        BY <2>2, <2>3, <2>4, <3>1, <3>2, <3>4 DEF Safe
    <2>6. \A t \in Safe : t \in Safe' \/ Boundary(t) = Boundary(job[p].target)
      <3>1. \A t \in rows : t \in rows' \/ Boundary(t) = Boundary(job[p].target)
        BY <1>8, InjectIs
      <3> QED
        BY <2>2, <2>3, <2>4, <3>1 DEF Safe
    <2>7. \A b : Reaches(Safe, b) \/ b = job[p].target => Reaches(Safe', b)
      BY <2>5, <2>6 DEF Reaches
    <2>8. \A q \in Proc : /\ job'[q].kind # "startup"
                          /\ job'[q].at = "persist" => Reaches(Safe', job'[q].target)
      BY <2>2, <2>3, <2>7 DEF Sound
    <2>9. ASSUME NEW q \in Proc, NEW r \in Proc, q # r, job'[q].kind \in {"drain", "direct"},
                 job'[q].at \in {"remove", "forget", "inject"}
          PROVE  /\ job'[r].at = "remove" => job'[r].old # job'[q].target
                 /\ job'[r].at = "check" => state' # job'[q].target
      BY <2>2, <2>3, <2>4, <2>9 DEF Sound
    <2>10. \A q, r \in Proc : q # r /\ job'[q].at = "remove" /\ job'[r].at = "check" => job'[q].old = state'
      BY <2>2, <2>3, <2>4 DEF Sound
    <2> QED
      BY <1>1, <1>5, <1>8, <2>2, <2>8, <2>9, <2>10 DEF Sound
  <1>9. CASE Forget(p) \/ Persist(p)
    <2>1. \A q, r \in Proc : job'[q].at # "none" /\ job'[r].at # "none" => q = r \/ q = p \/ r = p
      <3>1. \A q \in Proc : q # p /\ job'[q].at # "none" => Busy(q)
        BY <1>2, AtNone DEF Busy
      <3> QED
        BY <1>5, <1>9, <3>1
    <2>2. job'[p].at \in {"inject", "clear"} /\ job'[p].kind # "startup"
      BY <1>9, ForgetIs, PersistIs DEF Sound
    <2>3. job'[p].at = "inject" => state' = 0 /\ job'[p].target \in Nat \ {0}
      <3>1. job'[p].at = "inject" => Forget(p)
        BY <1>9, PersistIs
      <3>2. WellShaped(job'[p]) /\ job'[p].target \in Nat
        BY JobIs DEF Typed, TypeOK
      <3> QED
        BY <3>1, <3>2, ForgetIs DEF WellShaped
    <2>4. ~ Broken'
      <3>1. CASE Forget(p)
        BY <3>1, ForgetIs DEF Broken
      <3>2. CASE Persist(p)
        <4>1. Reaches(Safe, job[p].target) /\ rows' = rows /\ state' = job[p].target
          BY <3>2, PersistIs DEF Sound, Persist, JobAt
        <4>2. PICK t \in rows : Boundary(t) >= Boundary(job[p].target)
          BY <4>1 DEF Reaches, Safe
        <4>3. CASE job[p].target = 0
          BY <4>1, <4>3 DEF Broken
        <4>4. CASE job[p].target # 0
          <5>1. t \in Target /\ job[p].target \in Target
            BY <4>4 DEF Typed, TypeOK, JobRecord, Target
          <5>2. Boundary(t) \in Nat /\ Boundary(job[p].target) \in Nat
            BY <5>1, BoundaryIs DEF Target
          <5>3. Boundary(t)' = Boundary(t) /\ Boundary(state)' = Boundary(job[p].target)
            BY <4>1 DEF Boundary
          <5> QED
            BY <4>1, <4>2, <5>2, <5>3 DEF Broken
        <4> QED
          BY <4>3, <4>4
      <3> QED
        BY <1>9, <3>1, <3>2
    <2>5. ASSUME NEW q \in Proc, job'[q].at = "persist"
          PROVE  Reaches(Safe', job'[q].target)
      <3>1. q # p /\ job'[q] = job[q] /\ job[q].at = "persist"
        BY <1>2, <2>2, <2>5
      <3>2. Reaches(Safe, job[q].target)
        BY <3>1 DEF Sound
      <3>3. rows' = rows
        BY <1>9, ForgetIs, PersistIs
      <3>4. \A r \in Proc : job'[r].at \notin {"remove", "check"}
        BY <2>1, <2>2, <2>5, <3>1
      <3>5. Safe \subseteq Safe'
        BY <3>3, <3>4 DEF Safe
      <3> QED
        BY <3>1, <3>2, <3>5 DEF Reaches
    <2>6. ASSUME NEW q \in Proc, NEW r \in Proc, q # r, job'[q].kind \in {"drain", "direct"},
                 job'[q].at \in {"remove", "forget", "inject"}
          PROVE  /\ job'[r].at = "remove" => job'[r].old # job'[q].target
                 /\ job'[r].at = "check" => state' # job'[q].target
      <3>1. job'[r].at \in {"remove", "check"} => q = p /\ job'[q].at = "inject" /\ job'[r] = job[r]
        BY <1>2, <2>1, <2>2, <2>6
      <3>2. CASE q = p /\ job'[q].at = "inject" /\ job'[r] = job[r]
        <4>1. Forget(p)
          BY <1>9, <3>2, PersistIs
        <4>2. job[p].kind = job'[p].kind /\ job[p].target = job'[p].target /\ job[p].at = "forget"
          BY <4>1, ForgetIs DEF Forget, JobAt
        <4> QED
          BY <2>3, <2>6, <3>2, <4>2 DEF Sound
      <3> QED
        BY <3>1, <3>2
    <2>7. \A q, r \in Proc : q # r /\ job'[q].at = "remove" /\ job'[r].at = "check" => job'[q].old = state'
      BY <2>1, <2>2
    <2>8. \A q \in Proc : job'[q].kind # "startup"
      BY <1>2, <2>2 DEF Sound
    <2> QED
      BY <1>1, <1>5, <1>9, <2>4, <2>5, <2>6, <2>7, <2>8 DEF Sound
  <1>10. CASE Clear(p) \/ Rehydrate(p)
    <2>1. /\ state' = state /\ rows' = rows
          /\ job'[p].at = "none" /\ job'[p].kind = "none"
          /\ job[p].at \in {"clear", "drop", "rehydrate"}
      BY <1>10, OverIs, AtNone
    <2>2. Safe \subseteq Safe'
      BY <1>2, <2>1 DEF Safe
    <2>3. \A b : Reaches(Safe, b) => Reaches(Safe', b)
      BY <2>2 DEF Reaches
    <2>4. Broken' => Works'
      <3>1. Broken' = Broken
        BY <2>1 DEF Broken, Boundary
      <3>2. Works => Works'
        BY <1>2, <2>1 DEF Works, Working
      <3> QED
        BY <3>1, <3>2 DEF Sound
    <2>5. \A q \in Proc : /\ job'[q].kind # "startup"
                          /\ job'[q].at = "persist" => Reaches(Safe', job'[q].target)
      BY <1>2, <2>1, <2>3 DEF Sound
    <2>6. ASSUME NEW q \in Proc, NEW r \in Proc, q # r, job'[q].kind \in {"drain", "direct"},
                 job'[q].at \in {"remove", "forget", "inject"}
          PROVE  /\ job'[r].at = "remove" => job'[r].old # job'[q].target
                 /\ job'[r].at = "check" => state' # job'[q].target
      BY <1>2, <2>1, <2>6 DEF Sound
    <2>7. \A q, r \in Proc : q # r /\ job'[q].at = "remove" /\ job'[r].at = "check" => job'[q].old = state'
      BY <1>2, <2>1 DEF Sound
    <2> QED
      BY <1>1, <1>5, <1>10, <2>4, <2>5, <2>6, <2>7 DEF Sound
  <1> QED
    BY <1>3, <1>4, <1>6, <1>7, <1>8, <1>9, <1>10, StepIs, LastFault

\* How far the changes under way reach.
LEMMA FarIs ==
  ASSUME MarkerInv
  PROVE  /\ LastEnd \in Nat /\ pending \in Nat /\ state \in Nat /\ pending <= LastEnd
         /\ \A q \in Proc : /\ job[q].target \in Nat /\ job[q].target <= LastEnd
                            /\ promoted[q] \in Nat
  <1>1. LastEnd \in Nat
    BY LastEndIs DEF MarkerInv, Typed, TypeOK, Place
  <1>2. base \in Int /\ pending \in Nat /\ state \in Nat /\ base <= LastEnd /\ pending <= LastEnd
    BY MessageAssumption DEF MarkerInv, Typed, TypeOK, Reach, NoCache
  <1>3. Delivered \in Int /\ Delivered <= LastEnd
    BY <1>1, <1>2 DEF Delivered
  <1>4. \A q \in Proc : /\ job[q].target \in Nat /\ job[q].target <= Delivered
                        /\ promoted[q] \in Nat
    BY DEF MarkerInv, Typed, TypeOK, Reach
  <1> QED
    BY <1>1, <1>2, <1>3, <1>4

\* What a quiet step does to the compartments and the targets.
LEMMA QuietWrites ==
  ASSUME MayShrink = FALSE, MarkerInv, NEW p \in Proc, Quiet(p)
  PROVE  \/ UNCHANGED <<ends, pending, promoted>>
         \/ \E e \in Nat : /\ LastEnd < e /\ ends' = ends \cup {e} /\ UNCHANGED promoted
                           /\ \/ pending' = pending
                              \/ pending' = e /\ ~ Rebuilding
         \/ /\ ~ Rebuilding /\ pending' = pending
            /\ promoted'[p] \in Nat \ {0} /\ LastEnd <= promoted'[p]
  <1>1. LastEnd \in Nat
    BY FarIs
  <1>2. CASE Publish(p) \/ PersistNoise(p)
    <2>1. PICK e \in LastEnd + 1..MaxMsg :
             /\ ends' = ends \cup {e} /\ UNCHANGED promoted
             /\ pending' = pending \/ (pending' = e /\ ~ Rebuilding)
      BY <1>2 DEF Publish, PersistNoise, memory
    <2>2. e \in Nat /\ LastEnd < e
      BY <1>1, <2>1, MessageAssumption
    <2> QED
      BY <2>1, <2>2
  <1>3. CASE PromoteRebuild(p)
    <2>1. PICK E \in (SUBSET Target) \ {{}} :
             Max(E) >= LastEnd /\ promoted' = [promoted EXCEPT ![p] = Max(E)]
      BY <1>3 DEF PromoteRebuild
    <2>2. E \in SUBSET Place /\ E # {} /\ E \subseteq Target
      BY <2>1, MessageAssumption DEF Target, Place
    <2>3. Max(E) \in Nat \ {0}
      <3>1. Max(E) \in E
        BY <2>2, MaxOf
      <3>2. \A t \in Target : t \in Nat \ {0}
        BY MessageAssumption DEF Target
      <3> QED
        BY <2>2, <3>1, <3>2
    <2>4. promoted'[p] = Max(E)
      BY <2>1 DEF MarkerInv, Typed, TypeOK
    <2> QED
      BY <1>1, <1>3, <2>1, <2>3, <2>4 DEF PromoteRebuild
  <1>4. CASE ~ (Publish(p) \/ PersistNoise(p) \/ PromoteRebuild(p))
    BY <1>4 DEF Quiet, Prepare, PrepareAgain, Fold, FoldFails, Drain
  <1> QED
    BY <1>2, <1>3, <1>4

LEMMA QuietEnds ==
  ASSUME MayShrink = FALSE, MarkerInv, NEW p \in Proc, Quiet(p), Down => Down',
         NEW q \in Proc, Ending(job[q])
  PROVE  Ending(job[q])'
  <1>1. Typed /\ UNCHANGED <<job, state, rows>>
    BY QuietIs DEF MarkerInv
  <1>2. /\ job[q].target \in Nat /\ job[q].target <= LastEnd
        /\ LastEnd \in Nat /\ pending \in Nat
        /\ \A r \in Proc : promoted[r] \in Nat
    BY FarIs
  <1>3. job[q].at = "drop" => job[q].target # 0
    BY <1>1, JobIs DEF WellShaped
  <1>4. CASE UNCHANGED <<ends, pending, promoted>>
    BY <1>1, <1>4 DEF Ending
  <1>5. ASSUME NEW e \in Nat, LastEnd < e, ends' = ends \cup {e}, UNCHANGED promoted,
               pending' = pending \/ (pending' = e /\ ~ Rebuilding)
        PROVE  Ending(job[q])'
    <2>1. job[q].kind = "direct" => pending' = pending
      BY <1>5 DEF Rebuilding
    <2>2. job[q].target # e
      BY <1>2, <1>5
    <2> QED
      BY <1>1, <1>5, <2>1, <2>2 DEF Ending
  <1>6. CASE ~ Rebuilding /\ pending' = pending /\ promoted'[p] \in Nat \ {0} /\ LastEnd <= promoted'[p]
    <2>1. promoted'[p] >= job[q].target
      BY <1>2, <1>6
    <2> QED
      BY <1>1, <1>6, <2>1 DEF Ending
  <1> QED
    BY <1>4, <1>5, <1>6, QuietWrites

LEMMA BeginsEnds ==
  ASSUME MarkerInv, NEW p \in Proc, Begins(p)
  PROVE  Ending(job[p])'
  <1>1. Typed /\ (promoted[p] # 0 => pending <= promoted[p])
    BY DEF MarkerInv, Covering
  <1>2. UNCHANGED <<state, rows, ends, pending>>
    BY <1>1, BeginsIs
  <1>3. pending \in Nat /\ state \in Nat /\ promoted[p] \in Nat
    BY FarIs
  <1> QED
    BY <1>1, <1>2, <1>3, BeginsIs DEF Ending

LEMMA StepEnds ==
  ASSUME MarkerInv, NEW p \in Proc,
         Check(p) \/ Remove(p) \/ Forget(p) \/ Inject(p) \/ Persist(p) \/ Clear(p) \/ Rehydrate(p)
  PROVE  Ending(job[p])'
  <1>1. Typed /\ job[p].target \in Nat
    BY FarIs DEF MarkerInv
  <1>2. CASE Check(p)
    BY <1>1, <1>2, CheckIs DEF Ending
  <1>3. CASE Remove(p)
    BY <1>1, <1>3, RemoveIs DEF Ending
  <1>4. CASE Forget(p)
    BY <1>1, <1>4, ForgetIs DEF Ending
  <1>5. CASE Inject(p)
    BY <1>1, <1>5, InjectIs DEF Ending
  <1>6. CASE Persist(p)
    <2>1. job[p].kind = "direct" => pending <= job[p].target
      BY DEF MarkerInv, Covering
    <2> QED
      BY <1>1, <1>6, <2>1, PersistIs DEF Ending
  <1>7. CASE Clear(p) \/ Rehydrate(p)
    BY <1>1, <1>7, OverIs, AtNone DEF Ending
  <1> QED
    BY <1>2, <1>3, <1>4, <1>5, <1>6, <1>7

\* A process at one of its statements is the only one.
LEMMA Alone ==
  ASSUME Solo, NEW p \in Proc, job[p].at # "none", NEW q \in Proc, q # p
  PROVE  job[q] = NoJob
  BY AtNone DEF Solo, Busy

\* The marker that is on record is there once it is recorded again.
LEMMA Recorded ==
  ASSUME MarkerInv, NEW p \in Proc, Persist(p), Ending(job[p])
  PROVE  ~ Broken'
  <1>1. rows' = rows /\ state' = job[p].target /\ job[p].target \in rows
    BY PersistIs DEF MarkerInv, Ending, Persist, JobAt
  <1>2. Boundary(job[p].target) \in Nat
    BY <1>1, BoundaryIs DEF MarkerInv, Typed, TypeOK, Target
  <1>3. Boundary(state)' = Boundary(job[p].target)
    BY <1>1 DEF Boundary
  <1>4. job[p].target \in rows' /\ ~ (Boundary(job[p].target) < Boundary(job[p].target))
    BY <1>1, <1>2
  <1> QED
    BY <1>1, <1>4 DEF Broken, Boundary

LEMMA CalmStep ==
  ASSUME MayShrink = FALSE, MarkerInv, Calm, NEW p \in Proc, Actor(p), faults' = 0, faults = 0
  PROVE  Calm'
  <1>1. Typed /\ Solo /\ ~ Crash(p) /\ ~ HostFails(p) /\ (Starts(p) => NobodyChanges)
    BY DEF MarkerInv, Calm, Crash, HostFails, RemoveFails, InjectFails, Starts
  <1>2. \A q \in Proc : q # p => job'[q] = job[q]
    BY <1>1, OthersKeep
  <1>3. ~ Down'
    <2>1. \A q \in Proc : pass[q].pc # "down"
      BY DEF Calm, Down
    <2>2. \A q \in Proc : pass'[q].pc # "down"
      BY <1>1, <2>1, DownKeeps, OthersKeep
    <2> QED
      BY <2>2 DEF Down
  <1>4. /\ LastEnd \in Nat /\ pending \in Nat /\ state \in Nat
        /\ \A q \in Proc : job[q].target \in Nat /\ job[q].target <= LastEnd /\ promoted[q] \in Nat
    BY FarIs
  <1>5. CASE Quiet(p)
    <2>1. UNCHANGED <<job, state, rows>>
      BY <1>1, <1>5, QuietIs
    <2>2. Solo' /\ (Broken' <=> Broken)
      BY <1>1, <2>1 DEF Solo, Busy, Broken, Boundary
    <2>3. \A q \in Proc : Ending(job[q])'
      <3>1. \A q \in Proc : Ending(job[q])
        BY DEF Calm
      <3>2. Down => Down'
        BY DEF Calm
      <3> QED
        BY <1>5, <3>1, <3>2, QuietEnds
    <2>4. pending <= pending'
      <3>1. pending <= LastEnd
        BY FarIs
      <3>2. ASSUME NEW e \in Nat, LastEnd < e, pending' = e
            PROVE  pending <= pending'
        BY <1>4, <3>1, <3>2
      <3>3. CASE pending' = pending
        BY <1>4, <3>3
      <3> QED
        BY <1>5, <3>2, <3>3, QuietWrites
    <2>5. \A q \in Proc : Undisturbed(job[q])'
      <3>1. pending' \in Nat
        BY <1>4, <1>5, QuietWrites
      <3> QED
        BY <1>4, <2>1, <2>4, <3>1 DEF Calm, Undisturbed
    <2>6. pending' # 0 => pending' \in ends' \/ Rebuilding'
      <3>1. CASE UNCHANGED <<ends, pending, promoted>>
        BY <2>1, <3>1 DEF Calm, Rebuilding
      <3>2. ASSUME NEW e \in Nat, ends' = ends \cup {e}, UNCHANGED promoted,
                   pending' = pending \/ pending' = e
            PROVE  pending' # 0 => pending' \in ends' \/ Rebuilding'
        BY <2>1, <3>2 DEF Calm, Rebuilding
      <3>3. CASE promoted'[p] \in Nat \ {0}
        BY <3>3 DEF Rebuilding
      <3> QED
        BY <1>5, <3>1, <3>2, <3>3, QuietWrites
    <2> QED
      BY <1>3, <2>1, <2>2, <2>3, <2>5, <2>6 DEF Calm
  <1>6. CASE Begins(p)
    <2>1. /\ NobodyChanges /\ UNCHANGED <<state, rows, ends, pending>>
          /\ ~ Restart(p)
      <3>1. ~ Restart(p)
        BY DEF Calm, Down, Restart
      <3> QED
        BY <1>1, <1>6, <3>1, BeginsIs
    <2>2. \A q \in Proc : q # p => job'[q] = NoJob
      BY <1>2, <2>1 DEF NobodyChanges
    <2>3. Solo'
      BY <2>2 DEF Solo, Busy
    <2>4. ~ Broken'
      <3>1. \A q \in Proc : job[q].at = "none"
        BY <2>1, AtNone DEF NobodyChanges
      <3>2. ~ Broken
        BY <3>1 DEF Calm, Working
      <3> QED
        BY <2>1, <3>2 DEF Broken, Boundary
    <2>5. \A q \in Proc : Ending(job[q])' /\ Undisturbed(job[q])' /\ job'[q].kind # "startup"
      <3>1. ASSUME NEW q \in Proc, q # p
            PROVE  Ending(job[q])' /\ Undisturbed(job[q])' /\ job'[q].kind # "startup"
        BY <2>2, <3>1, AtNone DEF Ending, Undisturbed, Working
      <3>2. Ending(job[p])'
        BY <1>6, BeginsEnds
      <3>3. Undisturbed(job[p])' /\ job'[p].kind # "startup"
        <4>1. promoted[p] # 0 => 0 < promoted[p]
          BY <1>4
        <4> QED
          BY <1>1, <1>4, <1>6, <2>1, <4>1, BeginsIs DEF Undisturbed, Working
      <3> QED
        BY <3>1, <3>2, <3>3
    <2>6. pending' # 0 => pending' \in ends' \/ Rebuilding'
      <3>1. pending # 0 => pending \in ends \/ \E q \in Proc : promoted[q] # 0
        BY <2>1, AtNone DEF Calm, Rebuilding, NobodyChanges
      <3>2. CASE job'[p].kind = "direct"
        BY <3>2 DEF Rebuilding
      <3>3. CASE UNCHANGED promoted
        BY <2>1, <3>1, <3>3 DEF Rebuilding
      <3> QED
        BY <1>1, <1>6, <3>2, <3>3, BeginsIs
    <2> QED
      BY <1>3, <2>3, <2>4, <2>5, <2>6 DEF Calm
  <1>7. ASSUME Check(p) \/ Remove(p) \/ Forget(p) \/ Inject(p) \/ Persist(p) \/ Clear(p) \/ Rehydrate(p),
               job'[p].kind # "startup",
               Undisturbed(job[p])',
               Broken' => job'[p].at \in Working \ {"remove"},
               pending' # 0 => pending' \in ends' \/ Rebuilding'
        PROVE  Calm'
    <2>1. job[p].at # "none"
      BY <1>7 DEF Check, Remove, Forget, Inject, Persist, Clear, Rehydrate, JobAt
    <2>2. \A q \in Proc : q # p => job'[q] = NoJob
      BY <1>1, <1>2, <2>1, Alone
    <2>3. Solo'
      BY <2>2 DEF Solo, Busy
    <2>4. \A q \in Proc : Ending(job[q])' /\ Undisturbed(job[q])' /\ job'[q].kind # "startup"
      <3>1. ASSUME NEW q \in Proc, q # p
            PROVE  Ending(job[q])' /\ Undisturbed(job[q])' /\ job'[q].kind # "startup"
        BY <2>2, <3>1, AtNone DEF Ending, Undisturbed, Working
      <3>2. Ending(job[p])'
        BY <1>7, StepEnds
      <3> QED
        BY <1>7, <3>1, <3>2
    <2> QED
      BY <1>3, <1>7, <2>3, <2>4 DEF Calm
  <1>8. /\ Undisturbed(job[p]) /\ Ending(job[p]) /\ job[p].kind # "startup"
        /\ pending # 0 => pending \in ends \/ Rebuilding
    BY DEF Calm
  <1>9. job[p].at \notin Working \ {"remove"} /\ job[p].at # "none" => ~ Broken
    <2>1. ASSUME job[p].at \notin Working \ {"remove"}, job[p].at # "none"
          PROVE  \A q \in Proc : job[q].at \notin Working \ {"remove"}
      <3>1. \A q \in Proc : q # p => job[q].at = "none"
        BY <1>1, <2>1, Alone, AtNone
      <3> QED
        BY <2>1, <3>1 DEF Working
    <2> QED
      BY <2>1 DEF Calm
  <1>10. ASSUME UNCHANGED <<ends, pending, promoted>>, job'[p].kind = job[p].kind
         PROVE  pending' # 0 => pending' \in ends' \/ Rebuilding'
    <2>1. Rebuilding => Rebuilding'
      BY <1>2, <1>10 DEF Rebuilding
    <2> QED
      BY <1>8, <1>10, <2>1
  <1>11. CASE Check(p)
    <2>1. job[p].at = "check"
      BY <1>11 DEF Check, JobAt
    <2>2. ~ Broken'
      BY <1>1, <1>9, <1>11, <2>1, CheckIs DEF Broken, Boundary, Working
    <2>3. Undisturbed(job[p])'
      BY <1>1, <1>4, <1>8, <1>11, CheckIs DEF Undisturbed, Working
    <2> QED
      BY <1>1, <1>7, <1>8, <1>10, <1>11, <2>2, <2>3, CheckIs
  <1>12. CASE Remove(p)
    <2>1. job[p].at = "remove"
      BY <1>12 DEF Remove, JobAt
    <2>2. Undisturbed(job[p])' /\ job'[p].at \in Working \ {"remove"}
      BY <1>1, <1>8, <1>12, <2>1, RemoveIs DEF Undisturbed, Working
    <2> QED
      BY <1>1, <1>7, <1>8, <1>10, <1>12, <2>2, RemoveIs
  <1>13. CASE Forget(p)
    <2>1. job[p].at = "forget" /\ state' = 0
      BY <1>13 DEF Forget, JobAt
    <2>2. Undisturbed(job[p])'
      BY <1>1, <1>4, <1>8, <1>13, <2>1, ForgetIs DEF Undisturbed, Working
    <2> QED
      BY <1>1, <1>7, <1>8, <1>10, <1>13, <2>1, <2>2, ForgetIs DEF Broken
  <1>14. CASE Inject(p)
    <2>1. job[p].at = "inject"
      BY <1>14 DEF Inject, JobAt
    <2>2. Undisturbed(job[p])' /\ job'[p].at \in Working \ {"remove"}
      BY <1>1, <1>8, <1>14, <2>1, InjectIs DEF Undisturbed, Working
    <2> QED
      BY <1>1, <1>7, <1>8, <1>10, <1>14, <2>2, InjectIs
  <1>15. CASE Persist(p)
    <2>1. Undisturbed(job[p])'
      BY <1>1, <1>8, <1>15, PersistIs DEF Undisturbed, Working
    <2> QED
      BY <1>1, <1>7, <1>8, <1>10, <1>15, <2>1, PersistIs, Recorded
  <1>16. CASE Clear(p) \/ Rehydrate(p)
    <2>1. /\ UNCHANGED <<state, rows, ends, promoted>> /\ job'[p] = NoJob
          /\ job[p].at \in {"clear", "drop", "rehydrate"}
      BY <1>1, <1>16, OverIs
    <2>2. ~ Broken'
      BY <1>9, <2>1 DEF Broken, Boundary, Working
    <2>3. Undisturbed(job[p])' /\ job'[p].kind # "startup"
      BY <2>1, AtNone DEF Undisturbed, Working
    <2>4. pending' # 0 => pending' \in ends' \/ Rebuilding'
      <3>1. WellShaped(job[p])
        BY <1>1, JobIs
      <3>2. job[p].kind = "direct" => pending' = 0
        <4>1. ASSUME job[p].kind = "direct" PROVE Clear(p)
          BY <1>16, <3>1, <4>1 DEF Rehydrate, JobAt, WellShaped
        <4> QED
          BY <4>1 DEF Clear
      <3>3. pending' # 0 => pending' = pending
        BY <1>1, <1>16, OverIs
      <3>4. job[p].kind # "direct" /\ Rebuilding => Rebuilding'
        BY <1>2, <2>1 DEF Rebuilding
      <3> QED
        BY <1>8, <2>1, <3>2, <3>3, <3>4
    <2> QED
      BY <1>7, <1>16, <2>2, <2>3, <2>4
  <1> QED
    BY <1>1, <1>5, <1>6, <1>11, <1>12, <1>13, <1>14, <1>15, <1>16, StepIs

\* The first fault is that two changes overlap.
LEMMA CalmOverlaps ==
  ASSUME MarkerInv, Calm, NEW p \in Proc, Begins(p), ~ NobodyChanges
  PROVE  Sound'
  <1>1. Typed /\ Solo /\ ~ Restart(p) /\ ~ Down
    BY DEF MarkerInv, Calm, Down, Restart
  <1>2. Actor(p)
    BY DEF Begins, Actor, PassStep
  <1>3. \A q \in Proc : q # p => job'[q] = job[q]
    BY <1>1, <1>2, OthersKeep
  <1>4. /\ job[p] = NoJob /\ UNCHANGED <<state, rows, ends, pending>>
    BY <1>1, BeginsIs
  <1>5. PICK r \in Proc : /\ r # p /\ job'[r] = job[r] /\ Busy(r)
                          /\ \A q \in Proc : q # p /\ q # r => job'[q] = NoJob
    <2>1. PICK r \in Proc : Busy(r)
      BY DEF NobodyChanges, Busy
    <2> QED
      BY <1>1, <1>3, <1>4, <2>1 DEF Solo, Busy
  <1>6. /\ state \in Nat /\ pending \in Nat
        /\ \A q \in Proc : job[q].target \in Nat /\ promoted[q] \in Nat
    BY FarIs
  <1>7. ~ Down'
    <2>1. \A q \in Proc : pass[q].pc # "down"
      BY <1>1 DEF Down
    <2>2. ~ Crash(p)
      <3>1. Crash(p) => job'[p] = NoJob
        BY <1>1 DEF Crash, Typed, TypeOK
      <3> QED
        BY <1>1, <3>1, BeginsIs, AtNone
    <2>3. \A q \in Proc : pass'[q].pc # "down"
      BY <1>1, <1>2, <2>1, <2>2, DownKeeps, OthersKeep
    <2> QED
      BY <2>3 DEF Down
  <1>8. Pair'
    BY <1>5 DEF Pair, Busy
  <1>9. \A q \in Proc : q # p /\ q # r => job'[q].at = "none" /\ job'[q].kind = "none"
    BY <1>5, AtNone
  <1>10. /\ Undisturbed(job[r]) /\ Ending(job[r]) /\ job[r].kind # "startup"
         /\ WellShaped(job[r])
    BY <1>1, JobIs DEF Calm
  <1>11. job'[p].at # "persist" /\ job'[p].kind # "startup"
    BY <1>1, BeginsIs
  <1>12. /\ job'[p].at = "remove" => job'[p].old = state
         /\ /\ job'[p].kind \in {"drain", "direct"}
            /\ job'[p].at \in {"remove", "forget", "inject"}
            => state < job'[p].target
    <2>1. promoted[p] # 0 => 0 < promoted[p]
      BY <1>6
    <2> QED
      BY <1>1, <1>6, <2>1, BeginsIs
  <1>13. Broken' => Works'
    <2>1. Broken' = Broken
      BY <1>4 DEF Broken, Boundary
    <2>2. Works => Works'
      BY <1>3, <1>4, AtNone DEF Works, Working
    <2>3. Broken => Works
      BY DEF Calm, Works
    <2> QED
      BY <2>1, <2>2, <2>3
  <1>14. ASSUME NEW q \in Proc, job'[q].at = "persist"
         PROVE  Reaches(Safe', job'[q].target)
    <2>1. q = r
      BY <1>9, <1>11, <1>14
    <2>2. /\ job[r].target \in rows /\ job[r].kind \in {"drain", "direct"}
          /\ job[r].at = "persist"
      BY <1>5, <1>10, <1>14, <2>1 DEF Ending, WellShaped
    <2>3. state < job[r].target
      BY <1>10, <2>2 DEF Undisturbed, Working
    <2>4. job[r].target \in Safe'
      <3>1. \A u \in Proc : /\ job'[u].at = "remove" => job'[u].old # job[r].target
                            /\ job'[u].at = "check" => state # job[r].target
        BY <1>5, <1>6, <1>9, <1>12, <2>2, <2>3
      <3> QED
        BY <1>4, <2>2, <3>1 DEF Safe
    <2>5. Boundary(job[r].target) \in Nat
      BY <2>2, <1>1, BoundaryIs DEF Typed, TypeOK, Target
    <2> QED
      BY <1>5, <2>1, <2>4, <2>5 DEF Reaches
  <1>15. ASSUME NEW q \in Proc, NEW u \in Proc, q # u, job'[q].kind \in {"drain", "direct"},
                job'[q].at \in {"remove", "forget", "inject"}
         PROVE  /\ job'[u].at = "remove" => job'[u].old # job'[q].target
                /\ job'[u].at = "check" => state' # job'[q].target
    <2>1. q \in {p, r}
      BY <1>9, <1>15
    <2>2. state < job'[q].target
      BY <1>5, <1>10, <1>12, <1>15, <2>1 DEF Undisturbed, Working
    <2>3. job'[u].at = "remove" => job'[u].old = state
      BY <1>5, <1>9, <1>10, <1>12 DEF Undisturbed
    <2>4. state # job'[q].target
      BY <1>6, <2>2
    <2> QED
      BY <1>4, <2>3, <2>4
  <1>16. \A q, u \in Proc : q # u /\ job'[q].at = "remove" /\ job'[u].at = "check" => job'[q].old = state'
    BY <1>4, <1>5, <1>9, <1>10, <1>12 DEF Undisturbed
  <1>17. \A q \in Proc : job'[q].kind # "startup"
    BY <1>5, <1>9, <1>10, <1>11
  <1> QED
    BY <1>7, <1>8, <1>13, <1>14, <1>15, <1>16, <1>17 DEF Sound

\* The first fault is a crash or a failure of the host's database.
LEMMA CalmFails ==
  ASSUME MarkerInv, Calm, NEW p \in Proc, Crash(p) \/ HostFails(p)
  PROVE  Hurt'
  <1>1. Typed /\ Solo /\ ~ Down
    BY DEF MarkerInv, Calm
  <1>2. Actor(p)
    BY DEF Actor
  <1>3. \A q \in Proc : q # p => job'[q] = job[q] /\ pass'[q] = pass[q]
    BY <1>1, <1>2, OthersKeep
  <1>4. UNCHANGED <<state, rows, ends, pending>>
    BY DEF Crash, HostFails, RemoveFails, InjectFails
  <1>5. /\ state \in Nat /\ pending \in Nat
        /\ \A q \in Proc : job[q].target \in Nat /\ promoted[q] \in Nat
    BY FarIs
  <1>6. Broken' = Broken
    BY <1>4 DEF Broken, Boundary
  <1>7. \A q \in Proc : pass[q].pc # "down"
    BY <1>1 DEF Down
  <1>8. CASE Crash(p)
    <2>1. job'[p] = NoJob /\ pass'[p].pc = "down"
      BY <1>1, <1>8 DEF Crash, Typed, TypeOK, IdlePass
    <2>2. Down'
      BY <2>1 DEF Down
    <2>3. Solo' /\ \A q \in Proc : pass'[q].pc = "down" => ~ Busy(q)'
      BY <1>1, <1>3, <1>7, <2>1 DEF Solo, Busy
    <2>4. \A q \in Proc : Ending(job[q])'
      BY <1>3, <1>4, <2>1, <2>2, AtNone DEF Calm, Ending
    <2> QED
      BY <2>2, <2>3, <2>4 DEF Hurt
  <1>9. CASE HostFails(p)
    <2>1. job[p].at \in {"remove", "inject"} /\ promoted' = promoted
      BY <1>9 DEF HostFails, RemoveFails, InjectFails, JobAt
    <2>2. \A q \in Proc : q # p => job'[q] = NoJob
      BY <1>1, <1>3, <2>1, Alone
    <2>3. Undisturbed(job[p]) /\ WellShaped(job[p]) /\ job[p].kind # "startup"
      BY <1>1, JobIs DEF Calm
    <2>4. \A q \in Proc : pass'[q].pc # "down"
      <3>1. pass' = pass \/ pass' = [pass EXCEPT ![p] = IdlePass]
        BY <1>9 DEF HostFails, RemoveFails, InjectFails, JobEnds
      <3>2. pass \in [Proc -> PassRecord] /\ IdlePass.pc = "idle"
        BY <1>1, TypedParts DEF IdlePass
      <3> QED
        BY <1>7, <3>1, <3>2
    <2>5. Solo'
      BY <2>2 DEF Solo, Busy
    <2>6. job'[p] = NoJob \/ (job'[p].at = "forget" /\ job[p].at = "remove")
      BY <1>1, <1>9, <2>3, GoesIs, JobOver DEF HostFails, RemoveFails, InjectFails, JobAt
    <2>7. \A q \in Proc : Ending(job[q])'
      BY <2>2, <2>6, AtNone DEF Ending
    <2>8. CASE job'[p].at = "forget"
      BY <2>4, <2>5, <2>7, <2>8 DEF Hurt, Works, Working
    <2>9. CASE job[p].at = "remove" /\ job'[p] = NoJob
      <3>1. \A q \in Proc : job[q].at \notin Working \ {"remove"}
        BY <1>1, <2>9, Alone, AtNone DEF Working
      <3>2. ~ Broken'
        BY <1>6, <3>1 DEF Calm
      <3> QED
        BY <2>4, <2>5, <2>7, <3>2 DEF Hurt
    <2>10. CASE job[p].at = "inject"
      <3>1. job[p].kind \in {"drain", "direct"}
        BY <2>3, <2>10 DEF WellShaped
      <3>2. CASE job[p].kind = "direct"
        <4>1. ~ Broken'
          BY <1>4, <2>3, <2>10, <3>2 DEF Undisturbed, Broken
        <4> QED
          BY <2>4, <2>5, <2>7, <4>1 DEF Hurt
      <3>3. CASE job[p].kind = "drain"
        <4>1. state < pending
          BY <1>5, <2>3, <2>10, <3>3 DEF Undisturbed, Working
        <4>2. pending \in ends \/ \E q \in Proc : promoted[q] # 0
          <5>1. pending # 0
            BY <1>5, <4>1
          <5>2. \A q \in Proc : q # p => job[q].kind = "none"
            BY <1>1, <2>1, Alone, AtNone
          <5>3. \A q \in Proc : job[q].kind # "direct"
            BY <3>3, <5>2
          <5> QED
            BY <5>1, <5>3 DEF Calm, Rebuilding
        <4>3. \A q \in Proc : promoted[q] # 0 => state < promoted[q]
          <5>1. \A q \in Proc : promoted[q] # 0 => pending <= promoted[q]
            BY DEF MarkerInv, Covering
          <5> QED
            BY <1>5, <4>1, <5>1
        <4> QED
          BY <1>4, <1>5, <2>1, <2>4, <2>5, <2>7, <4>1, <4>2, <4>3 DEF Hurt
      <3> QED
        BY <3>1, <3>2, <3>3
    <2> QED
      BY <2>1, <2>6, <2>8, <2>9, <2>10
  <1> QED
    BY <1>8, <1>9

LEMMA HurtStep ==
  ASSUME MayShrink = FALSE, MaxFaults <= 1, MarkerInv, Hurt, faults # 0, NEW p \in Proc, Actor(p)
  PROVE  Hurt'
  <1>1. Typed /\ Solo /\ ~ Crash(p) /\ ~ HostFails(p) /\ (Starts(p) => NobodyChanges)
    BY LastFault DEF MarkerInv, Hurt
  <1>2. \A q \in Proc : q # p => job'[q] = job[q] /\ pass'[q] = pass[q] /\ promoted'[q] = promoted[q]
    BY <1>1, OthersKeep
  <1>3. \A q \in Proc : /\ pass'[q].pc = "down" => pass[q].pc = "down"
                        /\ ~ Restart(p) => (pass[q].pc = "down" => pass'[q].pc = "down")
    BY <1>1, <1>2, DownKeeps DEF Hurt
  <1>4. ~ Restart(p) => (Down' <=> Down)
    BY <1>3 DEF Down
  <1>5. /\ LastEnd \in Nat /\ pending \in Nat /\ state \in Nat /\ pending <= LastEnd
        /\ \A q \in Proc : job[q].target \in Nat /\ job[q].target <= LastEnd /\ promoted[q] \in Nat
    BY FarIs
  <1> DEFINE Later == \/ pending > state /\ pending \in ends
                      \/ \E q \in Proc : promoted[q] > state
  <1>6. CASE Quiet(p)
    <2>1. UNCHANGED <<job, state, rows>> /\ ~ Restart(p)
      <3>1. Restart(p) => job'[p] # job[p]
        <4>1. Begins(p) => job'[p].kind # "none" /\ job[p].kind = "none"
          BY <1>1, BeginsIs, AtNone
        <4> QED
          BY <4>1 DEF Begins
      <3> QED
        BY <1>1, <1>6, <3>1, QuietIs
    <2>2. Solo' /\ (Broken' <=> Broken) /\ (Works' <=> Works)
      BY <1>1, <2>1 DEF Solo, Busy, Broken, Boundary, Works
    <2>3. \A q \in Proc : pass'[q].pc = "down" => ~ Busy(q)'
      BY <1>3, <2>1 DEF Hurt, Busy
    <2>4. \A q \in Proc : Ending(job[q])'
      <3>1. \A q \in Proc : Ending(job[q])
        BY DEF Hurt
      <3> QED
        BY <1>4, <1>6, <2>1, <3>1, QuietEnds
    <2>5. Later => Later'
      <3>1. CASE UNCHANGED <<ends, pending, promoted>>
        BY <2>1, <3>1
      <3>2. ASSUME NEW e \in Nat, LastEnd < e, ends' = ends \cup {e}, UNCHANGED promoted,
                   pending' = pending \/ pending' = e
            PROVE  Later => Later'
        <4>1. pending < e
          BY <1>5, <3>2
        <4>2. pending > state /\ pending \in ends => pending' > state /\ pending' \in ends'
          BY <1>5, <3>2, <4>1
        <4> QED
          BY <2>1, <3>2, <4>2
      <3>3. CASE ~ Rebuilding /\ promoted'[p] \in Nat \ {0} /\ LastEnd <= promoted'[p]
        <4>1. \A q \in Proc : ~ (promoted[q] > state)
          BY <1>5, <3>3 DEF Rebuilding
        <4>2. pending > state => promoted'[p] > state
          BY <1>5, <3>3
        <4> QED
          BY <2>1, <4>1, <4>2
      <3> QED
        BY <1>6, <3>1, <3>2, <3>3, QuietWrites
    <2> QED
      BY <1>4, <2>1, <2>2, <2>3, <2>4, <2>5 DEF Hurt
  <1>7. CASE Begins(p)
    <2>1. NobodyChanges /\ UNCHANGED <<state, rows, ends, pending>> /\ job[p] = NoJob
      BY <1>1, <1>7, BeginsIs
    <2>2. \A q \in Proc : q # p => job'[q] = NoJob
      BY <1>2, <2>1 DEF NobodyChanges
    <2>3. Solo'
      BY <2>2 DEF Solo, Busy
    <2>4. \A q \in Proc : Ending(job[q])'
      <3>1. ASSUME NEW q \in Proc, q # p PROVE Ending(job[q])'
        BY <2>2, <3>1, AtNone DEF Ending
      <3> QED
        BY <1>7, <3>1, BeginsEnds
    <2>5. Broken' => Broken /\ (Down \/ Later)
      <3>1. ~ Works
        BY <2>1, AtNone DEF NobodyChanges, Works, Working
      <3> QED
        BY <2>1, <3>1 DEF Hurt, Broken, Boundary
    <2>6. pass'[p].pc # "down"
      <3>1. CASE Drain(p)
        <4>1. pass[p].pc = "folded"
          BY <3>1 DEF Drain
        <4> QED
          BY <1>3, <4>1
      <3>2. CASE UpdateDirectly(p) \/ HostCompacts(p)
        <4>1. pass[p].pc \in {"idle", "prepared"}
          BY <3>2 DEF UpdateDirectly, HostCompacts, Yielded
        <4> QED
          BY <1>3, <4>1
      <3>3. CASE Restart(p)
        BY <1>1, <3>3 DEF Restart, Typed, TypeOK, IdlePass
      <3> QED
        BY <1>7, <3>1, <3>2, <3>3 DEF Begins
    <2>7. \A q \in Proc : pass'[q].pc = "down" => ~ Busy(q)'
      BY <2>2, <2>6 DEF Busy
    <2>8. Broken' => Works' \/ Down' \/ Later'
      <3>1. CASE ~ Restart(p) /\ (job'[p].at \in Working \/ promoted[p] <= state)
        <4>1. promoted[p] <= state => ~ (promoted[p] > state)
          BY <1>5
        <4> QED
          BY <1>2, <1>4, <2>1, <2>5, <3>1, <4>1 DEF Works
      <3>2. CASE ~ Restart(p) /\ UNCHANGED promoted
        BY <1>4, <2>1, <2>5, <3>2
      <3>3. CASE Restart(p)
        <4>1. Broken => state # 0 /\ state \notin rows
          <5>1. state # 0 => Boundary(state) \in Nat
            BY <1>1, BoundaryIs, MessageAssumption DEF Typed, TypeOK, Target
          <5> QED
            BY <5>1 DEF Broken
        <4>2. Broken => job'[p].at = "remove"
          <5> DEFINE at == IF state # 0 /\ state \notin rows THEN "remove" ELSE "rehydrate"
                     j == [NoJob EXCEPT !.kind = "startup", !.old = state, !.at = at]
          <5>1. job' = [job EXCEPT ![p] = j]
            BY <3>3 DEF Restart
          <5>2. j.at = at
            BY NoJobIsShaped DEF JobRecord
          <5> HIDE DEF j
          <5>3. job'[p].at = at
            BY <1>1, <5>1, <5>2 DEF Typed, TypeOK
          <5> QED
            BY <4>1, <5>3
        <4> QED
          BY <2>5, <4>2 DEF Works, Working
      <3> QED
        BY <1>1, <1>7, <3>1, <3>2, <3>3, BeginsIs DEF Working
    <2> QED
      BY <2>3, <2>4, <2>7, <2>8 DEF Hurt
  <1>8. ASSUME Check(p) \/ Remove(p) \/ Forget(p) \/ Inject(p) \/ Persist(p) \/ Clear(p) \/ Rehydrate(p),
               Broken' => Works' \/ Down' \/ Later'
        PROVE  Hurt'
    <2>1. job[p].at # "none"
      BY <1>8 DEF Check, Remove, Forget, Inject, Persist, Clear, Rehydrate, JobAt
    <2>2. \A q \in Proc : q # p => job'[q] = NoJob
      BY <1>1, <1>2, <2>1, Alone
    <2>3. Solo'
      BY <2>2 DEF Solo, Busy
    <2>4. \A q \in Proc : Ending(job[q])'
      <3>1. ASSUME NEW q \in Proc, q # p PROVE Ending(job[q])'
        BY <2>2, <3>1, AtNone DEF Ending
      <3> QED
        BY <1>8, <3>1, StepEnds
    <2>5. \A q \in Proc : pass'[q].pc = "down" => ~ Busy(q)'
      <3>1. pass[p].pc # "down"
        BY <2>1, AtNone DEF Hurt, Busy
      <3> QED
        BY <1>3, <2>2, <3>1 DEF Busy
    <2> QED
      BY <1>8, <2>3, <2>4, <2>5 DEF Hurt
  <1>9. job[p].at \notin Working /\ job[p].at # "none" => (Broken => Down \/ Later)
    <2>1. ASSUME job[p].at \notin Working, job[p].at # "none" PROVE ~ Works
      <3>1. \A q \in Proc : q # p => job[q].at = "none"
        BY <1>1, <2>1, Alone, AtNone
      <3> QED
        BY <2>1, <3>1 DEF Works, Working
    <2> QED
      BY <2>1 DEF Hurt
  <1>10. CASE Check(p)
    <2>1. job[p].at = "check"
      BY <1>10 DEF Check, JobAt
    <2>2. UNCHANGED <<state, rows, ends, pending, promoted, pass>>
      BY <1>1, <1>10, CheckIs
    <2>3. Broken' => Broken
      BY <2>2 DEF Broken, Boundary
    <2> QED
      BY <1>8, <1>9, <1>10, <2>1, <2>2, <2>3 DEF Working, Down
  <1>11. CASE Remove(p)
    BY <1>1, <1>8, <1>11, RemoveIs DEF Works, Working
  <1>12. CASE Forget(p)
    BY <1>1, <1>8, <1>12, ForgetIs DEF Broken
  <1>13. CASE Inject(p)
    BY <1>1, <1>8, <1>13, InjectIs DEF Works, Working
  <1>14. CASE Persist(p)
    BY <1>8, <1>14, Recorded DEF Hurt
  <1>15. CASE Clear(p) \/ Rehydrate(p)
    <2>1. /\ UNCHANGED <<state, rows, ends, promoted>>
          /\ job[p].at \in {"clear", "drop", "rehydrate"}
      BY <1>1, <1>15, OverIs
    <2>2. Broken' => Broken /\ (Down \/ Later)
      BY <1>9, <2>1 DEF Broken, Boundary, Working
    <2>3. Down => Down'
      <3>1. ~ Restart(p)
        BY <2>1, AtNone DEF Restart, Starts
      <3> QED
        BY <1>4, <3>1
    <2>4. Ending(job[p]) /\ WellShaped(job[p])
      BY <1>1, JobIs DEF Hurt
    <2>5. CASE pending' = pending
      BY <1>8, <1>15, <2>1, <2>2, <2>3, <2>5
    <2>6. CASE job[p].kind = "drain" /\ pending = job[p].target
      <3>1. job[p].at # "rehydrate"
        BY <2>4, <2>6 DEF WellShaped
      <3>2. CASE job[p].at = "clear"
        <4>1. ~ (pending > state)
          BY <1>5, <2>4, <2>6, <3>2 DEF Ending
        <4> QED
          BY <1>8, <1>15, <2>1, <2>2, <2>3, <4>1
      <3>3. CASE job[p].at = "drop"
        <4>1. pending \notin ends \/ (\E q \in Proc : promoted[q] >= pending) \/ Down
          BY <2>4, <2>6, <3>3 DEF Ending
        <4>2. (\E q \in Proc : promoted[q] >= pending) /\ pending > state
                => \E q \in Proc : promoted[q] > state
          BY <1>5
        <4> QED
          BY <1>8, <1>15, <2>1, <2>2, <2>3, <4>1, <4>2
      <3> QED
        BY <2>1, <3>1, <3>2, <3>3
    <2>7. CASE job[p].kind # "drain" /\ job[p].at = "clear"
      <3>1. state = 0 \/ ~ (pending > state)
        BY <1>5, <2>4, <2>7 DEF Ending, WellShaped
      <3>2. state = 0 => ~ Broken
        BY DEF Broken
      <3> QED
        BY <1>8, <1>15, <2>1, <2>2, <2>3, <3>1, <3>2
    <2> QED
      BY <1>1, <1>15, <2>5, <2>6, <2>7, OverIs
  <1> QED
    BY <1>1, <1>6, <1>7, <1>10, <1>11, <1>12, <1>13, <1>14, <1>15, StepIs

LEMMA RepairedInit == Init => Repaired
  <1> SUFFICES ASSUME Init PROVE Calm
    BY DEF Repaired, Init
  <1>1. \A p \in Proc : job[p] = NoJob /\ pass[p].pc = "idle"
    BY DEF Init, IdlePass
  <1>2. ~ Down /\ Solo /\ \A p \in Proc : job[p].kind # "startup"
    BY <1>1, AtNone DEF Down, Solo, Busy
  <1>3. \A p \in Proc : Ending(job[p]) /\ Undisturbed(job[p])
    BY <1>1, AtNone DEF Ending, Undisturbed, Working
  <1> QED
    BY <1>2, <1>3 DEF Init, Calm, Broken

LEMMA RepairedStep ==
  ASSUME MayShrink = FALSE, MaxFaults <= 1
  PROVE  MarkerInv /\ Repaired /\ [Next]_vars => Repaired'
  <1> SUFFICES ASSUME MarkerInv, Repaired, [Next]_vars PROVE Repaired'
    OBVIOUS
  <1>1. CASE UNCHANGED vars
    <2>1. UNCHANGED <<ends, base, pending, state, rows, deferred, pass, promoted, job, faults>>
      BY <1>1 DEF vars
    <2>2. /\ Down' <=> Down
          /\ Solo' <=> Solo
          /\ Pair' <=> Pair
          /\ Works' <=> Works
          /\ Rebuilding' <=> Rebuilding
          /\ Safe' = Safe
          /\ \A q \in Proc : Busy(q)' <=> Busy(q)
      BY <2>1 DEF Down, Solo, Pair, Busy, Works, Rebuilding, Safe
    <2>3. Broken' <=> Broken
      BY <2>1 DEF Broken, Boundary
    <2>4. \A q \in Proc : /\ Ending(job[q])' <=> Ending(job[q])
                          /\ Undisturbed(job[q])' <=> Undisturbed(job[q])
      BY <2>1, <2>2 DEF Ending, Undisturbed
    <2>5. Calm => Calm'
      BY <2>1, <2>2, <2>3, <2>4 DEF Calm
    <2>6. Sound => Sound'
      BY <2>1, <2>2, <2>3 DEF Sound
    <2>7. Hurt => Hurt'
      BY <2>1, <2>2, <2>3, <2>4 DEF Hurt
    <2> QED
      BY <2>1, <2>5, <2>6, <2>7 DEF Repaired
  <1>2. ASSUME NEW p \in Proc, Actor(p) PROVE Repaired'
    <2>1. Typed /\ Typed' /\ faults \in Nat /\ faults' \in Nat
      <3>1. [Next]_vars
        BY <1>2 DEF Next, Actor
      <3>2. Typed /\ Typed'
        BY <3>1, TypedStep DEF MarkerInv
      <3> QED
        BY <3>2, BoundAssumption DEF Typed, TypeOK
    <2>2. CASE faults = 0 /\ faults' = 0
      BY <1>2, <2>2, CalmStep DEF Repaired
    <2>3. CASE faults = 0 /\ faults' # 0
      <3>1. (Begins(p) /\ ~ NobodyChanges) \/ Crash(p) \/ HostFails(p)
        <4>1. CASE Quiet(p)
          BY <2>1, <2>3, <4>1, QuietIs
        <4>2. CASE Begins(p)
          BY <2>1, <2>3, <4>2, BeginsIs DEF Starts
        <4>3. CASE Check(p) \/ Remove(p) \/ Forget(p) \/ Inject(p) \/ Persist(p) \/ Clear(p)
                   \/ Rehydrate(p)
          BY <2>3, <4>3 DEF Check, Remove, Forget, Inject, Persist, Clear, Rehydrate
        <4> QED
          BY <1>2, <4>1, <4>2, <4>3, StepIs
      <3>2. Sound' \/ Hurt'
        BY <2>3, <3>1, CalmOverlaps, CalmFails DEF Repaired
      <3> QED
        BY <2>3, <3>2 DEF Repaired
    <2>4. CASE faults # 0
      <3>1. faults' # 0
        <4>1. faults' = faults \/ faults' = faults + 1
          BY <1>2 DEF Actor, Publish, PersistNoise, PromoteRebuild, PassStep, Prepare, PrepareAgain,
             Fold, FoldFails, Drain, JobStep, Check, Remove, Forget, Inject, Persist, Clear,
             Rehydrate, HostFails, RemoveFails, InjectFails, UpdateDirectly, HostCompacts,
             Crash, Restart, Starts
        <4> QED
          BY <2>1, <2>4, <4>1
      <3>2. Sound' \/ Hurt'
        BY <1>2, <2>1, <2>4, SoundStep, HurtStep DEF Repaired
      <3> QED
        BY <3>1, <3>2 DEF Repaired
    <2> QED
      BY <2>2, <2>3, <2>4
  <1> QED
    BY <1>1, <1>2 DEF Next, Actor

\* A marker that is on record and whose rows are gone, while nobody works on it,
\* has a retry, through one failure: a crash of a process, a statement that
\* fails in the host's database, or two changes that overlap.
THEOREM MissingIsRetried ==
  ASSUME MayShrink = FALSE, MaxFaults <= 1
  PROVE  Spec => []MissingHasRetry
  <1>1. MarkerInv /\ Repaired => MissingHasRetry
    <2> SUFFICES ASSUME MarkerInv, Repaired, NobodyChanges, \A p \in Proc : pass[p].pc # "down",
                        state # 0, ~ (Cut >= Boundary(state))
                 PROVE  pending # 0 \/ Rebuilding
      BY DEF MissingHasRetry
    <2>1. Typed /\ state \in Target /\ rows \subseteq Target /\ Target \subseteq Place
      BY MessageAssumption DEF MarkerInv, Typed, TypeOK, Target, Place
    <2>2. Broken
      <3> DEFINE B == {Boundary(t) : t \in rows}
      <3>1. \A t \in rows : Boundary(t) \in Target
        BY <2>1, BoundaryIs
      <3>2. B \in SUBSET Place
        BY <2>1, <3>1
      <3>3. CASE rows = {}
        BY <3>3 DEF Broken
      <3>4. CASE rows # {}
        <4>1. Cut = Max(B) /\ B # {}
          BY <3>4 DEF Cut
        <4>2. \A x \in B : x <= Cut
          BY <3>2, <4>1, MaxOf
        <4>3. Cut \in Place
          BY <3>2, <4>1, MaxOf
        <4>4. Boundary(state) \in Nat /\ Cut \in Nat /\ \A t \in rows : Boundary(t) \in Nat
          BY <2>1, <3>1, <4>3, BoundaryIs DEF Target, Place
        <4>5. \A t \in rows : Boundary(t) < Boundary(state)
          BY <4>2, <4>4
        <4> QED
          BY <4>5 DEF Broken
      <3> QED
        BY <3>3, <3>4
    <2>3. ~ Works /\ ~ Down /\ \A p \in Proc : job[p].at \notin Working
      BY AtNone DEF NobodyChanges, Works, Working, Down
    <2>4. Hurt
      BY <2>2, <2>3 DEF Repaired, Calm, Sound
    <2>5. pending > state \/ \E q \in Proc : promoted[q] > state
      BY <2>2, <2>3, <2>4 DEF Hurt
    <2> QED
      BY <2>5, FarIs DEF Rebuilding
  <1>2. Init => MarkerInv /\ Repaired
    BY MarkerInit, RepairedInit
  <1>3. MarkerInv /\ Repaired /\ [Next]_vars => (MarkerInv /\ Repaired)'
    BY MarkerNext, RepairedStep
  <1> QED
    BY <1>1, <1>2, <1>3, PTL DEF Spec

=============================================================================
