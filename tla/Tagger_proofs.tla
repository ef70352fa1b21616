---------------------------- MODULE Tagger_proofs ----------------------------
(***************************************************************************)
(* Theorems about Tagger, for any number of processes, contents, orphans   *)
(* and failures: the number the model was shown is the row of the content, *)
(* and the number of a removed row is not given again.                     *)
(*                                                                         *)
(* The invariant is about one process record at a time (Holds, Recalls),   *)
(* so that an action has to be looked at only where it changes the record  *)
(* of its process; the others keep theirs but for a stale signature.       *)
(***************************************************************************)
EXTENDS Tagger, TLAPS

ProcRecord == [pc : Pc, map : [Entity -> SUBSET Num], counter : 0..MaxTag,
               sig : {"none", "current", "stale"}, todo : SUBSET Entity,
               num : 0..MaxTag, tries : 0..MaxTries, gone : SUBSET Num,
               late : BOOLEAN]

\* Contents the session has or may still get.  One that was removed is neither.
Alive == wire \cup {e \in Entity : e >= coming}

Walking == {"walk", "claim", "persisted", "lookup", "relook", "max", "insert", "recheck",
            "advance", "orphan", "adopt", "rematch", "sync"}

\* What a process believes of rows is so.
Holds(r) ==
  /\ \A e \in Alive : r.map[e] \subseteq Rows(e)
  /\ \A e \in Alive : r.pc = "sync" /\ IsFirst(e, r.todo) => tag[r.num] = e
  /\ r.pc \in {"sync", "claim", "adopt", "insert"} => r.num \in Num
  /\ r.pc \notin {"orphan", "sync"} => r.tries < MaxTries

\* The counter of a process is past the numbers of rows removed before its load.
Recalls(r) ==
  /\ \A n \in retired :
       /\ r.pc = "rows" => n <= r.num \/ n \in r.gone
       /\ r.pc = "rows" /\ r.sig = "current" => n <= r.num
       /\ r.pc \in Walking => n <= r.counter \/ n \in r.gone
       /\ r.pc \in Walking \cup {"idle"} /\ r.sig = "current" => n <= r.counter
  /\ r.pc = "insert" => r.counter < r.num

TaggerInv ==
  /\ TypeOK
  /\ \A e \in wire : e < coming
  /\ \A p \in Proc, e \in Alive : shown[p][e] \subseteq Rows(e)
  /\ \A n \in Taken \cup retired : n <= counter
  /\ \A p \in Proc : Holds(proc[p]) /\ Recalls(proc[p])

-----------------------------------------------------------------------------
(* Process records.                                                        *)

LEMMA FreshIs ==
  /\ Fresh \in ProcRecord
  /\ Fresh.pc = "idle" /\ Fresh.sig = "none" /\ Fresh.tries = 0
  /\ \A e \in Entity : Fresh.map[e] = {}
  <1> DEFINE no == FALSE
  <1>1. no \in BOOLEAN /\ 0 \in 0..MaxTag /\ 0 \in 0..MaxTries
    BY CountAssumption
  <1>2. Fresh = [pc |-> "idle", map |-> NoMap, counter |-> 0, sig |-> "none",
                 todo |-> {}, num |-> 0, tries |-> 0, gone |-> {}, late |-> no]
    BY DEF Fresh
  <1> HIDE DEF no
  <1>3. NoMap \in [Entity -> SUBSET Num] /\ \A e \in Entity : NoMap[e] = {}
    BY DEF NoMap
  <1> QED
    BY <1>1, <1>2, <1>3 DEF ProcRecord, Pc

LEMMA FreshKeeps ==
  ASSUME TypeOK
  PROVE  Holds(Fresh) /\ Recalls(Fresh)
  BY FreshIs, CountAssumption DEF Holds, Recalls, Walking, Alive, TypeOK

\* Only one content is the first of those to do.
LEMMA FirstIsOne ==
  ASSUME NEW S \in SUBSET Entity, NEW e \in Entity, NEW f \in Entity,
         IsFirst(e, S), IsFirst(f, S)
  PROVE  e = f
  BY CountAssumption DEF IsFirst, Entity

\* A step that changes the record of its process, and perhaps what was shown.
LEMMA MovedKeeps ==
  ASSUME TaggerInv, NEW p \in Proc, NEW P \in ProcRecord,
         Moved(p, P), Holds(P), Recalls(P),
         UNCHANGED <<tag, counter, wire, coming, tool, retired, raced>>,
         faults' \in 0..MaxFaults,
         shown' \in [Proc -> [Entity -> SUBSET Num]],
         \A q \in Proc, e \in Alive : shown'[q][e] \subseteq Rows(e)
  PROVE  TaggerInv'
  <1>1. proc \in [Proc -> ProcRecord]
    BY DEF TaggerInv, TypeOK, ProcRecord
  <1>2. /\ proc' \in [Proc -> ProcRecord] /\ proc'[p] = P
        /\ \A q \in Proc : q # p => proc'[q] = proc[q]
    BY <1>1 DEF Moved
  <1>3. TypeOK'
    BY <1>2 DEF TaggerInv, TypeOK, ProcRecord
  <1>4. Alive' = Alive /\ Taken' = Taken /\ \A e : Rows(e)' = Rows(e)
    BY DEF Alive, Taken, Rows
  <1>5. ASSUME NEW q \in Proc PROVE Holds(proc'[q]) /\ Recalls(proc'[q])
    BY <1>2 DEF TaggerInv
  <1>6. ASSUME NEW q \in Proc PROVE Holds(proc[q])' /\ Recalls(proc[q])'
    BY <1>4, <1>5 DEF Holds, Recalls
  <1> QED
    BY <1>3, <1>4, <1>6 DEF TaggerInv

\* The common case: nothing new is shown.
LEMMA QuietKeeps ==
  ASSUME TaggerInv, NEW p \in Proc, NEW P \in ProcRecord,
         Moved(p, P), Holds(P), Recalls(P),
         UNCHANGED <<tag, counter, session, shown, notes>>
  PROVE  TaggerInv'
  <1>1. /\ UNCHANGED <<tag, counter, wire, coming, tool, retired, raced>>
        /\ faults' \in 0..MaxFaults /\ shown' \in [Proc -> [Entity -> SUBSET Num]]
        /\ \A q \in Proc, e \in Alive : shown'[q][e] \subseteq Rows(e)
    BY DEF TaggerInv, TypeOK, session, notes
  <1> QED
    BY <1>1, MovedKeeps

\* What is known of the record of a process.
LEMMA RecordIs ==
  ASSUME TaggerInv, NEW p \in Proc
  PROVE  proc[p] \in ProcRecord /\ Holds(proc[p]) /\ Recalls(proc[p])
  BY DEF TaggerInv, TypeOK, ProcRecord

-----------------------------------------------------------------------------
(* A pass begins. *)

LEMMA BeginKeeps ==
  ASSUME TaggerInv, NEW p \in Proc, Begin(p)
  PROVE  TaggerInv'
  <1>1. /\ proc[p] \in ProcRecord /\ Holds(proc[p]) /\ Recalls(proc[p])
        /\ wire \subseteq Entity /\ proc[p].pc = "idle"
    BY RecordIs DEF TaggerInv, TypeOK, Begin, CacheHit, Reload, At
  <1>2. CASE CacheHit(p)
    <2> DEFINE P == [proc[p] EXCEPT !.pc = "walk", !.todo = wire, !.gone = {}]
    <2>1. /\ P \in ProcRecord /\ P.pc = "walk" /\ P.map = proc[p].map /\ P.tries = proc[p].tries
          /\ P.counter = proc[p].counter
      BY <1>1 DEF ProcRecord, Pc
    <2>2. proc[p].sig = "current"
      BY <1>2 DEF CacheHit
    <2>3. \A n \in retired : n <= proc[p].counter
      BY <1>1, <2>2 DEF Recalls
    <2> HIDE DEF P
    <2>4. Holds(P) /\ Recalls(P)
      BY <1>1, <2>1, <2>3 DEF Holds, Recalls, Walking
    <2> QED
      BY <1>2, <2>1, <2>4, QuietKeeps DEF CacheHit, P
  <1>3. CASE Reload(p)
    <2> DEFINE P == [proc[p] EXCEPT !.pc = "counter", !.todo = wire, !.sig = "current", !.gone = {}]
    <2>1. P \in ProcRecord /\ P.pc = "counter" /\ P.map = proc[p].map /\ P.tries = proc[p].tries
      BY <1>1 DEF ProcRecord, Pc
    <2> HIDE DEF P
    <2>2. Holds(P) /\ Recalls(P)
      BY <1>1, <2>1 DEF Holds, Recalls, Walking
    <2> QED
      BY <1>3, <2>1, <2>2, QuietKeeps DEF Reload, P
  <1> QED
    BY <1>2, <1>3 DEF Begin

LEMMA LoadKeeps ==
  ASSUME TaggerInv, NEW p \in Proc, LoadCounter(p) \/ LoadRows(p)
  PROVE  TaggerInv'
  <1>1. /\ proc[p] \in ProcRecord /\ Holds(proc[p]) /\ Recalls(proc[p])
        /\ counter \in 0..MaxTag /\ \A n \in retired : n <= counter
    BY RecordIs DEF TaggerInv, TypeOK
  <1>2. CASE LoadCounter(p)
    <2> DEFINE P == [proc[p] EXCEPT !.pc = "rows", !.num = counter]
    <2>1. /\ P \in ProcRecord /\ P.pc = "rows" /\ P.map = proc[p].map /\ P.tries = proc[p].tries
          /\ P.num = counter /\ proc[p].pc = "counter"
      BY <1>1, <1>2 DEF ProcRecord, Pc, LoadCounter, At
    <2> HIDE DEF P
    <2>2. Holds(P) /\ Recalls(P)
      BY <1>1, <2>1 DEF Holds, Recalls, Walking
    <2> QED
      BY <1>2, <2>1, <2>2, QuietKeeps DEF LoadCounter, P
  <1>3. CASE LoadRows(p)
    <2>1. PICK floor \in {0} \cup UNION {Rows(e) : e \in wire \ tool} :
            LET live == {n \in Taken : n >= floor}
            IN \E d \in Highest(live \cup {0}) :
                 Moved(p, [proc[p] EXCEPT
                   !.pc = "walk", !.num = 0, !.counter = LoadedCounter(@, proc[p].num, d),
                   !.map = [e \in Entity |-> Highest(Rows(e) \cap live)]])
      BY <1>3 DEF LoadRows
    <2> DEFINE live == {n \in Taken : n >= floor}
    <2>2. PICK d \in Highest(live \cup {0}) :
             Moved(p, [proc[p] EXCEPT
               !.pc = "walk", !.num = 0, !.counter = LoadedCounter(@, proc[p].num, d),
               !.map = [e \in Entity |-> Highest(Rows(e) \cap live)]])
      BY <2>1
    <2> DEFINE c == LoadedCounter(proc[p].counter, proc[p].num, d)
               m == [e \in Entity |-> Highest(Rows(e) \cap live)]
               P == [proc[p] EXCEPT !.pc = "walk", !.num = 0, !.counter = c, !.map = m]
    <2>3. m \in [Entity -> SUBSET Num] /\ \A e \in Entity : m[e] \subseteq Rows(e)
      BY DEF Highest, Rows
    <2>4. d \in 0..MaxTag
      BY CountAssumption DEF Highest, Taken, Num
    <2>5. /\ proc[p].counter \in 0..MaxTag /\ proc[p].num \in 0..MaxTag
          /\ proc[p].pc = "rows"
      BY <1>1, <1>3 DEF ProcRecord, LoadRows, At
    <2>6. c \in 0..MaxTag /\ proc[p].num <= c
      BY <2>4, <2>5 DEF LoadedCounter, Larger
    <2> HIDE DEF c, m
    <2>7. /\ P \in ProcRecord /\ P.pc = "walk" /\ P.map = m /\ P.tries = proc[p].tries
          /\ P.counter = c /\ P.gone = proc[p].gone /\ P.sig = proc[p].sig
      <3>1. 0 \in 0..MaxTag /\ "walk" \in Pc
        BY CountAssumption DEF Pc
      <3>2. m \in [Entity -> SUBSET Num]
        BY <2>3
      <3> QED
        BY <1>1, <2>6, <3>1, <3>2 DEF ProcRecord
    <2>8. Moved(p, P)
      BY <2>2 DEF c, m
    <2> HIDE DEF P
    <2>9. Holds(P)
      BY <1>1, <2>3, <2>5, <2>7 DEF Holds, Alive, TaggerInv, TypeOK
    <2>10. retired \subseteq Nat /\ c \in Nat /\ proc[p].num \in Nat
      BY <2>5, <2>6, CountAssumption DEF TaggerInv, TypeOK, Num
    <2>11. Recalls(P)
      BY <1>1, <2>5, <2>6, <2>7, <2>10 DEF Recalls, Walking
    <2> QED
      BY <1>3, <2>7, <2>8, <2>9, <2>11, QuietKeeps DEF LoadRows
  <1> QED
    BY <1>2, <1>3

-----------------------------------------------------------------------------
(* The walk, as long as it writes nothing. *)

\* A step of the walk keeps what the process recalls.
LEMMA WalkRecalls ==
  ASSUME NEW r \in ProcRecord, NEW P \in ProcRecord, Recalls(r),
         r.pc \in Walking, P.pc \in Walking \ {"insert"},
         P.counter = r.counter, P.gone = r.gone, P.sig = r.sig
  PROVE  Recalls(P)
  BY DEF Recalls, Walking

\* A row that is looked for is found and bound, or there is none.
LEMMA FindKeeps ==
  ASSUME TaggerInv, NEW p \in Proc, NEW e \in Entity, Key(p, e),
         NEW next \in {"orphan", "max", "advance"}, Find(p, e, next),
         proc[p].pc \in {"walk", "lookup", "rematch", "relook", "recheck"},
         UNCHANGED <<tag, counter, session, shown, notes>>
  PROVE  TaggerInv'
  <1>1. /\ proc[p] \in ProcRecord /\ Holds(proc[p]) /\ Recalls(proc[p])
        /\ proc[p].pc \in Walking /\ proc[p].tries < MaxTries
        /\ next \in Pc /\ "sync" \in Pc /\ next \in Walking \ {"insert"} /\ next # "sync"
        /\ "sync" \in Walking \ {"insert"}
    BY RecordIs DEF Holds, Walking, Pc
  <1>2. CASE Rows(e) = {} /\ Moved(p, [proc[p] EXCEPT !.pc = next, !.late = FALSE])
    <2> DEFINE no == FALSE
               P == [proc[p] EXCEPT !.pc = next, !.late = no]
    <2>1. no \in BOOLEAN /\ Moved(p, P)
      BY <1>2
    <2> HIDE DEF no
    <2>2. /\ P \in ProcRecord /\ P.pc = next /\ P.map = proc[p].map /\ P.tries = proc[p].tries
          /\ P.counter = proc[p].counter /\ P.gone = proc[p].gone /\ P.sig = proc[p].sig
      BY <1>1, <2>1 DEF ProcRecord
    <2> HIDE DEF P
    <2>3. Holds(P)
      BY <1>1, <2>2 DEF Holds
    <2>4. Recalls(P)
      BY <1>1, <2>2, WalkRecalls
    <2> QED
      BY <2>1, <2>2, <2>3, <2>4, QuietKeeps
  <1>3. ASSUME NEW n \in Lowest(Rows(e)),
               Moved(p, [proc[p] EXCEPT !.pc = "sync", !.map[e] = {n}, !.num = n])
        PROVE  TaggerInv'
    <2> DEFINE m == [proc[p].map EXCEPT ![e] = {n}]
               P == [proc[p] EXCEPT !.pc = "sync", !.map = m, !.num = n]
    <2>1. n \in Num /\ n \in Rows(e) /\ tag[n] = e /\ n \in 0..MaxTag
      BY CountAssumption DEF Lowest, Rows, Num
    <2>2. proc[p].map \in [Entity -> SUBSET Num]
      BY <1>1 DEF ProcRecord
    <2>3. /\ m \in [Entity -> SUBSET Num] /\ m[e] = {n}
          /\ \A f \in Entity : f # e => m[f] = proc[p].map[f]
      BY <2>1, <2>2
    <2>4. Moved(p, P)
      BY <1>3
    <2> HIDE DEF m
    <2>5. /\ P \in ProcRecord /\ P.pc = "sync" /\ P.map = m /\ P.num = n /\ P.todo = proc[p].todo
          /\ P.counter = proc[p].counter /\ P.gone = proc[p].gone /\ P.sig = proc[p].sig
      BY <1>1, <2>1, <2>3 DEF ProcRecord
    <2> HIDE DEF P
    <2>6. ASSUME NEW f \in Alive, IsFirst(f, P.todo) PROVE f = e
      <3>1. f \in Entity /\ proc[p].todo \in SUBSET Entity
        BY <1>1 DEF Alive, TaggerInv, TypeOK, ProcRecord
      <3> QED
        BY <2>5, <2>6, <3>1, FirstIsOne DEF Key
    <2>7. ASSUME NEW f \in Alive PROVE P.map[f] \subseteq Rows(f)
      <3>1. f \in Entity
        BY DEF Alive, TaggerInv, TypeOK
      <3> QED
        BY <1>1, <2>1, <2>3, <2>5, <3>1 DEF Holds
    <2>8. Holds(P)
      BY <2>1, <2>5, <2>6, <2>7 DEF Holds
    <2>9. Recalls(P)
      BY <1>1, <2>5, WalkRecalls
    <2> QED
      BY <2>4, <2>5, <2>8, <2>9, QuietKeeps
  <1> QED
    BY <1>2, <1>3 DEF Find

LEMMA LookKeeps ==
  ASSUME TaggerInv, NEW p \in Proc, Lookup(p) \/ LookupTool(p) \/ Relook(p) \/ Recheck(p)
  PROVE  TaggerInv'
  <1>1. PICK e \in Entity, next \in {"orphan", "max", "advance"} : Key(p, e) /\ Find(p, e, next)
    BY DEF Lookup, LookupTool, Relook, Recheck, TaggerInv, TypeOK
  <1>2. /\ proc[p].pc \in {"walk", "lookup", "rematch", "relook", "recheck"}
        /\ UNCHANGED <<tag, counter, session, shown, notes>>
    BY DEF Lookup, LookupTool, Relook, Recheck, At
  <1> QED
    BY <1>1, <1>2, FindKeeps

LEMMA ShowsIs ==
  ASSUME TypeOK, NEW p \in Proc, NEW e \in Entity, NEW S \in SUBSET Num, Shows(p, e, S)
  PROVE  /\ shown' \in [Proc -> [Entity -> SUBSET Num]]
         /\ \A q \in Proc, f \in Entity :
              shown'[q][f] = shown[q][f] \/ (f = e /\ shown'[q][f] = S)
  <1>1. shown \in [Proc -> [Entity -> SUBSET Num]]
    BY DEF TypeOK
  <1>2. shown' = [shown EXCEPT ![p] = [shown[p] EXCEPT ![e] = S]]
    BY DEF Shows
  <1>3. shown' \in [Proc -> [Entity -> SUBSET Num]]
    BY <1>1, <1>2
  <1>4. ASSUME NEW q \in Proc, NEW f \in Entity
        PROVE  shown'[q][f] = shown[q][f] \/ (f = e /\ shown'[q][f] = S)
    <2>1. CASE q = p /\ f = e
      BY <1>1, <1>2, <2>1
    <2>2. CASE ~ (q = p /\ f = e)
      BY <1>1, <1>2, <2>2
    <2> QED
      BY <2>1, <2>2
  <1> QED
    BY <1>3, <1>4

LEMMA BoundKeeps ==
  ASSUME TaggerInv, NEW p \in Proc, Bound(p)
  PROVE  TaggerInv'
  <1>1. PICK e \in Entity : /\ Key(p, e)
                            /\ Shows(p, e, proc[p].map[e])
                            /\ Moved(p, [proc[p] EXCEPT !.todo = @ \ {e}])
    BY DEF Bound
  <1> DEFINE P == [proc[p] EXCEPT !.todo = @ \ {e}]
  <1>2. /\ proc[p] \in ProcRecord /\ Holds(proc[p]) /\ Recalls(proc[p]) /\ proc[p].pc = "walk"
        /\ proc[p].pc \in Walking \ {"insert"}
        /\ UNCHANGED <<tag, counter, session, notes>>
    BY RecordIs DEF Bound, At, Walking
  <1>3. /\ P \in ProcRecord /\ P.pc = "walk" /\ P.map = proc[p].map /\ P.tries = proc[p].tries
        /\ P.counter = proc[p].counter /\ P.gone = proc[p].gone /\ P.sig = proc[p].sig
    BY <1>2 DEF ProcRecord
  <1>4. Moved(p, P)
    BY <1>1
  <1> HIDE DEF P
  <1>5. Holds(P)
    BY <1>2, <1>3 DEF Holds
  <1>6. Recalls(P)
    BY <1>2, <1>3, WalkRecalls
  <1>7. /\ shown' \in [Proc -> [Entity -> SUBSET Num]]
        /\ \A q \in Proc, f \in Alive : shown'[q][f] \subseteq Rows(f)
    <2>1. shown \in [Proc -> [Entity -> SUBSET Num]] /\ proc[p].map[e] \in SUBSET Num
          /\ Alive \subseteq Entity
      BY <1>2 DEF TaggerInv, TypeOK, ProcRecord, Alive
    <2>2. e \in Alive => proc[p].map[e] \subseteq Rows(e)
      BY <1>2 DEF Holds
    <2>3. \A q \in Proc, f \in Alive : shown[q][f] \subseteq Rows(f)
      BY DEF TaggerInv
    <2>4. /\ shown' \in [Proc -> [Entity -> SUBSET Num]]
          /\ \A q \in Proc, f \in Entity :
               shown'[q][f] = shown[q][f] \/ (f = e /\ shown'[q][f] = proc[p].map[e])
      BY <1>1, <2>1, ShowsIs DEF TaggerInv
    <2> QED
      BY <2>1, <2>2, <2>3, <2>4
  <1> QED
    BY <1>2, <1>3, <1>4, <1>5, <1>6, <1>7, MovedKeeps DEF session, notes, TaggerInv, TypeOK

-----------------------------------------------------------------------------
(* A tool call is observed. *)

LEMMA ObserveKeeps ==
  ASSUME TaggerInv, NEW p \in Proc, Observe(p)
  PROVE  TaggerInv'
  <1>1. /\ proc[p] \in ProcRecord /\ Holds(proc[p]) /\ Recalls(proc[p])
        /\ proc[p].pc = "walk" /\ proc[p].pc \in Walking /\ proc[p].tries < MaxTries
        /\ UNCHANGED <<tag, counter, session, shown, notes>>
    BY RecordIs DEF Observe, At, Walking, Holds
  <1>2. CASE Moved(p, [proc[p] EXCEPT !.pc = "persisted"])
    <2> DEFINE P == [proc[p] EXCEPT !.pc = "persisted"]
    <2>1. /\ P \in ProcRecord /\ P.pc = "persisted" /\ P.map = proc[p].map
          /\ P.tries = proc[p].tries
          /\ P.counter = proc[p].counter /\ P.gone = proc[p].gone /\ P.sig = proc[p].sig
      BY <1>1 DEF ProcRecord, Pc
    <2> HIDE DEF P
    <2>2. Holds(P)
      BY <1>1, <2>1 DEF Holds
    <2>3. Recalls(P)
      BY <1>1, <2>1, WalkRecalls DEF Walking
    <2> QED
      BY <1>1, <1>2, <2>1, <2>2, <2>3, QuietKeeps DEF P
  <1>3. ASSUME NEW n \in Lowest(Rows(Orphan)),
               Moved(p, [proc[p] EXCEPT !.pc = "claim", !.num = n])
        PROVE  TaggerInv'
    <2> DEFINE P == [proc[p] EXCEPT !.pc = "claim", !.num = n]
    <2>1. n \in Num /\ n \in 0..MaxTag /\ "claim" \in Pc
      BY CountAssumption DEF Lowest, Rows, Num, Pc
    <2>2. /\ P \in ProcRecord /\ P.pc = "claim" /\ P.map = proc[p].map /\ P.num = n
          /\ P.tries = proc[p].tries
          /\ P.counter = proc[p].counter /\ P.gone = proc[p].gone /\ P.sig = proc[p].sig
      BY <1>1, <2>1 DEF ProcRecord
    <2> HIDE DEF P
    <2>3. Holds(P)
      BY <1>1, <2>1, <2>2 DEF Holds
    <2>4. Recalls(P)
      BY <1>1, <2>2, WalkRecalls DEF Walking
    <2> QED
      BY <1>1, <1>3, <2>2, <2>3, <2>4, QuietKeeps DEF P
  <1> QED
    BY <1>2, <1>3 DEF Observe

LEMMA PersistedKeeps ==
  ASSUME TaggerInv, NEW p \in Proc, Persisted(p)
  PROVE  TaggerInv'
  <1>1. /\ proc[p] \in ProcRecord /\ Holds(proc[p]) /\ Recalls(proc[p])
        /\ proc[p].pc = "persisted" /\ proc[p].pc \in Walking /\ proc[p].tries < MaxTries
        /\ UNCHANGED <<tag, counter, session, shown, notes>>
    BY RecordIs DEF Persisted, At, Walking, Holds
  <1>2. CASE Moved(p, [proc[p] EXCEPT !.pc = "lookup"])
    <2> DEFINE P == [proc[p] EXCEPT !.pc = "lookup"]
    <2>1. /\ P \in ProcRecord /\ P.pc = "lookup" /\ P.map = proc[p].map
          /\ P.tries = proc[p].tries
          /\ P.counter = proc[p].counter /\ P.gone = proc[p].gone /\ P.sig = proc[p].sig
      BY <1>1 DEF ProcRecord, Pc
    <2> HIDE DEF P
    <2>2. Holds(P)
      BY <1>1, <2>1 DEF Holds
    <2>3. Recalls(P)
      BY <1>1, <2>1, WalkRecalls DEF Walking
    <2> QED
      BY <1>1, <1>2, <2>1, <2>2, <2>3, QuietKeeps DEF P
  <1>3. ASSUME NEW e \in Entity, NEW n \in Lowest(Rows(e)),
               Moved(p, [proc[p] EXCEPT !.pc = "walk", !.map[e] = {n}])
        PROVE  TaggerInv'
    <2> DEFINE m == [proc[p].map EXCEPT ![e] = {n}]
               P == [proc[p] EXCEPT !.pc = "walk", !.map = m]
    <2>1. n \in Num /\ n \in Rows(e)
      BY DEF Lowest, Rows
    <2>2. proc[p].map \in [Entity -> SUBSET Num]
      BY <1>1 DEF ProcRecord
    <2>3. /\ m \in [Entity -> SUBSET Num] /\ m[e] = {n}
          /\ \A f \in Entity : f # e => m[f] = proc[p].map[f]
      BY <2>1, <2>2
    <2>4. Moved(p, P)
      BY <1>3
    <2> HIDE DEF m
    <2>5. /\ P \in ProcRecord /\ P.pc = "walk" /\ P.map = m /\ P.tries = proc[p].tries
          /\ P.counter = proc[p].counter /\ P.gone = proc[p].gone /\ P.sig = proc[p].sig
      BY <1>1, <2>3 DEF ProcRecord, Pc
    <2> HIDE DEF P
    <2>6. ASSUME NEW f \in Alive PROVE P.map[f] \subseteq Rows(f)
      <3>1. f \in Entity
        BY DEF Alive, TaggerInv, TypeOK
      <3> QED
        BY <1>1, <2>1, <2>3, <2>5, <3>1 DEF Holds
    <2>7. Holds(P)
      BY <1>1, <2>5, <2>6 DEF Holds
    <2>8. Recalls(P)
      BY <1>1, <2>5, WalkRecalls DEF Walking
    <2> QED
      BY <1>1, <2>4, <2>5, <2>7, <2>8, QuietKeeps
  <1> QED
    BY <1>2, <1>3 DEF Persisted

-----------------------------------------------------------------------------
(* Retries. *)

LEMMA FindOrphanKeeps ==
  ASSUME TaggerInv, NEW p \in Proc, FindOrphan(p)
  PROVE  TaggerInv'
  <1>1. /\ proc[p] \in ProcRecord /\ Holds(proc[p]) /\ Recalls(proc[p])
        /\ proc[p].pc = "orphan" /\ proc[p].pc \in Walking
    BY RecordIs DEF FindOrphan, At, Walking
  <1>2. CASE Moved(p, [proc[p] EXCEPT !.pc = "relook", !.tries = 0])
    <2> DEFINE P == [proc[p] EXCEPT !.pc = "relook", !.tries = 0]
    <2>1. 0 \in 0..MaxTries /\ 0 < MaxTries /\ "relook" \in Pc
      BY CountAssumption DEF Pc
    <2>2. /\ P \in ProcRecord /\ P.pc = "relook" /\ P.map = proc[p].map /\ P.tries = 0
          /\ P.counter = proc[p].counter /\ P.gone = proc[p].gone /\ P.sig = proc[p].sig
      BY <1>1, <2>1 DEF ProcRecord
    <2> HIDE DEF P
    <2>3. Holds(P)
      BY <1>1, <2>1, <2>2 DEF Holds
    <2>4. Recalls(P)
      BY <1>1, <2>2, WalkRecalls DEF Walking
    <2> QED
      BY <1>2, <2>2, <2>3, <2>4, QuietKeeps DEF FindOrphan, P
  <1>3. ASSUME NEW n \in Lowest(Rows(Orphan)), proc[p].tries # MaxTries,
               Moved(p, [proc[p] EXCEPT !.pc = "adopt", !.num = n])
        PROVE  TaggerInv'
    <2> DEFINE P == [proc[p] EXCEPT !.pc = "adopt", !.num = n]
    <2>1. n \in Num /\ n \in 0..MaxTag /\ "adopt" \in Pc
      BY CountAssumption DEF Lowest, Rows, Num, Pc
    <2>2. /\ P \in ProcRecord /\ P.pc = "adopt" /\ P.map = proc[p].map /\ P.num = n
          /\ P.tries = proc[p].tries
          /\ P.counter = proc[p].counter /\ P.gone = proc[p].gone /\ P.sig = proc[p].sig
      BY <1>1, <2>1 DEF ProcRecord
    <2> HIDE DEF P
    <2>3. proc[p].tries < MaxTries
      <3>1. proc[p].tries \in 0..MaxTries
        BY <1>1 DEF ProcRecord
      <3> QED
        BY <1>3, <3>1, CountAssumption
    <2>4. Holds(P)
      BY <1>1, <2>1, <2>2, <2>3 DEF Holds
    <2>5. Recalls(P)
      BY <1>1, <2>2, WalkRecalls DEF Walking
    <2> QED
      BY <1>3, <2>2, <2>4, <2>5, QuietKeeps DEF FindOrphan, P
  <1> QED
    BY <1>2, <1>3 DEF FindOrphan

LEMMA RematchKeeps ==
  ASSUME TaggerInv, NEW p \in Proc, Rematch(p)
  PROVE  TaggerInv'
  <1>1. /\ proc[p] \in ProcRecord /\ Holds(proc[p]) /\ Recalls(proc[p])
        /\ proc[p].pc = "rematch" /\ proc[p].pc \in Walking /\ proc[p].tries < MaxTries
        /\ UNCHANGED <<tag, counter, session, shown, notes>>
    BY RecordIs DEF Rematch, At, Walking, Holds
  <1>2. CASE Moved(p, [proc[p] EXCEPT !.pc = "orphan", !.tries = @ + 1])
    <2> DEFINE P == [proc[p] EXCEPT !.pc = "orphan", !.tries = @ + 1]
    <2>1. proc[p].tries + 1 \in 0..MaxTries /\ "orphan" \in Pc
      <3>1. proc[p].tries \in 0..MaxTries
        BY <1>1 DEF ProcRecord
      <3> QED
        BY <1>1, <3>1, CountAssumption DEF Pc
    <2>2. /\ P \in ProcRecord /\ P.pc = "orphan" /\ P.map = proc[p].map
          /\ P.counter = proc[p].counter /\ P.gone = proc[p].gone /\ P.sig = proc[p].sig
      BY <1>1, <2>1 DEF ProcRecord
    <2> HIDE DEF P
    <2>3. Holds(P)
      BY <1>1, <2>2 DEF Holds
    <2>4. Recalls(P)
      BY <1>1, <2>2, WalkRecalls DEF Walking
    <2> QED
      BY <1>1, <1>2, <2>2, <2>3, <2>4, QuietKeeps DEF P
  <1>3. CASE \E e \in Entity : Key(p, e) /\ Find(p, e, "orphan")
    BY <1>1, <1>3, FindKeeps
  <1> QED
    BY <1>2, <1>3 DEF Rematch

LEMMA ProposeKeeps ==
  ASSUME TaggerInv, NEW p \in Proc, Propose(p)
  PROVE  TaggerInv'
  <1>1. /\ proc[p] \in ProcRecord /\ Holds(proc[p]) /\ Recalls(proc[p])
        /\ proc[p].pc = "max" /\ proc[p].tries < MaxTries
        /\ UNCHANGED <<tag, counter, session, shown, notes>>
    BY RecordIs DEF Propose, At, Holds
  <1>2. PICK d \in Highest(Taken \cup {0}) :
          /\ Proposed(proc[p].counter, d) <= MaxTag
          /\ Moved(p, [proc[p] EXCEPT !.pc = "insert", !.num = Proposed(proc[p].counter, d)])
    BY DEF Propose
  <1> DEFINE n == Proposed(proc[p].counter, d)
             P == [proc[p] EXCEPT !.pc = "insert", !.num = n]
  <1>3. d \in 0..MaxTag /\ proc[p].counter \in 0..MaxTag
    BY <1>1, CountAssumption DEF Highest, Taken, Num, ProcRecord
  <1>4. n \in Num /\ n \in 0..MaxTag /\ proc[p].counter < n
    BY <1>2, <1>3, CountAssumption DEF Proposed, Larger, Num
  <1>5. Moved(p, P)
    BY <1>2
  <1> HIDE DEF n
  <1>6. /\ P \in ProcRecord /\ P.pc = "insert" /\ P.map = proc[p].map /\ P.num = n
        /\ P.tries = proc[p].tries
        /\ P.counter = proc[p].counter /\ P.gone = proc[p].gone /\ P.sig = proc[p].sig
    BY <1>1, <1>4 DEF ProcRecord, Pc
  <1> HIDE DEF P
  <1>7. Holds(P)
    BY <1>1, <1>4, <1>6 DEF Holds
  <1>8. Recalls(P)
    BY <1>1, <1>4, <1>6 DEF Recalls, Walking
  <1> QED
    BY <1>1, <1>5, <1>6, <1>7, <1>8, QuietKeeps

LEMMA AdvanceKeeps ==
  ASSUME TaggerInv, NEW p \in Proc, Advance(p)
  PROVE  TaggerInv'
  <1>1. /\ proc[p] \in ProcRecord /\ Holds(proc[p]) /\ Recalls(proc[p])
        /\ proc[p].pc = "advance" /\ proc[p].tries < MaxTries
        /\ UNCHANGED <<tag, counter, session, shown, notes>>
    BY RecordIs DEF Advance, At, Holds
  <1>2. CASE Moved(p, Fresh)
    BY <1>1, <1>2, FreshIs, FreshKeeps, QuietKeeps DEF TaggerInv
  <1>3. ASSUME NEW d \in Highest(Taken \cup {0}), proc[p].tries + 1 # MaxTries,
               Moved(p, [proc[p] EXCEPT !.pc = "max", !.tries = @ + 1, !.counter = Larger(@, d)])
        PROVE  TaggerInv'
    <2> DEFINE c == Larger(proc[p].counter, d)
               P == [proc[p] EXCEPT !.pc = "max", !.tries = @ + 1, !.counter = c]
    <2>1. d \in 0..MaxTag /\ proc[p].counter \in 0..MaxTag /\ proc[p].tries \in 0..MaxTries
      BY <1>1, CountAssumption DEF Highest, Taken, Num, ProcRecord
    <2>2. c \in 0..MaxTag /\ proc[p].counter <= c
      BY <2>1 DEF Larger
    <2>3. proc[p].tries + 1 \in 0..MaxTries /\ proc[p].tries + 1 < MaxTries
      BY <1>1, <1>3, <2>1, CountAssumption
    <2>4. Moved(p, P)
      BY <1>3
    <2> HIDE DEF c
    <2>5. /\ P \in ProcRecord /\ P.pc = "max" /\ P.map = proc[p].map
          /\ P.tries = proc[p].tries + 1 /\ P.counter = c /\ P.gone = proc[p].gone
          /\ P.sig = proc[p].sig
      BY <1>1, <2>2, <2>3 DEF ProcRecord, Pc
    <2> HIDE DEF P
    <2>6. Holds(P)
      BY <1>1, <2>3, <2>5 DEF Holds
    <2>7. retired \subseteq Nat /\ c \in Nat /\ proc[p].counter \in Nat
      BY <2>1, <2>2, CountAssumption DEF TaggerInv, TypeOK, Num
    <2>8. \A n \in retired : n <= proc[p].counter => n <= c
      BY <2>2, <2>7
    <2>9. \A n \in retired : /\ n <= c \/ n \in P.gone
                             /\ P.sig = "current" => n <= c
      BY <1>1, <2>5, <2>8 DEF Recalls, Walking
    <2>10. Recalls(P)
      BY <2>5, <2>9 DEF Recalls
    <2> QED
      BY <1>1, <2>4, <2>5, <2>6, <2>10, QuietKeeps
  <1> QED
    BY <1>2, <1>3 DEF Advance

LEMMA DoneKeeps ==
  ASSUME TaggerInv, NEW p \in Proc, Done(p)
  PROVE  TaggerInv'
  <1> DEFINE P == [proc[p] EXCEPT !.pc = "idle", !.gone = {}]
  <1>1. /\ proc[p] \in ProcRecord /\ Holds(proc[p]) /\ Recalls(proc[p])
        /\ proc[p].pc = "walk" /\ proc[p].tries < MaxTries
        /\ UNCHANGED <<tag, counter, session, shown, notes>> /\ Moved(p, P)
    BY RecordIs DEF Done, At, Holds
  <1>2. /\ P \in ProcRecord /\ P.pc = "idle" /\ P.map = proc[p].map
        /\ P.tries = proc[p].tries /\ P.counter = proc[p].counter /\ P.sig = proc[p].sig
    BY <1>1 DEF ProcRecord, Pc
  <1> HIDE DEF P
  <1>3. Holds(P)
    BY <1>1, <1>2 DEF Holds
  <1>4. Recalls(P)
    BY <1>1, <1>2 DEF Recalls, Walking
  <1> QED
    BY <1>1, <1>2, <1>3, <1>4, QuietKeeps

LEMMA FailKeeps ==
  ASSUME TaggerInv, NEW p \in Proc, Fail(p)
  PROVE  TaggerInv'
  <1>1. /\ UNCHANGED <<tag, counter, wire, coming, tool, retired, raced, shown>>
        /\ Moved(p, Fresh)
    BY DEF Fail, session
  <1>2. faults' \in 0..MaxFaults /\ faults \in 0..MaxFaults
    BY CountAssumption DEF Fail, TaggerInv, TypeOK
  <1>3. /\ shown' \in [Proc -> [Entity -> SUBSET Num]]
        /\ \A q \in Proc, e \in Alive : shown'[q][e] \subseteq Rows(e)
    BY <1>1 DEF TaggerInv, TypeOK
  <1> QED
    BY <1>1, <1>2, <1>3, FreshIs, FreshKeeps, MovedKeeps DEF TaggerInv

-----------------------------------------------------------------------------
(* Steps that write to the tables. *)

\* The record of a process over a step of another: only the signature is
\* stale, and of a pass under way the rows removed are noted.
Follows(q) ==
  /\ proc[q]'.pc = proc[q].pc /\ proc[q]'.map = proc[q].map
  /\ proc[q]'.counter = proc[q].counter /\ proc[q]'.num = proc[q].num
  /\ proc[q]'.tries = proc[q].tries /\ proc[q]'.todo = proc[q].todo
  /\ proc[q]'.sig # "current"
  /\ proc[q].gone \subseteq proc[q]'.gone
  /\ proc[q].pc # "idle" => retired' \subseteq retired \cup proc[q]'.gone

LEMMA CommitKeeps ==
  ASSUME TaggerInv, NEW p \in Proc,
         TypeOK', \A e \in wire' : e < coming',
         \A q \in Proc, e \in Alive' : shown'[q][e] \subseteq Rows(e)',
         \A n \in Taken' \cup retired' : n <= counter',
         Holds(proc[p])', Recalls(proc[p])',
         Alive' \subseteq Alive, \A e \in Alive' : Rows(e) \subseteq Rows(e)',
         \A q \in Proc : q # p => Follows(q)
  PROVE  TaggerInv'
  <1>1. ASSUME NEW q \in Proc, q # p PROVE Holds(proc[q])'
    <2>1. Holds(proc[q]) /\ Follows(q)
      BY <1>1 DEF TaggerInv
    <2>2. \A e \in Alive' : proc[q]'.map[e] \subseteq Rows(e)'
      BY <2>1 DEF Holds, Follows
    <2>3. ASSUME NEW e \in Alive', proc[q]'.pc = "sync", IsFirst(e, proc[q]'.todo)
          PROVE  tag'[proc[q]'.num] = e
      <3>1. tag[proc[q].num] = e /\ proc[q].num \in Num
        BY <2>1, <2>3 DEF Holds, Follows
      <3>2. proc[q].num \in Rows(e)
        BY <3>1 DEF Rows
      <3>3. proc[q].num \in Rows(e)'
        BY <3>2
      <3> QED
        BY <2>1, <3>3 DEF Rows, Follows
    <2>4. \A e \in Alive' : proc[q]'.pc = "sync" /\ IsFirst(e, proc[q]'.todo)
                              => tag'[proc[q]'.num] = e
      BY <2>3
    <2>5. /\ proc[q]'.pc \in {"sync", "claim", "adopt", "insert"} => proc[q]'.num \in Num
          /\ proc[q]'.pc \notin {"orphan", "sync"} => proc[q]'.tries < MaxTries
      BY <2>1 DEF Holds, Follows
    <2> QED
      BY <2>2, <2>4, <2>5 DEF Holds, IsFirst, Num
  <1>2. ASSUME NEW q \in Proc, q # p PROVE Recalls(proc[q])'
    <2>1. Recalls(proc[q]) /\ Follows(q)
      BY <1>2 DEF TaggerInv
    <2> QED
      BY <2>1 DEF Recalls, Follows, Walking
  <1> QED
    BY <1>1, <1>2 DEF TaggerInv

LEMMA CommittedIs ==
  ASSUME TaggerInv, NEW p \in Proc, NEW P \in ProcRecord
  PROVE  /\ Committed(p, P) \in [Proc -> ProcRecord]
         /\ Committed(p, P)[p] = P
         /\ \A q \in Proc : q # p =>
              /\ Committed(p, P)[q].pc = proc[q].pc
              /\ Committed(p, P)[q].map = proc[q].map
              /\ Committed(p, P)[q].counter = proc[q].counter
              /\ Committed(p, P)[q].num = proc[q].num
              /\ Committed(p, P)[q].tries = proc[q].tries
              /\ Committed(p, P)[q].todo = proc[q].todo
              /\ Committed(p, P)[q].gone = proc[q].gone
              /\ Committed(p, P)[q].late = proc[q].late
              /\ Committed(p, P)[q].sig # "current"
  <1>1. ASSUME NEW q \in Proc, q # p
        PROVE  /\ Committed(p, P)[q] \in ProcRecord
               /\ Committed(p, P)[q].pc = proc[q].pc
               /\ Committed(p, P)[q].map = proc[q].map
               /\ Committed(p, P)[q].counter = proc[q].counter
               /\ Committed(p, P)[q].num = proc[q].num
               /\ Committed(p, P)[q].tries = proc[q].tries
               /\ Committed(p, P)[q].todo = proc[q].todo
               /\ Committed(p, P)[q].gone = proc[q].gone
               /\ Committed(p, P)[q].late = proc[q].late
               /\ Committed(p, P)[q].sig # "current"
    <2> DEFINE s == IF proc[q].sig = "current" THEN "stale" ELSE proc[q].sig
    <2>1. proc[q] \in ProcRecord
      BY RecordIs
    <2>2. s \in {"none", "current", "stale"} /\ s # "current"
      BY <2>1 DEF ProcRecord
    <2>3. Committed(p, P)[q] = [proc[q] EXCEPT !.sig = s]
      BY <1>1 DEF Committed
    <2> HIDE DEF s
    <2> QED
      BY <2>1, <2>2, <2>3 DEF ProcRecord
  <1>2. Committed(p, P)[p] = P
    BY DEF Committed
  <1>3. Committed(p, P) \in [Proc -> ProcRecord]
    <2>1. \A q \in Proc : Committed(p, P)[q] \in ProcRecord
      BY <1>1, <1>2
    <2>2. Committed(p, P) = [q \in Proc |-> Committed(p, P)[q]]
      BY DEF Committed
    <2> QED
      BY <2>1, <2>2
  <1> QED
    BY <1>1, <1>2, <1>3

LEMMA SyncKeeps ==
  ASSUME TaggerInv, NEW p \in Proc, Sync(p)
  PROVE  TaggerInv'
  <1> DEFINE c == Larger(proc[p].counter, proc[p].num)
  <1>1. PICK e \in Entity :
          /\ Key(p, e)
          /\ Shows(p, e, {proc[p].num})
          /\ proc' = Committed(p, [proc[p] EXCEPT !.pc = "walk", !.counter = c, !.num = 0,
                                                  !.tries = 0, !.todo = @ \ {e}])
    BY DEF Sync
  <1> DEFINE P == [proc[p] EXCEPT !.pc = "walk", !.counter = c, !.num = 0,
                                  !.tries = 0, !.todo = @ \ {e}]
  <1>2. /\ proc[p] \in ProcRecord /\ Holds(proc[p]) /\ Recalls(proc[p]) /\ proc[p].pc = "sync"
        /\ UNCHANGED <<tag, wire, coming, tool, retired, raced, faults>>
        /\ counter' = Larger(counter, c) /\ TypeOK
    BY RecordIs DEF Sync, At, session, notes, TaggerInv
  <1>3. /\ proc[p].num \in Num /\ proc[p].num \in 0..MaxTag /\ proc[p].counter \in 0..MaxTag
        /\ counter \in 0..MaxTag
    BY <1>2 DEF ProcRecord, Holds, TypeOK
  <1>4. c \in 0..MaxTag /\ proc[p].counter <= c
    BY <1>3 DEF Larger
  <1>5. counter' \in 0..MaxTag /\ counter <= counter'
    BY <1>2, <1>3, <1>4 DEF Larger
  <1>6. proc' = Committed(p, P)
    BY <1>1
  <1> HIDE DEF c
  <1>7. 0 \in 0..MaxTag /\ 0 \in 0..MaxTries /\ 0 < MaxTries
    BY CountAssumption
  <1>8. /\ P \in ProcRecord /\ P.pc = "walk" /\ P.map = proc[p].map /\ P.tries = 0
        /\ P.counter = c /\ P.gone = proc[p].gone
    BY <1>2, <1>4, <1>7 DEF ProcRecord, Pc
  <1>9. P.sig = proc[p].sig
    BY <1>2 DEF ProcRecord
  <1> HIDE DEF P
  <1>10. /\ proc' \in [Proc -> ProcRecord] /\ proc[p]' = P
         /\ \A q \in Proc : q # p => Follows(q)
    BY <1>2, <1>6, <1>8, CommittedIs DEF Follows
  <1>11. Alive' = Alive /\ Taken' = Taken /\ \A f : Rows(f)' = Rows(f)
    BY <1>2 DEF Alive, Taken, Rows
  <1>12. shown' \in [Proc -> [Entity -> SUBSET Num]]
    BY <1>1, <1>2, <1>3, ShowsIs
  <1>13. TypeOK'
    BY <1>2, <1>5, <1>10, <1>12 DEF TypeOK, ProcRecord
  <1>14. ASSUME NEW q \in Proc, NEW f \in Alive PROVE shown'[q][f] \subseteq Rows(f)
    <2>1. f \in Entity
      BY <1>2 DEF Alive, TypeOK
    <2>2. shown[q][f] \subseteq Rows(f)
      BY DEF TaggerInv
    <2>3. e \in Alive => proc[p].num \in Rows(e)
      BY <1>1, <1>2, <1>3 DEF Holds, Key, Rows
    <2>4. {proc[p].num} \in SUBSET Num
      BY <1>3
    <2>5. shown'[q][f] = shown[q][f] \/ (f = e /\ shown'[q][f] = {proc[p].num})
      BY <1>1, <1>2, <2>1, <2>4, ShowsIs
    <2> QED
      BY <2>2, <2>3, <2>5
  <1>15. \A n \in Taken' \cup retired' : n <= counter'
    <2>1. ASSUME NEW n \in Taken \cup retired PROVE n <= counter'
      <3>1. n \in Num /\ n \in Int
        BY <1>2, CountAssumption DEF TypeOK, Num, Taken
      <3>2. n <= counter
        BY DEF TaggerInv
      <3> QED
        BY <1>3, <1>5, <3>1, <3>2
    <2> QED
      BY <1>2, <1>11, <2>1
  <1>17. Holds(proc[p])'
    BY <1>2, <1>7, <1>8, <1>10, <1>11 DEF Holds
  <1>18. retired \subseteq Nat /\ c \in Nat /\ proc[p].counter \in Nat
    BY <1>2, <1>3, <1>4, CountAssumption DEF TypeOK, Num
  <1>19. \A n \in retired : /\ n <= c \/ n \in P.gone
                            /\ P.sig = "current" => n <= c
    <2>1. ASSUME NEW n \in retired, n <= proc[p].counter PROVE n <= c
      <3>1. n \in Nat /\ proc[p].counter <= c
        BY <1>4, <1>18
      <3> QED
        BY <1>18, <2>1, <3>1
    <2> QED
      BY <1>2, <1>8, <1>9, <2>1 DEF Recalls, Walking
  <1>20. Recalls(proc[p])'
    BY <1>2, <1>8, <1>10, <1>19 DEF Recalls
  <1> QED
    BY <1>2, <1>10, <1>11, <1>13, <1>14, <1>15, <1>17, <1>20, CommitKeeps DEF TaggerInv

\* A number that is no content's becomes the number of one.
LEMMA AssignIs ==
  ASSUME TypeOK, NEW n \in Num, NEW e \in Entity, tag[n] \notin Entity,
         tag' = [tag EXCEPT ![n] = e]
  PROVE  /\ tag' \in [Num -> Entity \cup {Orphan, Free}]
         /\ n \in Rows(e)' /\ tag'[n] = e
         /\ \A f \in Entity : Rows(f) \subseteq Rows(f)'
         /\ Taken' \subseteq Taken \cup {n}
  <1>1. tag \in [Num -> Entity \cup {Orphan, Free}]
    BY DEF TypeOK
  <1>2. /\ tag' \in [Num -> Entity \cup {Orphan, Free}] /\ tag'[n] = e
        /\ \A m \in Num : m # n => tag'[m] = tag[m]
    BY <1>1
  <1>3. ASSUME NEW f \in Entity, NEW m \in Rows(f) PROVE m \in Rows(f)'
    BY <1>2 DEF Rows
  <1>4. ASSUME NEW m \in Taken' PROVE m \in Taken \cup {n}
    BY <1>2 DEF Taken
  <1> QED
    BY <1>2, <1>3, <1>4 DEF Rows

\* A call takes an orphan over, or is too late for it, or throws.
LEMMA AdoptsKeeps ==
  ASSUME TaggerInv, NEW p \in Proc, proc[p].pc \in {"claim", "adopt"},
         NEW taken \in {"walk", "sync"}, NEW num \in 0..MaxTag,
         taken = "sync" => num = proc[p].num,
         NEW lost \in {"rematch", "persisted"}, Adopts(p, taken, num, lost),
         UNCHANGED <<counter, session, shown, notes>>
  PROVE  TaggerInv'
  <1>1. /\ proc[p] \in ProcRecord /\ Holds(proc[p]) /\ Recalls(proc[p])
        /\ proc[p].pc \in Walking /\ proc[p].tries < MaxTries
        /\ UNCHANGED <<counter, session, shown, notes>> /\ TypeOK
        /\ UNCHANGED <<counter, wire, coming, tool, shown, retired, raced, faults>>
    BY RecordIs DEF Holds, Walking, TaggerInv, session, notes
  <1>2. PICK e \in Entity :
          /\ Key(p, e)
          /\ IF StillOrphan(proc[p].num)
             THEN IF Rows(e) = {}
                  THEN /\ tag' = [tag EXCEPT ![proc[p].num] = e]
                       /\ proc' = Committed(p, [proc[p] EXCEPT !.pc = taken, !.num = num,
                                                             !.map[e] = {proc[p].num}])
                  ELSE /\ Moved(p, Fresh)
                       /\ UNCHANGED tag
             ELSE /\ Moved(p, [proc[p] EXCEPT !.pc = lost, !.num = 0])
                  /\ UNCHANGED tag
    BY DEF Adopts
  <1>3. CASE Moved(p, Fresh) /\ UNCHANGED tag
    BY <1>1, <1>3, FreshIs, FreshKeeps, QuietKeeps
  <1>4. CASE Moved(p, [proc[p] EXCEPT !.pc = lost, !.num = 0]) /\ UNCHANGED tag
    <2> DEFINE P == [proc[p] EXCEPT !.pc = lost, !.num = 0]
    <2>1. /\ P \in ProcRecord /\ P.pc = lost /\ P.map = proc[p].map
          /\ P.tries = proc[p].tries
          /\ P.counter = proc[p].counter /\ P.gone = proc[p].gone /\ P.sig = proc[p].sig
      <3>1. 0 \in 0..MaxTag /\ lost \in Pc
        BY CountAssumption DEF Pc
      <3> QED
        BY <1>1, <3>1 DEF ProcRecord
    <2> HIDE DEF P
    <2>2. Holds(P)
      BY <1>1, <2>1 DEF Holds
    <2>3. Recalls(P)
      BY <1>1, <2>1, WalkRecalls DEF Walking
    <2> QED
      BY <1>1, <1>4, <2>1, <2>2, <2>3, QuietKeeps DEF P
  <1>5. ASSUME StillOrphan(proc[p].num), tag' = [tag EXCEPT ![proc[p].num] = e],
               proc' = Committed(p, [proc[p] EXCEPT !.pc = taken, !.num = num,
                                                     !.map[e] = {proc[p].num}])
        PROVE  TaggerInv'
    <2> DEFINE n == proc[p].num
               m == [proc[p].map EXCEPT ![e] = {n}]
               P == [proc[p] EXCEPT !.pc = taken, !.num = num, !.map = m]
    <2>1. n \in Num /\ proc[p].map \in [Entity -> SUBSET Num] /\ proc[p].todo \in SUBSET Entity
      BY <1>1 DEF Holds, ProcRecord
    <2>2. tag[n] = Orphan /\ Orphan \notin Entity
      BY <1>5 DEF StillOrphan, Orphan, Entity
    <2>3. /\ tag' \in [Num -> Entity \cup {Orphan, Free}]
          /\ n \in Rows(e)' /\ tag'[n] = e
          /\ \A f \in Entity : Rows(f) \subseteq Rows(f)'
          /\ Taken' \subseteq Taken \cup {n}
      BY <1>1, <1>5, <2>1, <2>2, AssignIs
    <2>4. n \in Taken
      BY <2>1, <2>2 DEF Taken, Orphan, Free
    <2>5. /\ m \in [Entity -> SUBSET Num] /\ m[e] = {n}
          /\ \A f \in Entity : f # e => m[f] = proc[p].map[f]
      BY <2>1
    <2>6. proc' = Committed(p, P)
      BY <1>5
    <2> HIDE DEF m
    <2>7. /\ P \in ProcRecord /\ P.pc = taken /\ P.map = m /\ P.num = num /\ P.todo = proc[p].todo
          /\ P.tries = proc[p].tries
          /\ P.counter = proc[p].counter /\ P.gone = proc[p].gone /\ P.sig = proc[p].sig
      BY <1>1, <2>5 DEF ProcRecord, Pc
    <2> HIDE DEF P, n
    <2>8. /\ proc' \in [Proc -> ProcRecord] /\ proc[p]' = P
          /\ \A q \in Proc : q # p => Follows(q)
      BY <1>1, <2>6, <2>7, CommittedIs DEF Follows
    <2>9. Alive' = Alive /\ Alive \subseteq Entity
      BY <1>1 DEF Alive, TypeOK
    <2>10. TypeOK'
      BY <1>1, <2>3, <2>8 DEF TypeOK, ProcRecord
    <2>11. \A k \in Taken' \cup retired' : k <= counter'
      BY <1>1, <2>3, <2>4 DEF TaggerInv
    <2>12. \A q \in Proc, f \in Alive' : shown'[q][f] \subseteq Rows(f)'
      BY <1>1, <2>3, <2>9 DEF TaggerInv
    <2>13. ASSUME NEW f \in Alive', IsFirst(f, P.todo) PROVE f = e
      BY <1>2, <2>1, <2>7, <2>9, <2>13, FirstIsOne DEF Key
    <2>14. ASSUME NEW f \in Alive' PROVE P.map[f] \subseteq Rows(f)'
      BY <1>1, <2>3, <2>5, <2>7, <2>9 DEF Holds
    <2>15. Holds(proc[p])'
      <3>1. P.pc = "sync" => P.num = n
        BY <2>7 DEF n
      <3> QED
        BY <1>1, <2>1, <2>3, <2>7, <2>8, <2>13, <2>14, <3>1 DEF Holds, IsFirst, Num
    <2>16. Recalls(P)
      BY <1>1, <2>7, WalkRecalls DEF Walking
    <2>17. Recalls(proc[p])'
      BY <1>1, <2>8, <2>16 DEF Recalls
    <2> QED
      BY <1>1, <2>3, <2>8, <2>9, <2>10, <2>11, <2>12, <2>15, <2>17, CommitKeeps DEF TaggerInv
  <1> QED
    BY <1>2, <1>3, <1>4, <1>5

LEMMA AdoptKeeps ==
  ASSUME TaggerInv, NEW p \in Proc, Claim(p) \/ Adopt(p)
  PROVE  TaggerInv'
  <1>1. 0 \in 0..MaxTag /\ proc[p].num \in 0..MaxTag
    BY RecordIs, CountAssumption DEF ProcRecord
  <1>2. CASE Claim(p)
    BY <1>1, <1>2, AdoptsKeeps DEF Claim, At
  <1>3. CASE Adopt(p)
    BY <1>1, <1>3, AdoptsKeeps DEF Adopt, At
  <1> QED
    BY <1>2, <1>3

LEMMA CollisionKeeps ==
  ASSUME TaggerInv, NEW p \in Proc, proc[p].pc = "insert",
         Moved(p, [proc[p] EXCEPT !.pc = "recheck", !.num = 0]),
         UNCHANGED <<tag, counter, session, shown, notes>>
  PROVE  TaggerInv'
  <1> DEFINE P == [proc[p] EXCEPT !.pc = "recheck", !.num = 0]
  <1>1. proc[p] \in ProcRecord /\ Holds(proc[p]) /\ Recalls(proc[p])
    BY RecordIs
  <1>2. 0 \in 0..MaxTag /\ "recheck" \in Pc
    BY CountAssumption DEF Pc
  <1>3. /\ P \in ProcRecord /\ P.pc = "recheck" /\ P.map = proc[p].map
        /\ P.tries = proc[p].tries
        /\ P.counter = proc[p].counter /\ P.gone = proc[p].gone /\ P.sig = proc[p].sig
    BY <1>1, <1>2 DEF ProcRecord
  <1> HIDE DEF P
  <1>4. Holds(P)
    BY <1>1, <1>3 DEF Holds
  <1>5. Recalls(P)
    BY <1>1, <1>3, WalkRecalls DEF Walking
  <1> QED
    BY <1>1, <1>3, <1>4, <1>5, QuietKeeps DEF P

\* The mark that another inserted after one looked touches nothing else.
LateOf(P, b) == [P EXCEPT !.late = b]
LEMMA LateIsRecord ==
  ASSUME NEW P \in ProcRecord, NEW b \in BOOLEAN, NEW R, R = LateOf(P, b)
  PROVE  /\ R \in ProcRecord
         /\ R.pc = P.pc /\ R.map = P.map /\ R.counter = P.counter /\ R.num = P.num
         /\ R.tries = P.tries /\ R.todo = P.todo /\ R.gone = P.gone /\ R.sig = P.sig
  BY DEF ProcRecord, LateOf

\* One who has inserted the row of e goes on to its next content, and those
\* who had looked for that row before are late.
Advances(p, e) ==
  LET P == Committed(p, [proc[p] EXCEPT
             !.pc = "walk", !.map[e] = {proc[p].num}, !.counter = proc[p].num, !.num = 0,
             !.tries = 0, !.todo = @ \ {e}, !.late = FALSE])
  IN proc' = [q \in Proc |-> IF q # p /\ Key(q, e) /\ Looked(q)
                             THEN [P[q] EXCEPT !.late = TRUE] ELSE P[q]]

LEMMA InsertedKeeps ==
  ASSUME TaggerInv, NEW p \in Proc, NEW e \in Entity, proc[p].pc = "insert",
         Insert(p), Shows(p, e, {proc[p].num}), ~ Collides(proc[p].num, e),
         tag' = [tag EXCEPT ![proc[p].num] = e],
         counter' = Larger(counter, proc[p].num),
         raced' = (IF proc[p].late THEN raced \cup {e} ELSE raced),
         Advances(p, e), UNCHANGED <<session, retired, faults>>
  PROVE  TaggerInv'
  <1> DEFINE no == FALSE
             yes == TRUE
             n == proc[p].num
             m == [proc[p].map EXCEPT ![e] = {n}]
             P == [proc[p] EXCEPT !.pc = "walk", !.map = m, !.counter = n, !.num = 0,
                                  !.tries = 0, !.todo = @ \ {e}, !.late = no]
             C == Committed(p, P)
  <1>1. /\ proc[p] \in ProcRecord /\ Holds(proc[p]) /\ Recalls(proc[p])
        /\ UNCHANGED <<wire, coming, tool, retired, faults>> /\ TypeOK
    BY RecordIs DEF session, TaggerInv
  <1>2. no \in BOOLEAN /\ yes \in BOOLEAN /\ 0 \in 0..MaxTag /\ 0 \in 0..MaxTries /\ 0 < MaxTries
    BY CountAssumption
  <1>3. proc' = [q \in Proc |-> IF q # p /\ Key(q, e) /\ Looked(q)
                                THEN [C[q] EXCEPT !.late = yes] ELSE C[q]]
    BY DEF Advances
  <1> HIDE DEF no, yes
  <1>4. /\ n \in Num /\ n \in 0..MaxTag /\ proc[p].counter < n /\ proc[p].counter \in 0..MaxTag
        /\ counter \in 0..MaxTag /\ proc[p].map \in [Entity -> SUBSET Num]
    BY <1>1 DEF Holds, Recalls, ProcRecord, TypeOK
  <1>5. /\ m \in [Entity -> SUBSET Num] /\ m[e] = {n}
        /\ \A f \in Entity : f # e => m[f] = proc[p].map[f]
    BY <1>4
  <1> HIDE DEF m
  <1>6. /\ P \in ProcRecord /\ P.pc = "walk" /\ P.map = m /\ P.tries = 0 /\ P.counter = n
        /\ P.gone = proc[p].gone /\ P.sig = proc[p].sig
    BY <1>1, <1>2, <1>4, <1>5 DEF ProcRecord, Pc
  <1> HIDE DEF P
  <1>7. /\ C \in [Proc -> ProcRecord] /\ C[p] = P
        /\ \A q \in Proc : q # p =>
             /\ C[q].pc = proc[q].pc /\ C[q].map = proc[q].map
             /\ C[q].counter = proc[q].counter /\ C[q].num = proc[q].num
             /\ C[q].tries = proc[q].tries /\ C[q].todo = proc[q].todo
             /\ C[q].gone = proc[q].gone /\ C[q].sig # "current"
    BY <1>6, CommittedIs
  <1> HIDE DEF C
  <1>8. ASSUME NEW q \in Proc
        PROVE  /\ proc'[q] \in ProcRecord /\ (q = p => proc'[q] = P)
               /\ proc'[q].pc = C[q].pc /\ proc'[q].map = C[q].map
               /\ proc'[q].counter = C[q].counter /\ proc'[q].num = C[q].num
               /\ proc'[q].tries = C[q].tries /\ proc'[q].todo = C[q].todo
               /\ proc'[q].gone = C[q].gone /\ proc'[q].sig = C[q].sig
    <2>1. C[q] \in ProcRecord
      BY <1>7
    <2>2. CASE proc'[q] = [C[q] EXCEPT !.late = yes] /\ q # p
      <3>1. proc'[q] = LateOf(C[q], yes)
        BY <2>2 DEF LateOf
      <3> QED
        BY <1>2, <2>1, <2>2, <3>1, LateIsRecord
    <2>3. CASE proc'[q] = C[q]
      BY <1>7, <2>1, <2>3
    <2> QED
      BY <1>3, <2>2, <2>3
  <1>9. proc' \in [Proc -> ProcRecord]
    BY <1>3, <1>8
  <1>10. ASSUME NEW q \in Proc, q # p PROVE Follows(q)
    <2>1. /\ proc'[q].pc = proc[q].pc /\ proc'[q].map = proc[q].map
          /\ proc'[q].counter = proc[q].counter /\ proc'[q].num = proc[q].num
          /\ proc'[q].tries = proc[q].tries /\ proc'[q].todo = proc[q].todo
          /\ proc'[q].gone = proc[q].gone /\ proc'[q].sig # "current"
      <3>1. /\ C[q].pc = proc[q].pc /\ C[q].map = proc[q].map
            /\ C[q].counter = proc[q].counter /\ C[q].num = proc[q].num
            /\ C[q].tries = proc[q].tries /\ C[q].todo = proc[q].todo
            /\ C[q].gone = proc[q].gone /\ C[q].sig # "current"
        BY <1>7, <1>10
      <3>2. /\ proc'[q].pc = C[q].pc /\ proc'[q].map = C[q].map
            /\ proc'[q].counter = C[q].counter /\ proc'[q].num = C[q].num
            /\ proc'[q].tries = C[q].tries /\ proc'[q].todo = C[q].todo
            /\ proc'[q].gone = C[q].gone /\ proc'[q].sig = C[q].sig
        BY <1>8
      <3> QED
        BY <3>1, <3>2
    <2> QED
      BY <1>1, <2>1 DEF Follows
  <1>11. tag[n] = Free /\ tag[n] \notin Entity
    BY DEF Collides, Free, Entity
  <1>12. /\ tag' \in [Num -> Entity \cup {Orphan, Free}]
         /\ n \in Rows(e)' /\ tag'[n] = e
         /\ \A f \in Entity : Rows(f) \subseteq Rows(f)'
         /\ Taken' \subseteq Taken \cup {n}
    BY <1>1, <1>4, <1>11, AssignIs
  <1>13. Alive' = Alive /\ Alive \subseteq Entity
    BY <1>1 DEF Alive, TypeOK
  <1>14. counter' \in 0..MaxTag /\ counter <= counter' /\ n <= counter'
    BY <1>4 DEF Larger
  <1>15. {n} \in SUBSET Num
    BY <1>4
  <1>16. /\ shown' \in [Proc -> [Entity -> SUBSET Num]]
         /\ \A q \in Proc, f \in Entity :
              shown'[q][f] = shown[q][f] \/ (f = e /\ shown'[q][f] = {n})
    BY <1>1, <1>15, ShowsIs
  <1>17. raced' \subseteq Entity
    BY <1>1 DEF TypeOK
  <1>18. TypeOK'
    <2>1. wire' \subseteq Entity /\ coming' \in 1..Entities + 1 /\ tool' \subseteq Entity
          /\ retired' \subseteq Num /\ faults' \in 0..MaxFaults
      BY <1>1 DEF TypeOK
    <2>2. proc' \in [Proc -> [pc : Pc, map : [Entity -> SUBSET Num], counter : 0..MaxTag,
                             sig : {"none", "current", "stale"}, todo : SUBSET Entity,
                             num : 0..MaxTag, tries : 0..MaxTries, gone : SUBSET Num,
                             late : BOOLEAN]]
      BY <1>9 DEF ProcRecord
    <2> QED
      BY <1>12, <1>14, <1>16, <1>17, <2>1, <2>2 DEF TypeOK
  <1>19. ASSUME NEW q \in Proc, NEW f \in Alive' PROVE shown'[q][f] \subseteq Rows(f)'
    <2>1. f \in Entity /\ shown[q][f] \subseteq Rows(f)
      BY <1>13 DEF TaggerInv
    <2> QED
      BY <1>12, <1>16, <2>1
  <1>20. ASSUME NEW k \in Taken' \cup retired' PROVE k <= counter'
    <2>1. k \in Num /\ k \in Int
      BY <1>1, <1>12, <1>4, CountAssumption DEF TypeOK, Num, Taken
    <2>2. CASE k = n
      BY <1>14, <2>2
    <2>3. CASE k \in Taken \cup retired
      <3>1. k <= counter
        BY <2>3 DEF TaggerInv
      <3> QED
        BY <1>4, <1>14, <2>1, <3>1
    <2> QED
      BY <1>1, <1>12, <2>2, <2>3
  <1>21. proc[p]' = P
    BY <1>8
  <1>22. ASSUME NEW f \in Alive' PROVE P.map[f] \subseteq Rows(f)'
    BY <1>1, <1>5, <1>6, <1>12, <1>13 DEF Holds
  <1>23. Holds(proc[p])'
    BY <1>2, <1>6, <1>21, <1>22 DEF Holds
  <1>24. ASSUME NEW k \in retired
         PROVE  (k <= n \/ k \in P.gone) /\ (P.sig = "current" => k <= n)
    <2>1. k \in Int /\ n \in Int /\ proc[p].counter \in Int
      BY <1>1, <1>4, CountAssumption DEF TypeOK, Num
    <2>2. k <= proc[p].counter => k <= n
      BY <1>4, <2>1
    <2> QED
      BY <1>1, <1>6, <2>2 DEF Recalls, Walking
  <1>25. Recalls(proc[p])'
    BY <1>1, <1>6, <1>21, <1>24 DEF Recalls
  <1> QED
    BY <1>1, <1>10, <1>12, <1>13, <1>18, <1>19, <1>20, <1>23, <1>25, CommitKeeps DEF TaggerInv

LEMMA InsertKeeps ==
  ASSUME TaggerInv, NEW p \in Proc, Insert(p)
  PROVE  TaggerInv'
  <1> DEFINE n == proc[p].num
  <1>1. PICK e \in Entity :
          /\ Key(p, e)
          /\ IF Collides(n, e)
             THEN /\ Moved(p, [proc[p] EXCEPT !.pc = "recheck", !.num = 0])
                  /\ UNCHANGED <<tag, counter, shown, raced>>
             ELSE /\ tag' = [tag EXCEPT ![n] = e]
                  /\ counter' = Larger(counter, n)
                  /\ Shows(p, e, {n})
                  /\ raced' = IF proc[p].late THEN raced \cup {e} ELSE raced
                  /\ LET P == Committed(p, [proc[p] EXCEPT
                                 !.pc = "walk", !.map[e] = {n}, !.counter = n, !.num = 0,
                                 !.tries = 0, !.todo = @ \ {e}, !.late = FALSE])
                     IN proc' = [q \in Proc |-> IF q # p /\ Key(q, e) /\ Looked(q)
                                                THEN [P[q] EXCEPT !.late = TRUE] ELSE P[q]]
    BY DEF Insert
  <1>2. proc[p].pc = "insert" /\ UNCHANGED <<session, retired, faults>>
    BY DEF Insert, At
  <1>3. CASE Collides(n, e)
    <2>1. UNCHANGED <<tag, counter, session, shown, notes>>
      BY <1>1, <1>2, <1>3 DEF notes
    <2> QED
      BY <1>1, <1>2, <1>3, <2>1, CollisionKeeps
  <1>4. CASE ~ Collides(n, e)
    BY <1>1, <1>2, <1>4, InsertedKeeps DEF Advances
  <1> QED
    BY <1>3, <1>4

\* A process that starts anew believes nothing.
LEMMA AnewKeeps ==
  ASSUME TypeOK', NEW p \in Proc, proc[p]' = Fresh
  PROVE  Holds(proc[p])' /\ Recalls(proc[p])'
  <1>1. Alive' \subseteq Entity
    BY DEF Alive, TypeOK
  <1> QED
    BY <1>1, FreshIs, CountAssumption DEF Holds, Recalls, Walking

LEMMA RemoveKeeps ==
  ASSUME TaggerInv, NEW p \in Proc, Remove(p)
  PROVE  TaggerInv'
  <1>1. PICK e \in wire :
          /\ tag' = [n \in Num |-> IF tag[n] = e THEN Free ELSE tag[n]]
          /\ wire' = wire \ {e}
          /\ retired' = retired \cup Rows(e)
          /\ LET P == Committed(p, Cleaned(p))
             IN proc' = [q \in Proc |-> IF At(q, "idle") THEN P[q]
                                        ELSE [P[q] EXCEPT !.gone = @ \cup Rows(e)]]
    BY DEF Remove
  <1> DEFINE C == Committed(p, Fresh)
             R == Rows(e)
  <1>2. /\ UNCHANGED <<counter, coming, tool, shown, raced, faults>> /\ TypeOK
        /\ proc[p].pc = "idle" /\ wire \subseteq Entity /\ e \in Entity /\ e < coming
    BY DEF Remove, At, TaggerInv, TypeOK
  <1>3. /\ C \in [Proc -> ProcRecord] /\ C[p] = Fresh
        /\ \A q \in Proc : q # p =>
             /\ C[q].pc = proc[q].pc /\ C[q].map = proc[q].map
             /\ C[q].counter = proc[q].counter /\ C[q].num = proc[q].num
             /\ C[q].tries = proc[q].tries /\ C[q].todo = proc[q].todo
             /\ C[q].gone = proc[q].gone /\ C[q].sig # "current"
    BY FreshIs, CommittedIs
  <1>4. proc' = [q \in Proc |-> IF proc[q].pc = "idle" THEN C[q]
                                ELSE [C[q] EXCEPT !.gone = @ \cup R]]
    BY <1>1 DEF Cleaned, At
  <1>5. R \subseteq Num /\ R \subseteq Taken
    BY <1>2 DEF Rows, Taken, Free, Entity
  <1> HIDE DEF C, R
  <1>6. ASSUME NEW q \in Proc
        PROVE  /\ proc'[q] \in ProcRecord
               /\ q # p => Follows(q)
    <2>1. C[q] \in ProcRecord
      BY <1>3
    <2>2. CASE proc[q].pc = "idle"
      <3>1. proc'[q] = C[q]
        BY <1>4, <2>2
      <3> QED
        BY <1>3, <2>1, <2>2, <3>1 DEF Follows
    <2>3. CASE proc[q].pc # "idle"
      <3> DEFINE G == C[q].gone \cup R
      <3>1. G \in SUBSET Num
        BY <1>5, <2>1 DEF ProcRecord
      <3>2. proc'[q] = [C[q] EXCEPT !.gone = G]
        BY <1>4, <2>3
      <3> HIDE DEF G
      <3>3. /\ proc'[q] \in ProcRecord
            /\ proc'[q].pc = C[q].pc /\ proc'[q].map = C[q].map
            /\ proc'[q].counter = C[q].counter /\ proc'[q].num = C[q].num
            /\ proc'[q].tries = C[q].tries /\ proc'[q].todo = C[q].todo
            /\ proc'[q].gone = G /\ proc'[q].sig = C[q].sig
        BY <2>1, <3>1, <3>2 DEF ProcRecord
      <3>4. C[q].gone \subseteq G /\ R \subseteq G
        BY DEF G
      <3>5. retired' \subseteq retired \cup G
        BY <1>1, <3>4 DEF R
      <3> QED
        BY <1>3, <3>3, <3>4, <3>5 DEF Follows
    <2> QED
      BY <2>2, <2>3
  <1>7. proc' \in [Proc -> ProcRecord] /\ proc[p]' = Fresh
    BY <1>2, <1>3, <1>4, <1>6
  <1>8. Alive' \subseteq Alive /\ e \notin Alive' /\ Alive \subseteq Entity
    BY <1>1, <1>2 DEF Alive, Entity, TypeOK
  <1>9. ASSUME NEW f \in Alive' PROVE Rows(f) \subseteq Rows(f)'
    BY <1>1, <1>8 DEF Rows
  <1>10. tag' \in [Num -> Entity \cup {Orphan, Free}] /\ Taken' \subseteq Taken
    BY <1>1, <1>2 DEF TypeOK, Taken
  <1>11. retired' \subseteq Num
    BY <1>1, <1>2, <1>5 DEF R, TypeOK
  <1>12. TypeOK'
    BY <1>1, <1>2, <1>7, <1>10, <1>11 DEF TypeOK, ProcRecord
  <1>13. \A f \in wire' : f < coming'
    BY <1>1, <1>2 DEF TaggerInv
  <1>14. \A q \in Proc, f \in Alive' : shown'[q][f] \subseteq Rows(f)'
    BY <1>2, <1>8, <1>9 DEF TaggerInv
  <1>15. \A n \in Taken' \cup retired' : n <= counter'
    BY <1>1, <1>2, <1>5, <1>10 DEF TaggerInv, R
  <1>16. Holds(proc[p])' /\ Recalls(proc[p])'
    BY <1>7, <1>12, AnewKeeps
  <1> QED
    BY <1>6, <1>8, <1>9, <1>12, <1>13, <1>14, <1>15, <1>16, CommitKeeps

LEMMA BackfillKeeps ==
  ASSUME TaggerInv, NEW p \in Proc, Backfill(p)
  PROVE  TaggerInv'
  <1>1. PICK n \in Lowest(Rows(Orphan)), e \in tool : tag' = [tag EXCEPT ![n] = e]
    BY DEF Backfill
  <1>2. /\ proc' = Committed(p, Fresh) /\ TypeOK
        /\ UNCHANGED <<counter, wire, coming, tool, shown, retired, raced, faults>>
    BY DEF Backfill, TaggerInv, session, notes
  <1>3. e \in Entity /\ n \in Num /\ tag[n] = Orphan
    BY <1>2 DEF TypeOK, Lowest, Rows
  <1>4. tag[n] \notin Entity /\ n \in Taken
    BY <1>3 DEF Orphan, Entity, Taken, Free
  <1>5. /\ tag' \in [Num -> Entity \cup {Orphan, Free}]
        /\ \A f \in Entity : Rows(f) \subseteq Rows(f)'
        /\ Taken' \subseteq Taken \cup {n}
    BY <1>1, <1>2, <1>3, <1>4, AssignIs
  <1>6. /\ proc' \in [Proc -> ProcRecord] /\ proc[p]' = Fresh
        /\ \A q \in Proc : q # p => Follows(q)
    BY <1>2, FreshIs, CommittedIs DEF Follows
  <1>7. Alive' = Alive /\ Alive \subseteq Entity
    BY <1>2 DEF Alive, TypeOK
  <1>8. TypeOK'
    BY <1>2, <1>5, <1>6 DEF TypeOK, ProcRecord
  <1>9. \A q \in Proc, f \in Alive' : shown'[q][f] \subseteq Rows(f)'
    BY <1>2, <1>5, <1>7 DEF TaggerInv
  <1>10. \A k \in Taken' \cup retired' : k <= counter'
    BY <1>2, <1>4, <1>5 DEF TaggerInv
  <1>11. Holds(proc[p])' /\ Recalls(proc[p])'
    BY <1>6, <1>8, AnewKeeps
  <1> QED
    BY <1>2, <1>5, <1>6, <1>7, <1>8, <1>9, <1>10, <1>11, CommitKeeps DEF TaggerInv

-----------------------------------------------------------------------------
(* The session grows and shrinks. *)

LEMMA SessionKeeps ==
  ASSUME TaggerInv, UNCHANGED <<tag, counter, proc, shown, retired>>,
         TypeOK', \A e \in wire' : e < coming', Alive' \subseteq Alive
  PROVE  TaggerInv'
  <1>1. Taken' = Taken /\ \A f : Rows(f)' = Rows(f)
    BY DEF Taken, Rows
  <1>2. ASSUME NEW q \in Proc PROVE Holds(proc[q])' /\ Recalls(proc[q])'
    <2>1. Holds(proc[q]) /\ Recalls(proc[q])
      BY DEF TaggerInv
    <2>2. Holds(proc[q])'
      BY <1>1, <2>1 DEF Holds
    <2>3. Recalls(proc[q])'
      BY <2>1 DEF Recalls
    <2> QED
      BY <2>2, <2>3
  <1>3. \A q \in Proc, e \in Alive' : shown'[q][e] \subseteq Rows(e)'
    BY <1>1 DEF TaggerInv
  <1>4. \A n \in Taken' \cup retired' : n <= counter'
    BY <1>1 DEF TaggerInv
  <1> QED
    BY <1>2, <1>3, <1>4 DEF TaggerInv

LEMMA RemoveFailsKeeps ==
  ASSUME TaggerInv, NEW p \in Proc, RemoveFails(p)
  PROVE  TaggerInv'
  <1>1. /\ UNCHANGED <<tag, counter, coming, tool, proc, shown, retired, raced>>
        /\ wire' \subseteq wire /\ faults' = faults + 1 /\ faults < MaxFaults
    BY DEF RemoveFails
  <1>2. TypeOK'
    <2>1. faults' \in 0..MaxFaults
      BY <1>1, CountAssumption DEF TaggerInv, TypeOK
    <2> QED
      BY <1>1, <2>1 DEF TaggerInv, TypeOK
  <1>3. Alive' \subseteq Alive /\ \A e \in wire' : e < coming'
    BY <1>1 DEF Alive, TaggerInv
  <1> QED
    BY <1>1, <1>2, <1>3, SessionKeeps

LEMMA AddKeeps ==
  ASSUME TaggerInv, Add
  PROVE  TaggerInv'
  <1>1. /\ UNCHANGED <<tag, counter, tool, proc, shown, retired, raced, faults>>
        /\ wire' = wire \cup {coming} /\ coming' = coming + 1 /\ coming <= Entities
        /\ TypeOK /\ \A e \in wire : e < coming
    BY DEF Add, notes, TaggerInv
  <1>2. coming \in Entity /\ coming' \in 1..Entities + 1 /\ wire \subseteq Entity
    BY <1>1, CountAssumption DEF TypeOK, Entity
  <1>3. TypeOK'
    BY <1>1, <1>2 DEF TypeOK
  <1>4. Alive' \subseteq Alive
    BY <1>1, <1>2, CountAssumption DEF Alive, Entity
  <1>5. ASSUME NEW e \in wire' PROVE e < coming'
    BY <1>1, <1>2, CountAssumption DEF Entity
  <1> QED
    BY <1>1, <1>3, <1>4, <1>5, SessionKeeps

-----------------------------------------------------------------------------
(* The invariant. *)

LEMMA InitHolds ==
  ASSUME Init
  PROVE  TaggerInv
  <1>1. /\ counter \in Orphans /\ tag = [n \in Num |-> IF n <= counter THEN Orphan ELSE Free]
        /\ wire = {} /\ coming = 1 /\ tool \in ToolSets
        /\ proc = [p \in Proc |-> Fresh] /\ shown = [p \in Proc |-> NoMap]
        /\ retired = {} /\ raced = {} /\ faults = 0
    BY DEF Init
  <1>2. proc \in [Proc -> ProcRecord] /\ \A p \in Proc : proc[p] = Fresh
    BY <1>1, FreshIs
  <1>3. shown \in [Proc -> [Entity -> SUBSET Num]] /\ \A p \in Proc, e \in Entity : shown[p][e] = {}
    BY <1>1 DEF NoMap
  <1>4. tag \in [Num -> Entity \cup {Orphan, Free}] /\ tool \subseteq Entity
    BY <1>1, ToolAssumption
  <1>5. counter \in 0..MaxTag /\ coming \in 1..Entities + 1 /\ faults \in 0..MaxFaults
    BY <1>1, CountAssumption
  <1>6. TypeOK
    BY <1>1, <1>2, <1>3, <1>4, <1>5 DEF TypeOK, ProcRecord
  <1>7. \A n \in Taken \cup retired : n <= counter
    BY <1>1, CountAssumption DEF Taken, Num
  <1>8. \A p \in Proc : Holds(proc[p]) /\ Recalls(proc[p])
    BY <1>2, <1>6, FreshKeeps
  <1>9. \A p \in Proc, e \in Alive : shown[p][e] \subseteq Rows(e)
    BY <1>1, <1>3 DEF Alive
  <1> QED
    BY <1>1, <1>6, <1>7, <1>8, <1>9 DEF TaggerInv

LEMMA NextHolds ==
  ASSUME TaggerInv, [Next]_vars
  PROVE  TaggerInv'
  <1>1. CASE UNCHANGED vars
    <2>1. TypeOK' /\ Alive' = Alive /\ \A e \in wire' : e < coming'
      BY <1>1 DEF vars, TaggerInv, TypeOK, Alive
    <2> QED
      BY <1>1, <2>1, SessionKeeps DEF vars
  <1>2. ASSUME NEW p \in Proc, Begin(p) PROVE TaggerInv'
    BY <1>2, BeginKeeps
  <1>3. ASSUME NEW p \in Proc, Step(p) PROVE TaggerInv'
    BY <1>3, LoadKeeps, BoundKeeps, LookKeeps, SyncKeeps, ObserveKeeps, PersistedKeeps,
       FindOrphanKeeps, AdoptKeeps, RematchKeeps, ProposeKeeps, InsertKeeps, AdvanceKeeps, DoneKeeps DEF Step
  <1>4. ASSUME NEW p \in Proc, Fail(p) PROVE TaggerInv'
    BY <1>4, FailKeeps
  <1>5. ASSUME NEW p \in Proc, Remove(p) \/ RemoveFails(p) \/ Backfill(p) PROVE TaggerInv'
    BY <1>5, RemoveKeeps, RemoveFailsKeeps, BackfillKeeps
  <1>6. CASE Add
    BY <1>6, AddKeeps
  <1> QED
    BY <1>1, <1>2, <1>3, <1>4, <1>5, <1>6 DEF Next

LEMMA InvariantHolds == Spec => []TaggerInv
  BY InitHolds, NextHolds, PTL DEF Spec

\* The variables have their types: no number a process holds is past the last,
\* and no content is tried more often than MAX_TAG_ALLOC_RETRIES.
THEOREM TaggerTypes == Spec => []TypeOK
  BY InvariantHolds, PTL DEF TaggerInv

\* The number the model was shown is the row of the content it was shown with.
THEOREM ShownNumberIsRow == Spec => []ShownIsRow
  <1>1. TaggerInv => ShownIsRow
    BY DEF TaggerInv, ShownIsRow, Alive
  <1> QED
    BY <1>1, InvariantHolds, PTL

-----------------------------------------------------------------------------
(* Numbers of removed rows. *)

\* Only an insert gives a free number to a content.
LEMMA OnlyInserts ==
  ASSUME TaggerInv, [Next]_vars, NEW n \in Num, tag[n] = Free, tag'[n] # Free
  PROVE  \E p \in Proc : Insert(p) /\ proc[p].pc = "insert" /\ proc[p].num = n
  <1>1. tag \in [Num -> Entity \cup {Orphan, Free}]
    BY DEF TaggerInv, TypeOK
  <1>2. tag' # tag
    OBVIOUS
  <1>3. ASSUME NEW p \in Proc, Claim(p) \/ Adopt(p) PROVE FALSE
    <2>1. /\ tag[proc[p].num] = Orphan
          /\ \E e \in Entity : tag' = [tag EXCEPT ![proc[p].num] = e]
      BY <1>2, <1>3 DEF Claim, Adopt, Adopts, StillOrphan
    <2>2. proc[p].num # n
      BY <2>1 DEF Orphan, Free
    <2> QED
      BY <1>1, <2>1, <2>2
  <1>4. ASSUME NEW p \in Proc, Backfill(p) PROVE FALSE
    <2>1. PICK m \in Lowest(Rows(Orphan)), e \in tool : tag' = [tag EXCEPT ![m] = e]
      BY <1>4 DEF Backfill
    <2>2. m # n
      BY <2>1 DEF Lowest, Rows, Orphan, Free
    <2> QED
      BY <1>1, <2>1, <2>2
  <1>5. ASSUME NEW p \in Proc, Remove(p) PROVE FALSE
    BY <1>5 DEF Remove
  <1>6. ASSUME NEW p \in Proc, Insert(p) PROVE proc[p].num = n /\ proc[p].pc = "insert"
    <2>1. \E e \in Entity : tag' = [tag EXCEPT ![proc[p].num] = e]
      BY <1>2, <1>6 DEF Insert
    <2> QED
      BY <1>1, <1>6, <2>1 DEF Insert, At
  <1>7. PICK p \in Proc : Insert(p)
    <2>1. ASSUME NEW p \in Proc, Begin(p) PROVE FALSE
      BY <1>2, <2>1 DEF Begin, CacheHit, Reload
    <2>2. ASSUME NEW p \in Proc, Fail(p) \/ RemoveFails(p) PROVE FALSE
      BY <1>2, <2>2 DEF Fail, RemoveFails
    <2>3. ASSUME NEW p \in Proc, Step(p), ~ Claim(p), ~ Adopt(p), ~ Insert(p) PROVE FALSE
      BY <1>2, <2>3 DEF Step, LoadCounter, LoadRows, Bound, Lookup, Sync, Observe, Persisted,
                        LookupTool, FindOrphan, Rematch, Relook, Propose, Recheck, Advance, Done
    <2>4. ~ Add /\ ~ UNCHANGED vars
      BY <1>2 DEF Add, vars
    <2> QED
      BY <1>3, <1>4, <1>5, <2>1, <2>2, <2>3, <2>4 DEF Next
  <1> QED
    BY <1>6, <1>7

\* The number of a removed row is not given again, except by a pass that was
\* under way when the row was removed.
THEOREM RetiredStaysRetired == Spec => NoReissue
  <1>1. ASSUME TaggerInv, [Next]_vars, NEW n \in retired, tag[n] = Free, tag'[n] # Free
        PROVE  \E p \in Proc : At(p, "insert") /\ proc[p].num = n /\ n \in proc[p].gone
    <2>1. n \in Num
      BY <1>1 DEF TaggerInv, TypeOK
    <2>2. PICK p \in Proc : Insert(p) /\ proc[p].pc = "insert" /\ proc[p].num = n
      BY <1>1, <2>1, OnlyInserts
    <2>3. proc[p].counter < n /\ (n <= proc[p].counter \/ n \in proc[p].gone)
      BY <1>1, <2>2 DEF TaggerInv, Recalls, Walking
    <2>4. n \in Int /\ proc[p].counter \in Int
      BY <1>1, <2>1, CountAssumption DEF Num, TaggerInv, TypeOK
    <2> QED
      BY <2>2, <2>3, <2>4 DEF At
  <1>2. TaggerInv /\ [Next]_vars
          => [\A n \in retired : tag[n] = Free /\ tag'[n] # Free
                => \E p \in Proc : At(p, "insert") /\ proc[p].num = n /\ n \in proc[p].gone]_vars
    BY <1>1
  <1> QED
    BY <1>2, InvariantHolds, PTL DEF Spec, NoReissue

-----------------------------------------------------------------------------
(* The prefix.                                                             *)

Lookers == {"max", "insert", "advance"}
Adopters == {"claim", "persisted", "lookup", "orphan", "adopt", "rematch"}

\* A process that is about to insert has shown no number with the content; if
\* a text has got a row since it was looked up, the process counts as late; and
\* only tool calls adopt.
Searching(p, r) ==
  \A e \in Entity : IsFirst(e, r.todo) =>
    /\ r.pc \in Lookers /\ e \in Alive => shown[p][e] = {}
    /\ r.pc \in Lookers /\ e \notin tool /\ Rows(e) # {} => r.late = TRUE
    /\ r.pc \in Adopters => e \in tool

\* But for the contents two processes raced for, no content has two rows.
Steady ==
  /\ \A e \in Entity \ raced : \A m, n \in Rows(e) : m = n
  /\ \A p \in Proc : Searching(p, proc[p])

\* A process that is neither about to insert nor about to adopt.
LEMMA NotSearching ==
  ASSUME NEW p, NEW r, r.pc \notin Lookers \cup Adopters
  PROVE  Searching(p, r)
  BY DEF Searching

LEMMA StillSearching ==
  ASSUME NEW p, NEW r, NEW P, Searching(p, r), P.todo = r.todo, P.late = r.late,
         \/ P.pc \in Lookers /\ r.pc \in Lookers
         \/ P.pc \in Adopters /\ r.pc \in Adopters
  PROVE  Searching(p, P)
  <1>1. Lookers \cap Adopters = {}
    BY DEF Lookers, Adopters
  <1> QED
    BY <1>1 DEF Searching

\* A step that writes no row, by a process that shows nothing or is not looking.
LEMMA QuietSteady ==
  ASSUME TaggerInv, Steady, NEW p \in Proc, NEW P, Moved(p, P),
         UNCHANGED <<tag, wire, coming, tool, raced>>,
         \A q \in Proc \ {p} : shown'[q] = shown[q],
         P.pc \in Lookers \cup Adopters => shown'[p] = shown[p] /\ Searching(p, P)
  PROVE  Steady'
  <1>1. proc'[p] = P /\ \A q \in Proc \ {p} : proc'[q] = proc[q]
    BY DEF Moved, TaggerInv, TypeOK
  <1>2. Alive' = Alive /\ \A f : Rows(f)' = Rows(f)
    BY DEF Alive, Rows
  <1>3. ASSUME NEW q \in Proc PROVE Searching(q, proc[q])'
    <2>1. CASE q # p
      BY <1>1, <1>2, <2>1 DEF Steady, Searching
    <2>2. CASE q = p /\ P.pc \in Lookers \cup Adopters
      <3>1. proc'[q] = P /\ shown'[q] = shown[q] /\ Searching(q, P)
        BY <1>1, <2>2
      <3> QED
        BY <1>2, <3>1 DEF Searching
    <2>3. CASE q = p /\ P.pc \notin Lookers \cup Adopters
      <3>1. proc'[q].pc \notin Lookers \cup Adopters
        BY <1>1, <2>3
      <3> QED
        BY <3>1 DEF Searching
    <2> QED
      BY <2>1, <2>2, <2>3
  <1> QED
    BY <1>2, <1>3 DEF Steady

LEMMA FindSteady ==
  ASSUME TaggerInv, Steady, NEW p \in Proc, NEW e \in Entity, Key(p, e),
         NEW next \in {"orphan", "max", "advance"}, Find(p, e, next),
         next = "orphan" => e \in tool,
         UNCHANGED <<tag, counter, session, shown, notes>>
  PROVE  Steady'
  <1>1. proc[p] \in ProcRecord /\ UNCHANGED <<tag, wire, coming, tool, raced, shown>>
    BY RecordIs DEF session, notes
  <1>2. CASE Rows(e) = {} /\ Moved(p, [proc[p] EXCEPT !.pc = next, !.late = FALSE])
    <2> DEFINE P == [proc[p] EXCEPT !.pc = next, !.late = FALSE]
    <2>1. P.pc = next /\ P.todo = proc[p].todo
      BY <1>1 DEF ProcRecord
    <2>2. Moved(p, P)
      BY <1>2
    <2> HIDE DEF P
    <2>3. ASSUME NEW f \in Entity, IsFirst(f, P.todo) PROVE f = e
      <3>1. proc[p].todo \in SUBSET Entity
        BY <1>1 DEF ProcRecord
      <3> QED
        BY <2>1, <2>3, <3>1, FirstIsOne DEF Key
    <2>4. e \in Alive => shown[p][e] = {}
      BY <1>2 DEF TaggerInv
    <2>5. next \in Adopters => e \in tool
      BY DEF Adopters
    <2>6. Searching(p, P)
      BY <1>2, <2>1, <2>3, <2>4, <2>5 DEF Searching
    <2> QED
      BY <1>1, <2>2, <2>6, QuietSteady
  <1>3. ASSUME NEW n \in Lowest(Rows(e)),
               Moved(p, [proc[p] EXCEPT !.pc = "sync", !.map[e] = {n}, !.num = n])
        PROVE  Steady'
    <2> DEFINE P == [proc[p] EXCEPT !.pc = "sync", !.map[e] = {n}, !.num = n]
    <2>1. P.pc = "sync"
      BY <1>1 DEF ProcRecord
    <2>2. Moved(p, P)
      BY <1>3
    <2> HIDE DEF P
    <2>3. P.pc \notin Lookers \cup Adopters
      BY <2>1 DEF Lookers, Adopters
    <2> QED
      BY <1>1, <2>2, <2>3, QuietSteady
  <1> QED
    BY <1>2, <1>3 DEF Find

LEMMA LookSteady ==
  ASSUME TaggerInv, Steady, NEW p \in Proc,
         Lookup(p) \/ LookupTool(p) \/ Relook(p) \/ Recheck(p)
  PROVE  Steady'
  <1>1. PICK e \in Entity, next \in {"orphan", "max", "advance"} :
          Key(p, e) /\ Find(p, e, next) /\ (next = "orphan" => At(p, "lookup"))
    BY DEF Lookup, LookupTool, Relook, Recheck, TaggerInv, TypeOK
  <1>2. next = "orphan" => e \in tool
    BY <1>1 DEF Steady, Searching, Key, At, Adopters
  <1>3. UNCHANGED <<tag, counter, session, shown, notes>>
    BY DEF Lookup, LookupTool, Relook, Recheck
  <1> QED
    BY <1>1, <1>2, <1>3, FindSteady

\* An observation, which only tool calls begin.
LEMMA ObserveSteady ==
  ASSUME TaggerInv, Steady, NEW p \in Proc, Observe(p) \/ Persisted(p)
  PROVE  Steady'
  <1>1. /\ proc[p] \in ProcRecord /\ proc[p].todo \in SUBSET Entity /\ Searching(p, proc[p])
        /\ UNCHANGED <<tag, wire, coming, tool, raced, shown>>
    BY RecordIs DEF Observe, Persisted, Steady, ProcRecord, session, notes
  <1>2. CASE Observe(p)
    <2>1. PICK e \in tool : Key(p, e)
      BY <1>2 DEF Observe
    <2>2. PICK P : Moved(p, P) /\ P.pc \in {"persisted", "claim"} /\ P.todo = proc[p].todo
      <3>1. CASE Moved(p, [proc[p] EXCEPT !.pc = "persisted"])
        <4> DEFINE P == [proc[p] EXCEPT !.pc = "persisted"]
        <4>1. P.pc = "persisted" /\ P.todo = proc[p].todo /\ Moved(p, P)
          BY <1>1, <3>1 DEF ProcRecord
        <4> QED
          BY <4>1
      <3>2. ASSUME NEW n, Moved(p, [proc[p] EXCEPT !.pc = "claim", !.num = n])
            PROVE  \E P : Moved(p, P) /\ P.pc \in {"persisted", "claim"} /\ P.todo = proc[p].todo
        <4> DEFINE P == [proc[p] EXCEPT !.pc = "claim", !.num = n]
        <4>1. P.pc = "claim" /\ P.todo = proc[p].todo /\ Moved(p, P)
          BY <1>1, <3>2 DEF ProcRecord
        <4> QED
          BY <4>1
      <3> QED
        BY <1>2, <3>1, <3>2 DEF Observe
    <2>3. ASSUME NEW f \in Entity, IsFirst(f, P.todo) PROVE f \in tool
      <3>1. e \in Entity
        BY DEF TaggerInv, TypeOK
      <3> QED
        BY <1>1, <2>1, <2>2, <2>3, <3>1, FirstIsOne DEF Key
    <2>4. P.pc \notin Lookers
      BY <2>2 DEF Lookers
    <2>5. Searching(p, P)
      BY <2>3, <2>4 DEF Searching
    <2> QED
      BY <1>1, <2>2, <2>5, QuietSteady
  <1>3. CASE Persisted(p)
    <2>1. CASE Moved(p, [proc[p] EXCEPT !.pc = "lookup"])
      <3> DEFINE P == [proc[p] EXCEPT !.pc = "lookup"]
      <3>1. P.pc = "lookup" /\ P.todo = proc[p].todo /\ P.late = proc[p].late
        BY <1>1 DEF ProcRecord
      <3> HIDE DEF P
      <3>2. Searching(p, P)
        BY <1>1, <1>3, <3>1, StillSearching DEF Lookers, Adopters, Persisted, At
      <3> QED
        BY <1>1, <2>1, <3>2, QuietSteady DEF P
    <2>2. ASSUME NEW e, NEW n, Moved(p, [proc[p] EXCEPT !.pc = "walk", !.map[e] = {n}])
          PROVE  Steady'
      <3> DEFINE P == [proc[p] EXCEPT !.pc = "walk", !.map[e] = {n}]
      <3>1. P.pc = "walk"
        BY <1>1 DEF ProcRecord
      <3> HIDE DEF P
      <3>2. P.pc \notin Lookers \cup Adopters
        BY <3>1 DEF Lookers, Adopters
      <3> QED
        BY <1>1, <2>2, <3>2, QuietSteady DEF P
    <2> QED
      BY <1>3, <2>1, <2>2 DEF Persisted
  <1> QED
    BY <1>2, <1>3

\* The steps that end a search, or begin none.
LEMMA RestSteady ==
  ASSUME TaggerInv, Steady, NEW p \in Proc,
         \/ Begin(p) \/ LoadCounter(p) \/ LoadRows(p) \/ Done(p) \/ Fail(p)
  PROVE  Steady'
  <1>1. proc[p] \in ProcRecord
    BY RecordIs
  <1>2. UNCHANGED <<tag, wire, coming, tool, raced, shown>>
    BY DEF Begin, CacheHit, Reload, LoadCounter, LoadRows, Done, Fail, session, notes
  <1>3. PICK P : Moved(p, P) /\ P.pc \in {"walk", "counter", "rows", "idle"}
    <2>1. CASE CacheHit(p)
      <3> DEFINE P == [proc[p] EXCEPT !.pc = "walk", !.todo = wire, !.gone = {}]
      <3>1. P.pc = "walk" /\ Moved(p, P)
        BY <1>1, <2>1 DEF CacheHit, ProcRecord
      <3> QED
        BY <3>1
    <2>2. CASE Reload(p)
      <3> DEFINE P == [proc[p] EXCEPT !.pc = "counter", !.todo = wire, !.sig = "current", !.gone = {}]
      <3>1. P.pc = "counter" /\ Moved(p, P)
        BY <1>1, <2>2 DEF Reload, ProcRecord
      <3> QED
        BY <3>1
    <2>3. CASE LoadCounter(p)
      <3> DEFINE P == [proc[p] EXCEPT !.pc = "rows", !.num = counter]
      <3>1. P.pc = "rows" /\ Moved(p, P)
        BY <1>1, <2>3 DEF LoadCounter, ProcRecord
      <3> QED
        BY <3>1
    <2>4. CASE LoadRows(p)
      <3>1. PICK c, m : Moved(p, [proc[p] EXCEPT !.pc = "walk", !.num = 0, !.counter = c, !.map = m])
        BY <2>4 DEF LoadRows
      <3> DEFINE P == [proc[p] EXCEPT !.pc = "walk", !.num = 0, !.counter = c, !.map = m]
      <3>2. P.pc = "walk"
        BY <1>1 DEF ProcRecord
      <3> QED
        BY <3>1, <3>2
    <2>5. CASE Done(p)
      <3> DEFINE P == [proc[p] EXCEPT !.pc = "idle", !.gone = {}]
      <3>1. P.pc = "idle" /\ Moved(p, P)
        BY <1>1, <2>5 DEF Done, ProcRecord
      <3> QED
        BY <3>1
    <2>6. CASE Fail(p)
      BY <2>6, FreshIs DEF Fail
    <2> QED
      BY <2>1, <2>2, <2>3, <2>4, <2>5, <2>6 DEF Begin
  <1>4. P.pc \notin Lookers \cup Adopters
    BY <1>3 DEF Lookers, Adopters
  <1> QED
    BY <1>2, <1>3, <1>4, QuietSteady

\* The retries.
LEMMA RetrySteady ==
  ASSUME TaggerInv, Steady, NEW p \in Proc,
         FindOrphan(p) \/ Rematch(p) \/ Propose(p) \/ Advance(p)
  PROVE  Steady'
  <1>1. proc[p] \in ProcRecord /\ Searching(p, proc[p])
    BY RecordIs DEF Steady
  <1>2. /\ UNCHANGED <<tag, counter, session, shown, notes>>
        /\ UNCHANGED <<tag, wire, coming, tool, raced, shown>>
    BY DEF FindOrphan, Rematch, Propose, Advance, session, notes
  <1>3. CASE FindOrphan(p)
    <2>1. CASE Moved(p, [proc[p] EXCEPT !.pc = "relook", !.tries = 0])
      <3> DEFINE P == [proc[p] EXCEPT !.pc = "relook", !.tries = 0]
      <3>1. P.pc = "relook"
        BY <1>1 DEF ProcRecord
      <3> HIDE DEF P
      <3>2. P.pc \notin Lookers \cup Adopters
        BY <3>1 DEF Lookers, Adopters
      <3> QED
        BY <1>2, <2>1, <3>2, QuietSteady DEF P
    <2>2. ASSUME NEW n \in Lowest(Rows(Orphan)), Moved(p, [proc[p] EXCEPT !.pc = "adopt", !.num = n])
          PROVE  Steady'
      <3> DEFINE P == [proc[p] EXCEPT !.pc = "adopt", !.num = n]
      <3>1. P.pc = "adopt" /\ P.todo = proc[p].todo /\ P.late = proc[p].late
        BY <1>1 DEF ProcRecord
      <3> HIDE DEF P
      <3>2. Searching(p, P)
        BY <1>1, <1>3, <3>1, StillSearching DEF Lookers, Adopters, FindOrphan, At
      <3> QED
        BY <1>2, <2>2, <3>2, QuietSteady DEF P
    <2> QED
      BY <1>3, <2>1, <2>2 DEF FindOrphan
  <1>4. CASE Rematch(p)
    <2>1. PICK e \in Entity :
            /\ Key(p, e)
            /\ \/ Moved(p, [proc[p] EXCEPT !.pc = "orphan", !.tries = @ + 1])
               \/ Find(p, e, "orphan")
      BY <1>4 DEF Rematch
    <2>2. e \in tool
      BY <1>1, <1>4, <2>1 DEF Searching, Rematch, At, Key, Adopters
    <2>3. CASE Moved(p, [proc[p] EXCEPT !.pc = "orphan", !.tries = @ + 1])
      <3> DEFINE P == [proc[p] EXCEPT !.pc = "orphan", !.tries = @ + 1]
      <3>1. P.pc = "orphan" /\ P.todo = proc[p].todo /\ P.late = proc[p].late
        BY <1>1 DEF ProcRecord
      <3> HIDE DEF P
      <3>2. Searching(p, P)
        BY <1>1, <1>4, <3>1, StillSearching DEF Lookers, Adopters, Rematch, At
      <3> QED
        BY <1>2, <2>3, <3>2, QuietSteady DEF P
    <2>4. CASE Find(p, e, "orphan")
      BY <1>2, <2>1, <2>2, <2>4, FindSteady
    <2> QED
      BY <2>1, <2>3, <2>4
  <1>5. CASE Propose(p)
    <2>1. PICK n : Moved(p, [proc[p] EXCEPT !.pc = "insert", !.num = n])
      BY <1>5 DEF Propose
    <2> DEFINE P == [proc[p] EXCEPT !.pc = "insert", !.num = n]
    <2>2. P.pc = "insert" /\ P.todo = proc[p].todo /\ P.late = proc[p].late
      BY <1>1 DEF ProcRecord
    <2> HIDE DEF P
    <2>3. Searching(p, P)
      BY <1>1, <1>5, <2>2, StillSearching DEF Lookers, Adopters, Propose, At
    <2> QED
      BY <1>2, <2>1, <2>3, QuietSteady DEF P
  <1>6. CASE Advance(p)
    <2>1. CASE Moved(p, Fresh)
      <3>1. Fresh.pc \notin Lookers \cup Adopters
        BY FreshIs DEF Lookers, Adopters
      <3> QED
        BY <1>2, <2>1, <3>1, QuietSteady
    <2>2. ASSUME NEW c, Moved(p, [proc[p] EXCEPT !.pc = "max", !.tries = @ + 1, !.counter = c])
          PROVE  Steady'
      <3> DEFINE P == [proc[p] EXCEPT !.pc = "max", !.tries = @ + 1, !.counter = c]
      <3>1. P.pc = "max" /\ P.todo = proc[p].todo /\ P.late = proc[p].late
        BY <1>1 DEF ProcRecord
      <3> HIDE DEF P
      <3>2. Searching(p, P)
        BY <1>1, <1>6, <3>1, StillSearching DEF Lookers, Adopters, Advance, At
      <3> QED
        BY <1>2, <2>2, <3>2, QuietSteady DEF P
    <2> QED
      BY <1>6, <2>1, <2>2 DEF Advance
  <1> QED
    BY <1>3, <1>4, <1>5, <1>6

\* What a step shows changes for one process and one content only.
LEMMA ShowsOnly ==
  ASSUME TaggerInv, NEW p \in Proc, NEW e \in Entity, NEW S, Shows(p, e, S)
  PROVE  /\ \A q \in Proc \ {p} : shown'[q] = shown[q]
         /\ \A f \in Entity \ {e} : shown'[p][f] = shown[p][f]
         /\ shown'[p][e] = S
  <1>1. shown \in [Proc -> [Entity -> SUBSET Num]]
    BY DEF TaggerInv, TypeOK
  <1>2. shown' = [shown EXCEPT ![p] = [shown[p] EXCEPT ![e] = S]]
    BY DEF Shows
  <1>3. shown'[p] = [shown[p] EXCEPT ![e] = S] /\ shown[p] \in [Entity -> SUBSET Num]
    BY <1>1, <1>2
  <1> QED
    BY <1>1, <1>2, <1>3

LEMMA BoundSteady ==
  ASSUME TaggerInv, Steady, NEW p \in Proc, Bound(p)
  PROVE  Steady'
  <1>1. PICK e \in Entity : /\ Shows(p, e, proc[p].map[e])
                            /\ Moved(p, [proc[p] EXCEPT !.todo = @ \ {e}])
    BY DEF Bound
  <1> DEFINE P == [proc[p] EXCEPT !.todo = @ \ {e}]
  <1>2. P.pc = "walk"
    BY RecordIs DEF Bound, At, ProcRecord
  <1> HIDE DEF P
  <1>3. P.pc \notin Lookers \cup Adopters
    BY <1>2 DEF Lookers, Adopters
  <1>4. UNCHANGED <<tag, wire, coming, tool, raced>>
    BY DEF Bound, session, notes
  <1> QED
    BY <1>1, <1>3, <1>4, ShowsOnly, QuietSteady DEF P

\* A process over a step of another: unless a text it has looked up gets a row,
\* in which case it becomes late.
LEMMA OtherSearching ==
  ASSUME Steady, NEW q \in Proc,
         proc'[q].pc = proc[q].pc, proc'[q].todo = proc[q].todo,
         shown'[q] = shown[q], tool' = tool, Alive' \subseteq Alive,
         proc'[q].late = TRUE \/ proc'[q].late = proc[q].late,
         \A f \in Entity \ tool :
           \/ Rows(f)' \subseteq Rows(f)
           \/ Key(q, f) /\ Looked(q) => proc'[q].late = TRUE
  PROVE  Searching(q, proc[q])'
  <1>1. Searching(q, proc[q])
    BY DEF Steady
  <1>2. ASSUME NEW f \in Entity, IsFirst(f, proc'[q].todo)
        PROVE  /\ proc'[q].pc \in Lookers /\ f \in Alive' => shown'[q][f] = {}
               /\ proc'[q].pc \in Lookers /\ f \notin tool' /\ Rows(f)' # {} => proc'[q].late = TRUE
               /\ proc'[q].pc \in Adopters => f \in tool'
    <2>1. /\ proc[q].pc \in Lookers /\ f \in Alive => shown[q][f] = {}
          /\ proc[q].pc \in Lookers /\ f \notin tool /\ Rows(f) # {} => proc[q].late = TRUE
          /\ proc[q].pc \in Adopters => f \in tool
          /\ Key(q, f) /\ (proc[q].pc \in Lookers => Looked(q))
      BY <1>1, <1>2 DEF Searching, Key, Lookers, Looked
    <2>2. ASSUME proc[q].pc \in Lookers, f \notin tool, Rows(f)' # {} PROVE proc'[q].late = TRUE
      <3>1. CASE Rows(f)' \subseteq Rows(f)
        <4>1. proc[q].late = TRUE
          BY <2>1, <2>2, <3>1
        <4> QED
          BY <4>1
      <3>2. CASE Key(q, f) /\ Looked(q) => proc'[q].late = TRUE
        BY <2>1, <2>2, <3>2
      <3> QED
        BY <2>2, <3>1, <3>2
    <2> QED
      BY <2>1, <2>2
  <1> QED
    BY <1>2 DEF Searching, IsFirst

LEMMA SyncSteady ==
  ASSUME TaggerInv, Steady, NEW p \in Proc, Sync(p)
  PROVE  Steady'
  <1> DEFINE c == Larger(proc[p].counter, proc[p].num)
  <1>1. PICK e \in Entity :
          /\ Shows(p, e, {proc[p].num})
          /\ proc' = Committed(p, [proc[p] EXCEPT !.pc = "walk", !.counter = c, !.num = 0,
                                                  !.tries = 0, !.todo = @ \ {e}])
    BY DEF Sync
  <1> DEFINE P == [proc[p] EXCEPT !.pc = "walk", !.counter = c, !.num = 0,
                                  !.tries = 0, !.todo = @ \ {e}]
  <1>2. proc[p] \in ProcRecord /\ UNCHANGED <<tag, wire, coming, tool, raced>>
    BY RecordIs DEF Sync, session, notes
  <1>3. proc' = Committed(p, P)
    BY <1>1
  <1>4. P.pc = "walk"
    BY <1>2 DEF ProcRecord
  <1>5. P \in ProcRecord
    <2>1. proc' \in [Proc -> ProcRecord]
      BY SyncKeeps DEF TaggerInv, TypeOK, ProcRecord
    <2>2. proc'[p] = P
      BY <1>3 DEF Committed
    <2> QED
      BY <2>1, <2>2
  <1> HIDE DEF P
  <1>6. /\ proc'[p] = P
        /\ \A q \in Proc \ {p} : /\ proc'[q].pc = proc[q].pc /\ proc'[q].todo = proc[q].todo
                                 /\ proc'[q].late = proc[q].late
    BY <1>3, <1>5, CommittedIs
  <1>7. Alive' = Alive /\ \A f : Rows(f)' = Rows(f)
    BY <1>2 DEF Alive, Rows
  <1>8. ASSUME NEW q \in Proc \ {p} PROVE Searching(q, proc[q])'
    BY <1>1, <1>2, <1>6, <1>7, ShowsOnly, OtherSearching
  <1>9. Searching(p, proc[p])'
    BY <1>4, <1>6 DEF Searching, Lookers, Adopters
  <1> QED
    BY <1>2, <1>7, <1>8, <1>9 DEF Steady

\* A row that only now becomes that of a content without any.
LEMMA AssignSteady ==
  ASSUME TaggerInv, Steady, NEW p \in Proc, NEW n \in Num, NEW e \in tool, Rows(e) = {},
         tag' = [tag EXCEPT ![n] = e], tag[n] = Orphan,
         UNCHANGED <<wire, coming, tool, raced, shown>>,
         \A q \in Proc \ {p} : /\ proc'[q].pc = proc[q].pc /\ proc'[q].todo = proc[q].todo
                               /\ proc'[q].late = proc[q].late,
         proc'[p].pc \notin Lookers \cup Adopters
  PROVE  Steady'
  <1>1. tag \in [Num -> Entity \cup {Orphan, Free}] /\ e \in Entity
    BY DEF TaggerInv, TypeOK
  <1>2. /\ Rows(e)' = {n}
        /\ \A f \in Entity \ {e} : Rows(f)' \subseteq Rows(f)
    BY <1>1 DEF Rows
  <1>3. Alive' = Alive
    BY DEF Alive
  <1>4. ASSUME NEW q \in Proc \ {p} PROVE Searching(q, proc[q])'
    BY <1>2, <1>3, OtherSearching
  <1>5. Searching(p, proc[p])'
    BY DEF Searching
  <1>6. \A f \in Entity \ raced' : \A k, m \in Rows(f)' : k = m
    BY <1>2 DEF Steady
  <1> QED
    BY <1>4, <1>5, <1>6 DEF Steady

LEMMA AdoptSteady ==
  ASSUME TaggerInv, Steady, NEW p \in Proc, Claim(p) \/ Adopt(p)
  PROVE  Steady'
  <1>1. /\ proc[p] \in ProcRecord /\ Holds(proc[p]) /\ proc[p].pc \in {"claim", "adopt"}
        /\ Searching(p, proc[p]) /\ UNCHANGED <<wire, coming, tool, raced, shown>>
    BY RecordIs DEF Claim, Adopt, At, Steady, session, notes
  <1>2. PICK taken \in {"walk", "sync"}, num \in 0..MaxTag, lost \in {"rematch", "persisted"} :
          Adopts(p, taken, num, lost)
    <2>1. 0 \in 0..MaxTag /\ proc[p].num \in 0..MaxTag
      BY <1>1, CountAssumption DEF ProcRecord
    <2> QED
      BY <2>1 DEF Claim, Adopt
  <1>3. PICK e \in Entity :
          /\ Key(p, e)
          /\ IF StillOrphan(proc[p].num)
             THEN IF Rows(e) = {}
                  THEN /\ tag' = [tag EXCEPT ![proc[p].num] = e]
                       /\ proc' = Committed(p, [proc[p] EXCEPT !.pc = taken, !.num = num,
                                                             !.map[e] = {proc[p].num}])
                  ELSE /\ Moved(p, Fresh)
                       /\ UNCHANGED tag
             ELSE /\ Moved(p, [proc[p] EXCEPT !.pc = lost, !.num = 0])
                  /\ UNCHANGED tag
    BY <1>2 DEF Adopts
  <1>4. e \in tool
    BY <1>1, <1>3 DEF Searching, Key, Adopters
  <1>5. CASE Moved(p, Fresh) /\ UNCHANGED tag
    <2>1. Fresh.pc \notin Lookers \cup Adopters
      BY FreshIs DEF Lookers, Adopters
    <2> QED
      BY <1>1, <1>5, <2>1, QuietSteady
  <1>6. CASE Moved(p, [proc[p] EXCEPT !.pc = lost, !.num = 0]) /\ UNCHANGED tag
    <2> DEFINE P == [proc[p] EXCEPT !.pc = lost, !.num = 0]
    <2>1. P.pc = lost /\ P.todo = proc[p].todo /\ P.late = proc[p].late
      BY <1>1 DEF ProcRecord
    <2> HIDE DEF P
    <2>2. Searching(p, P)
      BY <1>1, <2>1, StillSearching DEF Lookers, Adopters
    <2> QED
      BY <1>1, <1>6, <2>2, QuietSteady DEF P
  <1>7. ASSUME StillOrphan(proc[p].num), Rows(e) = {}, tag' = [tag EXCEPT ![proc[p].num] = e],
               proc' = Committed(p, [proc[p] EXCEPT !.pc = taken, !.num = num,
                                                     !.map[e] = {proc[p].num}])
        PROVE  Steady'
    <2> DEFINE P == [proc[p] EXCEPT !.pc = taken, !.num = num, !.map[e] = {proc[p].num}]
    <2>1. P.pc = taken /\ proc' = Committed(p, P)
      BY <1>1, <1>7 DEF ProcRecord
    <2>2. P \in ProcRecord
      <3>1. proc' \in [Proc -> ProcRecord]
        BY AdoptKeeps DEF TaggerInv, TypeOK, ProcRecord
      <3>2. proc'[p] = P
        BY <2>1 DEF Committed
      <3> QED
        BY <3>1, <3>2
    <2> HIDE DEF P
    <2>3. /\ proc'[p] = P
          /\ \A q \in Proc \ {p} : /\ proc'[q].pc = proc[q].pc /\ proc'[q].todo = proc[q].todo
                                   /\ proc'[q].late = proc[q].late
      BY <2>1, <2>2, CommittedIs
    <2>4. proc'[p].pc \notin Lookers \cup Adopters
      BY <2>1, <2>3 DEF Lookers, Adopters
    <2>5. proc[p].num \in Num /\ tag[proc[p].num] = Orphan
      BY <1>1, <1>7 DEF Holds, StillOrphan
    <2> QED
      BY <1>1, <1>4, <1>7, <2>3, <2>4, <2>5, AssignSteady
  <1> QED
    BY <1>3, <1>5, <1>6, <1>7

LEMMA BackfillSteady ==
  ASSUME TaggerInv, Steady, NEW p \in Proc, Backfill(p)
  PROVE  Steady'
  <1>1. PICK n \in Lowest(Rows(Orphan)), e \in tool :
          Rows(e) = {} /\ tag' = [tag EXCEPT ![n] = e]
    BY DEF Backfill
  <1>2. n \in Num /\ tag[n] = Orphan
    BY DEF Lowest, Rows
  <1>3. proc' = Committed(p, Fresh) /\ UNCHANGED <<wire, coming, tool, raced, shown>>
    BY DEF Backfill, session, notes
  <1>4. /\ proc'[p] = Fresh
        /\ \A q \in Proc \ {p} : /\ proc'[q].pc = proc[q].pc /\ proc'[q].todo = proc[q].todo
                                 /\ proc'[q].late = proc[q].late
    BY <1>3, FreshIs, CommittedIs
  <1>5. proc'[p].pc \notin Lookers \cup Adopters
    BY <1>4, FreshIs DEF Lookers, Adopters
  <1> QED
    BY <1>1, <1>2, <1>3, <1>4, <1>5, AssignSteady

LEMMA RemoveSteady ==
  ASSUME TaggerInv, Steady, NEW p \in Proc, Remove(p)
  PROVE  Steady'
  <1>1. PICK e \in wire :
          /\ tag' = [n \in Num |-> IF tag[n] = e THEN Free ELSE tag[n]]
          /\ wire' = wire \ {e}
          /\ LET P == Committed(p, Cleaned(p))
             IN proc' = [q \in Proc |-> IF At(q, "idle") THEN P[q]
                                        ELSE [P[q] EXCEPT !.gone = @ \cup Rows(e)]]
    BY DEF Remove
  <1> DEFINE C == Committed(p, Fresh)
  <1>2. /\ C \in [Proc -> ProcRecord] /\ C[p] = Fresh
        /\ \A q \in Proc \ {p} : /\ C[q].pc = proc[q].pc /\ C[q].todo = proc[q].todo
                                 /\ C[q].late = proc[q].late
    BY FreshIs, CommittedIs
  <1>3. proc' = [q \in Proc |-> IF proc[q].pc = "idle" THEN C[q]
                                ELSE [C[q] EXCEPT !.gone = @ \cup Rows(e)]]
    BY <1>1 DEF Cleaned, At
  <1> HIDE DEF C
  <1>4. UNCHANGED <<coming, tool, shown, raced>> /\ e \in Entity /\ proc[p].pc = "idle"
    BY DEF Remove, At, TaggerInv, TypeOK
  <1>5. ASSUME NEW q \in Proc \ {p}
        PROVE  /\ proc'[q].pc = proc[q].pc /\ proc'[q].todo = proc[q].todo
               /\ proc'[q].late = proc[q].late
    <2>1. C[q] \in ProcRecord
      BY <1>2
    <2>2. /\ proc'[q].pc = C[q].pc /\ proc'[q].todo = C[q].todo /\ proc'[q].late = C[q].late
      <3>1. CASE proc'[q] = C[q]
        BY <3>1
      <3>2. CASE proc'[q] = [C[q] EXCEPT !.gone = @ \cup Rows(e)]
        BY <2>1, <3>2 DEF ProcRecord
      <3> QED
        BY <1>3, <3>1, <3>2
    <2> QED
      BY <1>2, <2>2
  <1>6. Alive' \subseteq Alive /\ \A f \in Entity : Rows(f)' \subseteq Rows(f)
    BY <1>1, <1>4 DEF Alive, Rows, Entity, Free
  <1>7. ASSUME NEW q \in Proc \ {p} PROVE Searching(q, proc[q])'
    BY <1>4, <1>5, <1>6, OtherSearching
  <1>8. Searching(p, proc[p])'
    <2>1. proc'[p] = Fresh
      BY <1>2, <1>3, <1>4
    <2> QED
      BY <2>1, FreshIs DEF Searching, Lookers, Adopters
  <1> QED
    BY <1>4, <1>6, <1>7, <1>8 DEF Steady

LEMMA InsertSteady ==
  ASSUME TaggerInv, Steady, NEW p \in Proc, Insert(p)
  PROVE  Steady'
  <1> DEFINE n == proc[p].num
  <1>1. PICK e \in Entity :
          /\ Key(p, e)
          /\ IF Collides(n, e)
             THEN /\ Moved(p, [proc[p] EXCEPT !.pc = "recheck", !.num = 0])
                  /\ UNCHANGED <<tag, counter, shown, raced>>
             ELSE /\ tag' = [tag EXCEPT ![n] = e]
                  /\ counter' = Larger(counter, n)
                  /\ Shows(p, e, {n})
                  /\ raced' = IF proc[p].late THEN raced \cup {e} ELSE raced
                  /\ LET P == Committed(p, [proc[p] EXCEPT
                                 !.pc = "walk", !.map[e] = {n}, !.counter = n, !.num = 0,
                                 !.tries = 0, !.todo = @ \ {e}, !.late = FALSE])
                     IN proc' = [q \in Proc |-> IF q # p /\ Key(q, e) /\ Looked(q)
                                                THEN [P[q] EXCEPT !.late = TRUE] ELSE P[q]]
    BY DEF Insert
  <1>2. /\ proc[p] \in ProcRecord /\ Holds(proc[p]) /\ proc[p].pc = "insert"
        /\ Searching(p, proc[p]) /\ UNCHANGED <<wire, coming, tool>>
    BY RecordIs DEF Insert, At, Steady, session
  <1>3. CASE Collides(n, e)
    <2> DEFINE P == [proc[p] EXCEPT !.pc = "recheck", !.num = 0]
    <2>1. P.pc = "recheck" /\ Moved(p, P)
      BY <1>1, <1>2, <1>3 DEF ProcRecord
    <2> HIDE DEF P
    <2>2. P.pc \notin Lookers \cup Adopters
      BY <2>1 DEF Lookers, Adopters
    <2> QED
      BY <1>1, <1>2, <1>3, <2>1, <2>2, QuietSteady
  <1>4. CASE ~ Collides(n, e)
    <2> DEFINE P == [proc[p] EXCEPT !.pc = "walk", !.map[e] = {n}, !.counter = n, !.num = 0,
                                    !.tries = 0, !.todo = @ \ {e}, !.late = FALSE]
               C == Committed(p, P)
    <2>1. /\ tag' = [tag EXCEPT ![n] = e] /\ Shows(p, e, {n})
          /\ raced' = IF proc[p].late THEN raced \cup {e} ELSE raced
          /\ proc' = [q \in Proc |-> IF q # p /\ Key(q, e) /\ Looked(q)
                                     THEN [C[q] EXCEPT !.late = TRUE] ELSE C[q]]
      BY <1>1, <1>4
    <2>2. P.pc = "walk" /\ C[p] = P
      BY <1>2 DEF ProcRecord, Committed
    <2>3. P \in ProcRecord
      <3>1. proc' \in [Proc -> ProcRecord]
        BY InsertKeeps DEF TaggerInv, TypeOK, ProcRecord
      <3>2. proc'[p] = P
        BY <2>1, <2>2
      <3> QED
        BY <3>1, <3>2
    <2> HIDE DEF P
    <2>4. /\ C \in [Proc -> ProcRecord]
          /\ \A q \in Proc \ {p} : /\ C[q].pc = proc[q].pc /\ C[q].todo = proc[q].todo
                                   /\ C[q].late = proc[q].late
      BY <2>3, CommittedIs
    <2> HIDE DEF C
    <2>5. ASSUME NEW q \in Proc \ {p}
          PROVE  /\ proc'[q].pc = proc[q].pc /\ proc'[q].todo = proc[q].todo
                 /\ proc'[q].late = TRUE \/ proc'[q].late = proc[q].late
                 /\ Key(q, e) /\ Looked(q) => proc'[q].late = TRUE
      <3>1. C[q] \in ProcRecord
        BY <2>4
      <3>2. CASE Key(q, e) /\ Looked(q)
        <4>1. proc'[q] = [C[q] EXCEPT !.late = TRUE]
          BY <2>1, <3>2
        <4> QED
          BY <2>4, <3>1, <4>1 DEF ProcRecord
      <3>3. CASE ~ (Key(q, e) /\ Looked(q))
        <4>1. proc'[q] = C[q]
          BY <2>1, <3>3
        <4> QED
          BY <2>4, <3>3, <4>1
      <3> QED
        BY <3>2, <3>3
    <2>6. tag \in [Num -> Entity \cup {Orphan, Free}] /\ n \in Num /\ tag[n] = Free
      BY <1>2, <1>4 DEF TaggerInv, TypeOK, Holds, Collides
    <2>7. /\ \A f \in Entity \ {e} : Rows(f)' \subseteq Rows(f)
          /\ Rows(e)' = Rows(e) \cup {n}
      BY <2>1, <2>6 DEF Rows
    <2>8. Alive' = Alive
      BY <1>2 DEF Alive
    <2>9. ASSUME NEW q \in Proc \ {p} PROVE Searching(q, proc[q])'
      <3>1. \A f \in Entity : Rows(f)' \subseteq Rows(f)
              \/ (Key(q, f) /\ Looked(q) => proc'[q].late = TRUE)
        BY <2>5, <2>7
      <3> QED
        BY <1>2, <2>1, <2>5, <2>8, <3>1, ShowsOnly, OtherSearching
    <2>10. Searching(p, proc[p])'
      <3>1. proc'[p] = P
        BY <2>1, <2>2
      <3> QED
        BY <2>2, <3>1 DEF Searching, Lookers, Adopters
    <2>11. e \notin raced' => Rows(e) = {}
      <3>1. CASE e \in tool
        BY <1>4, <3>1 DEF Collides
      <3>2. CASE e \notin tool
        <4>1. Rows(e) # {} => proc[p].late = TRUE
          BY <1>1, <1>2, <3>2 DEF Searching, Key, Lookers
        <4> QED
          BY <2>1, <4>1
      <3> QED
        BY <3>1, <3>2
    <2>12. raced \subseteq raced'
      BY <2>1
    <2>13. \A f \in Entity \ raced' : \A k, m \in Rows(f)' : k = m
      BY <2>7, <2>11, <2>12 DEF Steady
    <2> QED
      BY <2>9, <2>10, <2>13 DEF Steady
  <1> QED
    BY <1>3, <1>4

LEMMA SessionSteady ==
  ASSUME Steady, UNCHANGED <<tag, tool, proc, shown, raced>>, Alive' \subseteq Alive
  PROVE  Steady'
  <1>1. \A f : Rows(f)' = Rows(f)
    BY DEF Rows
  <1>2. \A q \in Proc : Searching(q, proc[q])'
    BY <1>1 DEF Steady, Searching
  <1> QED
    BY <1>1, <1>2 DEF Steady

LEMMA InitSteady ==
  ASSUME Init
  PROVE  Steady
  <1>1. \A e \in Entity : Rows(e) = {}
    BY CountAssumption DEF Init, Rows, Entity, Orphan, Free
  <1>2. \A p \in Proc : Searching(p, proc[p])
    <2>1. \A p \in Proc : proc[p].pc = "idle"
      BY FreshIs DEF Init
    <2> QED
      BY <2>1 DEF Searching, Lookers, Adopters
  <1> QED
    BY <1>1, <1>2 DEF Steady

LEMMA NextSteady ==
  ASSUME TaggerInv, Steady, [Next]_vars
  PROVE  Steady'
  <1>1. CASE UNCHANGED vars
    BY <1>1, SessionSteady DEF vars, Alive
  <1>2. ASSUME NEW p \in Proc, Begin(p) PROVE Steady'
    BY <1>2, RestSteady
  <1>3. ASSUME NEW p \in Proc, Step(p) PROVE Steady'
    BY <1>3, RestSteady, BoundSteady, LookSteady, ObserveSteady, SyncSteady, RetrySteady,
       AdoptSteady, InsertSteady DEF Step
  <1>4. ASSUME NEW p \in Proc, Fail(p) PROVE Steady'
    BY <1>4, RestSteady
  <1>5. ASSUME NEW p \in Proc, Remove(p) \/ Backfill(p) PROVE Steady'
    BY <1>5, RemoveSteady, BackfillSteady
  <1>6. ASSUME NEW p \in Proc, RemoveFails(p) PROVE Steady'
    <2>1. UNCHANGED <<tag, tool, proc, shown, raced>> /\ Alive' \subseteq Alive
      BY <1>6 DEF RemoveFails, Alive
    <2> QED
      BY <2>1, SessionSteady
  <1>7. CASE Add
    <2>1. UNCHANGED <<tag, tool, proc, shown, raced>>
      BY <1>7 DEF Add, notes
    <2>2. Alive' \subseteq Alive
      <3>1. wire' = wire \cup {coming} /\ coming' = coming + 1 /\ coming <= Entities
            /\ coming \in 1..Entities + 1
        BY <1>7 DEF Add, TaggerInv, TypeOK
      <3> QED
        BY <3>1, CountAssumption DEF Alive, Entity
    <2> QED
      BY <2>1, <2>2, SessionSteady
  <1> QED
    BY <1>1, <1>2, <1>3, <1>4, <1>5, <1>6, <1>7 DEF Next

\* A step that shows another number than before shows it with a content that
\* was raced for.
LEMMA PrefixStep ==
  ASSUME TaggerInv, Steady, [Next]_vars,
         NEW p \in Proc, NEW e \in wire \cap wire', e \notin raced
  PROVE  shown[p][e] \in {{}, shown'[p][e]}
  <1>1. e \in Entity /\ e \in Alive /\ shown[p][e] \subseteq Rows(e)
    BY DEF TaggerInv, TypeOK, Alive
  <1>2. \A m, n \in Rows(e) : m = n
    BY <1>1 DEF Steady
  <1>3. ASSUME NEW S, S # {}, S \subseteq Rows(e), shown'[p][e] = S
        PROVE  shown[p][e] \in {{}, shown'[p][e]}
    BY <1>1, <1>2, <1>3
  <1>4. CASE shown'[p][e] = shown[p][e]
    BY <1>4
  <1>5. ASSUME NEW q \in Proc, Bound(q) PROVE shown[p][e] \in {{}, shown'[p][e]}
    <2>1. PICK f \in Entity : proc[q].map[f] # {} /\ Shows(q, f, proc[q].map[f])
      BY <1>5 DEF Bound
    <2>2. CASE q = p /\ f = e
      <3>1. proc[q].map[e] \subseteq Rows(e)
        BY <1>1 DEF TaggerInv, Holds
      <3>2. shown'[p][e] = proc[q].map[e]
        BY <2>1, <2>2, ShowsOnly
      <3> QED
        BY <1>3, <2>1, <2>2, <3>1, <3>2
    <2>3. CASE ~ (q = p /\ f = e)
      BY <1>1, <1>4, <2>1, <2>3, ShowsOnly
    <2> QED
      BY <2>2, <2>3
  <1>6. ASSUME NEW q \in Proc, Sync(q) PROVE shown[p][e] \in {{}, shown'[p][e]}
    <2>1. PICK f \in Entity : Key(q, f) /\ Shows(q, f, {proc[q].num})
      BY <1>6 DEF Sync
    <2>2. CASE q = p /\ f = e
      <3>1. tag[proc[q].num] = e /\ proc[q].num \in Num
        BY <1>1, <1>6, <2>1, <2>2 DEF TaggerInv, Holds, Sync, At, Key
      <3>2. {proc[q].num} \subseteq Rows(e)
        BY <3>1 DEF Rows
      <3>3. shown'[p][e] = {proc[q].num}
        BY <2>1, <2>2, ShowsOnly
      <3> QED
        BY <1>3, <3>2, <3>3
    <2>3. CASE ~ (q = p /\ f = e)
      BY <1>1, <1>4, <2>1, <2>3, ShowsOnly
    <2> QED
      BY <2>2, <2>3
  <1>7. ASSUME NEW q \in Proc, Insert(q) PROVE shown[p][e] \in {{}, shown'[p][e]}
    <2>1. PICK f \in Entity : Key(q, f) /\ (shown' = shown \/ Shows(q, f, {proc[q].num}))
      BY <1>7 DEF Insert
    <2>2. CASE shown' = shown
      BY <1>4, <2>2
    <2>3. CASE Shows(q, f, {proc[q].num}) /\ q = p /\ f = e
      <3>1. shown[p][e] = {}
        BY <1>1, <1>7, <2>1, <2>3 DEF Steady, Searching, Insert, At, Key, Lookers
      <3> QED
        BY <3>1
    <2>4. CASE Shows(q, f, {proc[q].num}) /\ ~ (q = p /\ f = e)
      BY <1>1, <1>4, <2>1, <2>4, ShowsOnly
    <2> QED
      BY <2>1, <2>2, <2>3, <2>4
  <1>8. ASSUME NEW q \in Proc, Step(q), ~ Bound(q), ~ Sync(q), ~ Insert(q) PROVE shown' = shown
    BY <1>8 DEF Step, LoadCounter, LoadRows, Lookup, Observe, Claim, Persisted, LookupTool,
                FindOrphan, Adopt, Rematch, Relook, Propose, Recheck, Advance, Done
  <1>9. ASSUME NEW q \in Proc, Begin(q) \/ Fail(q) \/ Remove(q) \/ RemoveFails(q) \/ Backfill(q)
        PROVE  shown' = shown
    BY <1>9 DEF Begin, CacheHit, Reload, Fail, Remove, RemoveFails, Backfill
  <1>10. Add \/ UNCHANGED vars => shown' = shown
    BY DEF Add, vars
  <1> QED
    BY <1>4, <1>5, <1>6, <1>7, <1>8, <1>9, <1>10 DEF Next

\* What the model has seen in front of a content stays there, unless two
\* processes had looked for its row before either of them inserted one.
THEOREM PrefixStays == Spec => PrefixIsStable
  <1>1. TaggerInv /\ Steady /\ [Next]_vars => TaggerInv' /\ Steady'
    BY NextHolds, NextSteady
  <1>2. Init => TaggerInv /\ Steady
    BY InitHolds, InitSteady
  <1>3. TaggerInv /\ Steady /\ [Next]_vars
          => [\A p \in Proc, e \in wire \cap wire' :
                shown[p][e] \in {{}, shown'[p][e]} \/ e \in raced]_vars
    BY PrefixStep
  <1> QED
    BY <1>1, <1>2, <1>3, PTL DEF Spec, PrefixIsStable

=============================================================================
