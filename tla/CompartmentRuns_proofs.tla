----------------------- MODULE CompartmentRuns_proofs ------------------------
(***************************************************************************)
(* Theorems about CompartmentRuns for any number of processes, runs and    *)
(* wrapups, any TTLs, any number of messages, crashes and lost leases; and *)
(* about PartialRecomp, which has the same two tables of compartments.     *)
(***************************************************************************)
EXTENDS CompartmentRuns, Integers, FiniteSetTheorems, WellFoundedInduction, TLAPS

-----------------------------------------------------------------------------
(* Tables of compartments, for every number of messages and every size of  *)
(* a historian pass.                                                       *)

\* A session without compartments.
LEMMA NoRowsIsTable == IsTable(NoRows) /\ DOMAIN NoRows = {}
  BY DEF IsTable, NoRows

\* ORDER BY sequence has a last row, and no row follows it.
LEMMA LastSeqProps ==
  ASSUME NEW t, IsTable(t), DOMAIN t # {}
  PROVE  /\ LastSeq(t) \in DOMAIN t
         /\ LastSeq(t) \in Nat
         /\ \A j \in DOMAIN t : j <= LastSeq(t)
  BY DEF IsTable, LastSeq

\* A row that no row follows is the one ORDER BY puts last.
LEMMA LastSeqUnique ==
  ASSUME NEW t, IsTable(t), NEW i \in DOMAIN t, \A j \in DOMAIN t : j <= i
  PROVE  LastSeq(t) = i
<1>1. LastSeq(t) \in DOMAIN t /\ \A j \in DOMAIN t : j <= LastSeq(t)
  BY LastSeqProps
<1>2. LastSeq(t) \in Nat /\ i \in Nat
  BY <1>1 DEF IsTable
<1> QED
  BY <1>1, <1>2

\* The next sequence number is a number, and it is free.
LEMMA NextSeqProps ==
  ASSUME NEW t, IsTable(t)
  PROVE  /\ NextSeq(t) \in Nat
         /\ NextSeq(t) \notin DOMAIN t
         /\ \A j \in DOMAIN t : j < NextSeq(t)
<1>1. CASE DOMAIN t = {}
  BY <1>1 DEF NextSeq
<1>2. CASE DOMAIN t # {}
  <2>1. NextSeq(t) = LastSeq(t) + 1
    BY <1>2 DEF NextSeq
  <2>2. LastSeq(t) \in Nat /\ \A j \in DOMAIN t : j <= LastSeq(t)
    BY <1>2, LastSeqProps
  <2>3. \A j \in DOMAIN t : j \in Nat
    BY DEF IsTable
  <2> QED
    BY <2>1, <2>2, <2>3
<1> QED
  BY <1>1, <1>2

\* The next message to summarise is one of the session's, or one past them.
LEMMA NextOrdinalProps ==
  ASSUME NEW t, IsTable(t)
  PROVE  NextOrdinal(t) \in 1..(MaxMsg + 1)
<1>1. CASE DOMAIN t = {}
  BY <1>1, MaxMsgAssumption DEF NextOrdinal
<1>2. CASE DOMAIN t # {}
  <2>1. LastSeq(t) \in DOMAIN t
    BY <1>2, LastSeqProps
  <2>2. t[LastSeq(t)].e \in 1..MaxMsg
    BY <2>1 DEF IsTable, Cell, Ordinal
  <2> QED
    BY <1>2, <2>2, MaxMsgAssumption DEF NextOrdinal
<1> QED
  BY <1>1, <1>2

\* INSERT OR REPLACE makes a table of two tables.
LEMMA OverwriteIsTable ==
  ASSUME NEW t, IsTable(t), NEW u, IsTable(u)
  PROVE  /\ IsTable(Overwrite(t, u))
         /\ DOMAIN Overwrite(t, u) = DOMAIN t \cup DOMAIN u
<1> DEFINE v == Overwrite(t, u)
<1>1. DOMAIN v = DOMAIN t \cup DOMAIN u
  BY DEF Overwrite
<1>2. DOMAIN v \subseteq Nat
  BY <1>1 DEF IsTable
<1>3. v \in [DOMAIN v -> Cell]
  <2>1. \A i \in DOMAIN t : t[i] \in Cell
    BY DEF IsTable
  <2>2. \A i \in DOMAIN u : u[i] \in Cell
    BY DEF IsTable
  <2> QED
    BY <1>1, <2>1, <2>2 DEF Overwrite
<1>4. ASSUME DOMAIN v # {}
      PROVE  \E i \in DOMAIN v : \A j \in DOMAIN v : j <= i
  <2>1. CASE DOMAIN t = {}
    BY <1>1, <1>4, <2>1 DEF IsTable
  <2>2. CASE DOMAIN u = {}
    BY <1>1, <1>4, <2>2 DEF IsTable
  <2>3. CASE DOMAIN t # {} /\ DOMAIN u # {}
    <3>1. PICK i \in DOMAIN t : \A k \in DOMAIN t : k <= i
      BY <2>3 DEF IsTable
    <3>2. PICK j \in DOMAIN u : \A k \in DOMAIN u : k <= j
      BY <2>3 DEF IsTable
    <3>3. \A k \in DOMAIN v : k \in Nat
      BY <1>2
    <3>4. i \in DOMAIN v /\ j \in DOMAIN v
      BY <1>1
    <3>5. CASE i <= j
      <4>1. \A k \in DOMAIN v : k <= j
        BY <1>1, <3>1, <3>2, <3>3, <3>4, <3>5
      <4> QED
        BY <3>4, <4>1
    <3>6. CASE j <= i
      <4>1. \A k \in DOMAIN v : k <= i
        BY <1>1, <3>1, <3>2, <3>3, <3>4, <3>6
      <4> QED
        BY <3>4, <4>1
    <3> QED
      BY <3>3, <3>4, <3>5, <3>6
  <2> QED
    BY <2>1, <2>2, <2>3
<1> QED
  BY <1>1, <1>2, <1>3, <1>4 DEF IsTable

\* What a validated pass returns is a table that starts with row q at message
\* a and lies within the window.
LEMMA SplitsProps ==
  ASSUME NEW q \in Nat, NEW a \in Ordinal, NEW b \in Ordinal,
         NEW f \in Splits(q, a, b)
  PROVE  /\ IsTable(f)
         /\ q \in DOMAIN f
         /\ f[q].s = a
<1>1. PICK n \in 1..MaxCells : f \in { g \in [q..(q + n - 1) -> [s : a..b, e : a..b]] :
                                       Chain(g, q, q + n - 1, a, b) }
  BY DEF Splits
<1>2. f \in [q..(q + n - 1) -> [s : a..b, e : a..b]] /\ f[q].s = a
  BY <1>1 DEF Chain
<1>3. n \in Nat /\ n >= 1 /\ q \in Nat
  BY MaxCellsAssumption
<1>4. DOMAIN f = q..(q + n - 1) /\ q \in DOMAIN f
  BY <1>2, <1>3
<1>5. a..b \subseteq Ordinal
  BY MaxMsgAssumption DEF Ordinal
<1>6. f \in [DOMAIN f -> Cell]
  BY <1>2, <1>4, <1>5 DEF Cell
<1>7. /\ DOMAIN f \subseteq Nat
      /\ q + n - 1 \in DOMAIN f
      /\ \A j \in DOMAIN f : j <= q + n - 1
  BY <1>3, <1>4
<1> QED
  BY <1>2, <1>4, <1>6, <1>7 DEF IsTable

\* One row is a table.
LEMMA OneRowIsTable ==
  ASSUME NEW q \in Nat, NEW c \in Cell
  PROVE  LET t == [i \in {q} |-> c] IN IsTable(t) /\ DOMAIN t = {q} /\ t[q] = c
<1> DEFINE t == [i \in {q} |-> c]
<1>1. DOMAIN t = {q} /\ t[q] = c /\ t \in [DOMAIN t -> Cell]
  OBVIOUS
<1>2. \A i \in DOMAIN t : \A j \in DOMAIN t : j <= i
  BY <1>1
<1> QED
  BY <1>1, <1>2 DEF IsTable

\* MAX(end_message) of a table is a message, or 0 for the empty table.
LEMMA LastEndProps ==
  ASSUME NEW t, IsTable(t)
  PROVE  LastEnd(t) \in 0..MaxMsg
<1>1. CASE DOMAIN t = {}
  BY <1>1, MaxMsgAssumption DEF LastEnd
<1>2. CASE DOMAIN t # {}
  <2>1. \A i \in DOMAIN t : t[i].e \in 1..MaxMsg
    BY DEF IsTable, Cell, Ordinal
  <2> DEFINE S == { MaxMsg - t[i].e : i \in DOMAIN t }
             R == {p \in Nat \X Nat : p[1] < p[2]}
  <2>2. S \subseteq Nat /\ S # {}
    BY <1>2, <2>1, MaxMsgAssumption
  <2>3. PICK m \in S : \A n \in S : ~ (<<n, m>> \in R)
    <3>1. IsWellFoundedOn(R, Nat)
      BY NatLessThanWellFounded, Zenon DEF OpToRel
    <3> QED
      BY <2>2, <3>1, WFMin, Zenon
  <2>4. PICK i \in DOMAIN t : m = MaxMsg - t[i].e
    OBVIOUS
  <2>5. \A j \in DOMAIN t : t[j].e <= t[i].e
    <3> SUFFICES ASSUME NEW j \in DOMAIN t PROVE t[j].e <= t[i].e
      OBVIOUS
    <3>1. MaxMsg - t[j].e \in S
      OBVIOUS
    <3>2. ~ (MaxMsg - t[j].e < MaxMsg - t[i].e)
      BY <2>2, <2>3, <2>4, <3>1
    <3> QED
      BY <2>1, <3>2, MaxMsgAssumption
  <2>6. \E k \in DOMAIN t : LastEnd(t) = t[k].e
    BY <1>2, <2>5 DEF LastEnd
  <2> QED
    BY <2>1, <2>6, MaxMsgAssumption
<1> QED
  BY <1>1, <1>2

-----------------------------------------------------------------------------
(* Tables that cover a prefix of the messages.                             *)

\* The rows are numbered from 0 without a hole, and the cells leave no gap and
\* no overlap, from message 1 on.
Numbered(t, n) == DOMAIN t = 0..(n - 1)
Linked(t) == \A i \in DOMAIN t : /\ t[i].s <= t[i].e
                                 /\ i = 0 => t[i].s = 1
                                 /\ i # 0 => t[i].s = t[i - 1].e + 1
Cover(t) == (\E n \in Nat : Numbered(t, n)) /\ Linked(t)

LEMMA NumberedProps ==
  ASSUME NEW t, IsTable(t), NEW n \in Nat, Numbered(t, n)
  PROVE  /\ NextSeq(t) = n
         /\ NextOrdinal(t) = IF n = 0 THEN 1 ELSE t[n - 1].e + 1
         /\ \A i \in 1..(n - 1) : PrevSeq(t, i) = i - 1
<1>1. CASE n = 0
  BY <1>1 DEF Numbered, NextSeq, NextOrdinal
<1>2. CASE n # 0
  <2>0. DOMAIN t = 0..(n - 1)
    BY DEF Numbered
  <2>1. DOMAIN t # {} /\ n - 1 \in DOMAIN t /\ \A j \in DOMAIN t : j <= n - 1
    BY <1>2, <2>0
  <2>2. LastSeq(t) = n - 1
    BY <2>1, LastSeqUnique
  <2>3. ASSUME NEW i \in 1..(n - 1) PROVE PrevSeq(t, i) = i - 1
    <3>1. i - 1 \in DOMAIN t /\ i - 1 < i /\ \A k \in DOMAIN t : k < i => k <= i - 1
      BY <2>0
    <3>2. ASSUME NEW j \in DOMAIN t, j < i, \A k \in DOMAIN t : k < i => k <= j
          PROVE  j = i - 1
      <4>1. i - 1 <= j
        BY <3>1, <3>2
      <4> QED
        BY <2>0, <3>2, <4>1
    <3> QED
      BY <3>1, <3>2 DEF PrevSeq
  <2>4. NextSeq(t) = n - 1 + 1 /\ NextOrdinal(t) = t[n - 1].e + 1
    BY <2>1, <2>2 DEF NextSeq, NextOrdinal
  <2> QED
    BY <1>2, <2>3, <2>4
<1> QED
  BY <1>1, <1>2

\* Such a table is what HistoryContiguous asks for.
LEMMA CoverContiguous ==
  ASSUME NEW t, IsTable(t), Cover(t)
  PROVE  Contiguous(t) /\ DOMAIN t = 0..(NextSeq(t) - 1)
<1>1. PICK n \in Nat : Numbered(t, n)
  BY DEF Cover
<1>2. NextSeq(t) = n /\ \A i \in 1..(n - 1) : PrevSeq(t, i) = i - 1
  BY <1>1, NumberedProps
<1>3. ASSUME NEW i \in DOMAIN t
      PROVE  /\ t[i].s <= t[i].e
             /\ t[i].s = IF \A j \in DOMAIN t : i <= j THEN 1 ELSE t[PrevSeq(t, i)].e + 1
  <2>1. i \in 0..(n - 1) /\ 0 \in DOMAIN t
    BY <1>1 DEF Numbered
  <2>2. (\A j \in DOMAIN t : i <= j) <=> i = 0
    BY <1>1, <2>1 DEF Numbered
  <2>3. i # 0 => PrevSeq(t, i) = i - 1
    BY <1>2, <2>1
  <2> QED
    BY <2>2, <2>3 DEF Cover, Linked
<1> QED
  BY <1>1, <1>2, <1>3 DEF Contiguous, Numbered

LEMMA NoRowsCover == Cover(NoRows)
  BY NoRowsIsTable DEF Cover, Numbered, Linked

\* What a validated pass returns, row by row.
BlockOf(f, q, n, a) ==
  /\ DOMAIN f = q..(q + n - 1)
  /\ f[q].s = a
  /\ \A i \in q..(q + n - 1) : f[i].s <= f[i].e /\ (i > q => f[i].s = f[i - 1].e + 1)

LEMMA SplitsRows ==
  ASSUME NEW q \in Nat, NEW a, NEW b, NEW f \in Splits(q, a, b)
  PROVE  \E n \in Nat \ {0} : BlockOf(f, q, n, a)
<1>1. PICK n \in 1..MaxCells : f \in { g \in [q..(q + n - 1) -> [s : a..b, e : a..b]] :
                                       Chain(g, q, q + n - 1, a, b) }
  BY DEF Splits
<1>2. n \in Nat \ {0} /\ DOMAIN f = q..(q + n - 1) /\ Chain(f, q, q + n - 1, a, b)
  BY <1>1
<1> QED
  BY <1>2 DEF Chain, BlockOf

\* One pass goes on where the table ends.
LEMMA CoverGrows ==
  ASSUME NEW t, IsTable(t), Cover(t), NEW b, NEW f \in Splits(NextSeq(t), NextOrdinal(t), b)
  PROVE  /\ Cover(Overwrite(t, f))
         /\ \A i \in DOMAIN t : i \in DOMAIN Overwrite(t, f) /\ Overwrite(t, f)[i] = t[i]
<1> DEFINE v == Overwrite(t, f)
<1>1. PICK n \in Nat : Numbered(t, n)
  BY DEF Cover
<1>2. NextSeq(t) = n /\ NextOrdinal(t) = IF n = 0 THEN 1 ELSE t[n - 1].e + 1
  BY <1>1, NumberedProps
<1>a. PICK m \in Nat \ {0} : BlockOf(f, n, m, NextOrdinal(t))
  <2>1. n \in Nat /\ f \in Splits(n, NextOrdinal(t), b)
    BY <1>2
  <2> QED
    BY <2>1, SplitsRows
<1>3. /\ DOMAIN f = n..(n + m - 1)
      /\ f[n].s = NextOrdinal(t)
      /\ \A i \in n..(n + m - 1) : f[i].s <= f[i].e /\ (i > n => f[i].s = f[i - 1].e + 1)
  BY <1>a DEF BlockOf
<1>4. /\ DOMAIN v = DOMAIN t \cup DOMAIN f
      /\ \A i \in DOMAIN f : v[i] = f[i]
      /\ \A i \in DOMAIN t \ DOMAIN f : v[i] = t[i]
  BY DEF Overwrite
<1>5. DOMAIN t \cap DOMAIN f = {} /\ Numbered(v, n + m)
  BY <1>1, <1>3, <1>4 DEF Numbered
<1>6. \A i \in DOMAIN t : v[i] = t[i]
  BY <1>4, <1>5
<1>7. ASSUME NEW i \in DOMAIN v
      PROVE  /\ v[i].s <= v[i].e
             /\ i = 0 => v[i].s = 1
             /\ i # 0 => v[i].s = v[i - 1].e + 1
  <2>1. CASE i \in DOMAIN t
    <3>1. i # 0 => i - 1 \in DOMAIN t
      BY <1>1, <2>1 DEF Numbered
    <3> QED
      BY <1>6, <2>1, <3>1 DEF Cover, Linked
  <2>2. CASE i \in DOMAIN f /\ i # n
    <3>1. i - 1 \in DOMAIN f /\ i > n
      BY <1>3, <2>2
    <3> QED
      BY <1>3, <1>4, <2>2, <3>1
  <2>3. CASE i = n
    <3>1. i \in DOMAIN f /\ v[i].s = NextOrdinal(t) /\ v[i].s <= v[i].e
      BY <1>3, <1>4, <2>3
    <3>2. n # 0 => n - 1 \in DOMAIN t
      BY <1>1 DEF Numbered
    <3> QED
      BY <1>2, <1>6, <2>3, <3>1, <3>2
  <2> QED
    BY <1>4, <2>1, <2>2, <2>3
<1> QED
  BY <1>4, <1>5, <1>6, <1>7 DEF Cover, Linked

\* One row for the whole window is what one pass may return.
LEMMA OneRowSplits ==
  ASSUME NEW q \in Nat, NEW a \in Nat, NEW b \in Nat, a <= b
  PROVE  [i \in {q} |-> [s |-> a, e |-> b]] \in Splits(q, a, b)
<1> DEFINE f == [i \in {q} |-> [s |-> a, e |-> b]]
<1>1. q..(q + 1 - 1) = {q} /\ 1 \in 1..MaxCells
  BY MaxCellsAssumption
<1>2. f \in [q..(q + 1 - 1) -> [s : a..b, e : a..b]]
  BY <1>1
<1>3. Chain(f, q, q + 1 - 1, a, b)
  BY <1>1 DEF Chain
<1> QED
  BY <1>1, <1>2, <1>3 DEF Splits

-----------------------------------------------------------------------------
(* The state with all tables for its types.                                *)

Table == {t \in UNION {[D -> Cell] : D \in SUBSET Nat} : IsTable(t)}

\* TypeOK with the set of all tables instead of those of the state.
TypeInv ==
  /\ lease \in RowType(Run, LeaseTtl)
  /\ marker \in RowType(Wrap, MarkerTtl)
  /\ rows \in Table /\ staging \in Table
  /\ inProgress \in BOOLEAN
  /\ active \in [Proc -> Run \cup {None}]
  /\ run \in [Run -> RunType(Table)]
  /\ \A r \in Run : /\ run[r].pc \in RecompPc => r \in RecompRun
                    /\ run[r].pc = "chunking" => run[r].snap.off < run[r].snap.elig
  /\ wrap \in [Wrap -> WrapType]
  /\ crashes \in 0..MaxCrashes

LEMMA TableIsTable == \A t : t \in Table <=> IsTable(t)
  BY DEF Table, IsTable

LEMMA TypeInvTypeOK == TypeInv => TypeOK
<1> SUFFICES ASSUME TypeInv PROVE TypeOK
  OBVIOUS
<1>1. run \in [Run -> RunType({run[r].cand : r \in Run})]
  BY DEF TypeInv, RunType
<1>2. \A r \in Run : IsTable(run[r].cand)
  BY TableIsTable DEF TypeInv, RunType
<1> QED
  BY <1>1, <1>2, TableIsTable DEF TypeInv, TypeOK, At

-----------------------------------------------------------------------------
(* Types.                                                                  *)

USE MaxMsgAssumption, MaxCellsAssumption, TtlAssumption

LEMMA RunAtType ==
  ASSUME NEW x \in RunPc, NEW p \in Proc \cup {None}, NEW w \in Wrap \cup {None}
  PROVE  RunAt(x, p, w) \in RunType(Table)
<1>1. NoRows \in Table
  BY NoRowsIsTable, TableIsTable
<1> QED
  BY <1>1 DEF RunAt, RunType, SnapType, NoSnap

LEMMA IdleTypes ==
  /\ IdleRun \in RunType(Table) /\ IdleRun.pc = "idle"
  /\ IdleWrap \in WrapType
  /\ NoRows \in Table
<1>1. NoRows \in Table
  BY NoRowsIsTable, TableIsTable
<1>2. IdleRun \in RunType(Table) /\ IdleRun.pc = "idle"
  BY RunAtType DEF IdleRun, RunPc, RunAt
<1> QED
  BY <1>1, <1>2 DEF IdleWrap, WrapType, WrapPc

LEMMA InitTypeInv == Init => TypeInv
<1> SUFFICES ASSUME Init PROVE TypeInv
  OBVIOUS
<1>1. run \in [Run -> RunType(Table)] /\ \A r \in Run : run[r].pc = "idle"
  BY IdleTypes DEF Init
<1>2. lease \in RowType(Run, LeaseTtl) /\ marker \in RowType(Wrap, MarkerTtl)
  BY DEF Init, NoRow, RowType
<1>3. wrap \in [Wrap -> WrapType] /\ rows \in Table /\ staging \in Table
  BY IdleTypes DEF Init
<1>4. active \in [Proc -> Run \cup {None}] /\ crashes \in 0..MaxCrashes
  BY DEF Init
<1>5. inProgress \in BOOLEAN
  BY DEF Init
<1>6. \A r \in Run : run[r].pc \notin RecompPc \cup {"chunking"}
  BY <1>1 DEF RecompPc
<1> QED
  BY <1>1, <1>2, <1>3, <1>4, <1>5, <1>6 DEF TypeInv

-----------------------------------------------------------------------------
(* The state but the runs, and the runs.                                   *)

Frame ==
  /\ lease \in RowType(Run, LeaseTtl)
  /\ marker \in RowType(Wrap, MarkerTtl)
  /\ rows \in Table /\ staging \in Table
  /\ inProgress \in BOOLEAN
  /\ active \in [Proc -> Run \cup {None}]
  /\ wrap \in [Wrap -> WrapType]
  /\ crashes \in 0..MaxCrashes

RunsOK == /\ run \in [Run -> RunType(Table)]
          /\ \A r \in Run :
               /\ run[r].pc \in RecompPc => r \in RecompRun
               /\ run[r].pc = "chunking" => run[r].snap.off < run[r].snap.elig

LEMMA TypeInvParts == TypeInv <=> Frame /\ RunsOK
  BY DEF TypeInv, Frame, RunsOK

LEMMA RunTypes ==
  ASSUME RunsOK, NEW r \in Run
  PROVE  /\ run[r].pc \in RunPc
         /\ run[r].proc \in Proc \cup {None}
         /\ run[r].snap.off \in 1..(MaxMsg + 1)
         /\ run[r].snap.seq \in Nat
         /\ run[r].snap.elig \in 1..(MaxMsg + 1)
         /\ run[r].cand \in Table
         /\ IsTable(run[r].cand)
         /\ run[r].under \in Wrap \cup {None}
  BY TableIsTable DEF RunsOK, RunType, SnapType

\* The ways in which an action changes one run.
LEMMA GotoRunsOK ==
  ASSUME RunsOK, NEW r \in Run, NEW x \in RunPc, x \in RecompPc => r \in RecompRun,
         x # "chunking", Goto(r, x)
  PROVE  /\ RunsOK'
         /\ \A q \in Run : /\ run'[q].pc = IF q = r THEN x ELSE run[q].pc
                           /\ run'[q].snap = run[q].snap
                           /\ run'[q].under = run[q].under
<1>1. /\ run' \in [Run -> RunType(Table)]
      /\ \A q \in Run : run'[q].pc = IF q = r THEN x ELSE run[q].pc
      /\ \A q \in Run : run'[q].snap = run[q].snap
      /\ \A q \in Run : run'[q].under = run[q].under
  BY DEF RunsOK, RunType, Goto
<1> QED
  BY <1>1 DEF RunsOK

LEMMA SnapRunsOK ==
  ASSUME RunsOK, NEW r \in Run, NEW x \in RunPc, x \in RecompPc => r \in RecompRun,
         NEW n \in SnapType, x = "chunking" => n.off < n.elig,
         run' = [run EXCEPT ![r].pc = x, ![r].snap = n]
  PROVE  /\ RunsOK'
         /\ \A q \in Run : /\ run'[q].pc = IF q = r THEN x ELSE run[q].pc
                           /\ run'[q].snap = IF q = r THEN n ELSE run[q].snap
                           /\ run'[q].under = run[q].under
<1>1. /\ run' \in [Run -> RunType(Table)]
      /\ \A q \in Run : run'[q].pc = IF q = r THEN x ELSE run[q].pc
      /\ \A q \in Run : run'[q].snap = IF q = r THEN n ELSE run[q].snap
      /\ \A q \in Run : run'[q].under = run[q].under
  BY DEF RunsOK, RunType
<1> QED
  BY <1>1 DEF RunsOK

\* A run at another step with another table or wrapup is a run.
UnderOf(P, x, w) == [P EXCEPT !.pc = x, !.under = w]
CandOf(P, x, t) == [P EXCEPT !.pc = x, !.cand = t]
ToUnder(r, x, w) == run' = [run EXCEPT ![r].pc = x, ![r].under = w]
ToCand(r, x, t) == run' = [run EXCEPT ![r].pc = x, ![r].cand = t]

LEMMA UnderIsRun ==
  ASSUME NEW P \in RunType(Table), NEW x \in RunPc, NEW w \in Wrap \cup {None}
  PROVE  /\ UnderOf(P, x, w) \in RunType(Table) /\ UnderOf(P, x, w).pc = x
         /\ UnderOf(P, x, w).under = w /\ UnderOf(P, x, w).snap = P.snap
  BY DEF RunType, UnderOf

LEMMA CandIsRun ==
  ASSUME NEW P \in RunType(Table), NEW x \in RunPc, NEW t \in Table
  PROVE  /\ CandOf(P, x, t) \in RunType(Table) /\ CandOf(P, x, t).pc = x
         /\ CandOf(P, x, t).under = P.under /\ CandOf(P, x, t).snap = P.snap
  BY DEF RunType, CandOf

LEMMA OneRunIs ==
  ASSUME RunsOK, NEW r \in Run, NEW R \in RunType(Table), run' = [run EXCEPT ![r] = R],
         R.pc \in RecompPc => r \in RecompRun, R.pc = "chunking" => R.snap.off < R.snap.elig
  PROVE  RunsOK' /\ run'[r] = R /\ \A q \in Run : q # r => run'[q] = run[q]
<1>1. run' \in [Run -> RunType(Table)] /\ run'[r] = R /\ \A q \in Run : q # r => run'[q] = run[q]
  BY DEF RunsOK
<1> QED
  BY <1>1 DEF RunsOK

LEMMA UnderRunsOK ==
  ASSUME RunsOK, NEW r \in Run, NEW x \in RunPc, x \notin RecompPc,
         x # "chunking", NEW w \in Wrap \cup {None}, ToUnder(r, x, w)
  PROVE  /\ RunsOK'
         /\ \A q \in Run : /\ run'[q].pc = IF q = r THEN x ELSE run[q].pc
                           /\ run'[q].snap = run[q].snap
                           /\ run'[q].under = IF q = r THEN w ELSE run[q].under
<1> DEFINE R == UnderOf(run[r], x, w)
<1>1. R \in RunType(Table) /\ R.pc = x /\ R.under = w /\ R.snap = run[r].snap
  BY UnderIsRun DEF RunsOK
<1>2. run' = [run EXCEPT ![r] = R]
  <2>1. run \in [Run -> RunType(Table)]
    BY DEF RunsOK
  <2> QED
    BY <2>1 DEF RunType, UnderOf, ToUnder
<1> HIDE DEF R
<1>3. (R.pc \in RecompPc => r \in RecompRun) /\ R.pc # "chunking"
  BY <1>1
<1>4. RunsOK' /\ run'[r] = R /\ \A q \in Run : q # r => run'[q] = run[q]
  BY <1>1, <1>2, <1>3, OneRunIs
<1>5. ASSUME NEW q \in Run
      PROVE  /\ run'[q].pc = IF q = r THEN x ELSE run[q].pc
             /\ run'[q].snap = run[q].snap
             /\ run'[q].under = IF q = r THEN w ELSE run[q].under
  <2>1. CASE q = r
    BY <1>1, <1>4, <2>1
  <2>2. CASE q # r
    BY <1>4, <2>2
  <2> QED
    BY <2>1, <2>2
<1> QED
  BY <1>4, <1>5

LEMMA CandRunsOK ==
  ASSUME RunsOK, NEW r \in Run, NEW x \in RunPc, x \in RecompPc => r \in RecompRun,
         x # "chunking", NEW t \in Table, ToCand(r, x, t)
  PROVE  /\ RunsOK'
         /\ \A q \in Run : /\ run'[q].pc = IF q = r THEN x ELSE run[q].pc
                           /\ run'[q].snap = run[q].snap
                           /\ run'[q].under = run[q].under
<1> DEFINE R == CandOf(run[r], x, t)
<1>1. R \in RunType(Table) /\ R.pc = x /\ R.under = run[r].under /\ R.snap = run[r].snap
  BY CandIsRun DEF RunsOK
<1>2. run' = [run EXCEPT ![r] = R]
  <2>1. run \in [Run -> RunType(Table)]
    BY DEF RunsOK
  <2> QED
    BY <2>1 DEF RunType, CandOf, ToCand
<1> HIDE DEF R
<1>3. (R.pc \in RecompPc => r \in RecompRun) /\ R.pc # "chunking"
  BY <1>1
<1>4. RunsOK' /\ run'[r] = R /\ \A q \in Run : q # r => run'[q] = run[q]
  BY <1>1, <1>2, <1>3, OneRunIs
<1>5. ASSUME NEW q \in Run
      PROVE  /\ run'[q].pc = IF q = r THEN x ELSE run[q].pc
             /\ run'[q].snap = run[q].snap
             /\ run'[q].under = run[q].under
  <2>1. CASE q = r
    BY <1>1, <1>4, <2>1
  <2>2. CASE q # r
    BY <1>4, <2>2
  <2> QED
    BY <2>1, <2>2
<1> QED
  BY <1>4, <1>5

LEMMA AddCandRunsOK ==
  ASSUME RunsOK, NEW r \in Run, NEW t \in Table,
         run' = [run EXCEPT ![r].cand = t]
  PROVE  /\ RunsOK'
         /\ \A q \in Run : /\ run'[q].pc = run[q].pc
                           /\ run'[q].snap = run[q].snap
                           /\ run'[q].under = run[q].under
<1>1. /\ run' \in [Run -> RunType(Table)]
      /\ \A q \in Run : run'[q].pc = run[q].pc
      /\ \A q \in Run : run'[q].snap = run[q].snap
      /\ \A q \in Run : run'[q].under = run[q].under
  BY DEF RunsOK, RunType
<1> QED
  BY <1>1 DEF RunsOK

LEMMA ReplaceRunsOK ==
  ASSUME RunsOK, NEW r \in Run, NEW x \in RunType(Table), x.pc \notin RecompPc \cup {"chunking"},
         run' = [run EXCEPT ![r] = x]
  PROVE  RunsOK' /\ \A q \in Run : run'[q] = IF q = r THEN x ELSE run[q]
  BY DEF RunsOK

LEMMA IdleRunsOK ==
  ASSUME RunsOK, NEW r \in Run, run' = [run EXCEPT ![r] = IdleRun]
  PROVE  RunsOK' /\ \A q \in Run : run'[q] = IF q = r THEN IdleRun ELSE run[q]
  BY IdleTypes, ReplaceRunsOK DEF RecompPc

LEMMA FinishRunsOK ==
  ASSUME RunsOK, NEW r \in Run, Finish(r)
  PROVE  /\ RunsOK'
         /\ \A q \in Run : run'[q] = IF q = r THEN RunAt("finishing", run[r].proc, None)
                                     ELSE run[q]
<1> DEFINE x == RunAt("finishing", run[r].proc, None)
<1>1. x \in RunType(Table) /\ x.pc \notin RecompPc \cup {"chunking"}
  <2>1. "finishing" \in RunPc /\ x.pc = "finishing"
    BY DEF RunPc, EndPc, RunAt
  <2> QED
    BY <2>1, RunTypes, RunAtType DEF RecompPc
<1> QED
  BY <1>1, ReplaceRunsOK DEF Finish
-----------------------------------------------------------------------------
(* Every action keeps the types: first the rest of the state, then runs.   *)

LEMMA RowTypes ==
  ASSUME Frame
  PROVE  /\ IsTable(rows) /\ IsTable(staging)
         /\ lease.left \in 0..LeaseTtl /\ lease.holder \in Run \cup {None}
         /\ marker.left \in 0..MarkerTtl /\ marker.holder \in Wrap \cup {None}
         /\ NoRow \in RowType(Run, LeaseTtl) /\ NoRow \in RowType(Wrap, MarkerTtl)
         /\ \A r \in Run : [holder |-> r, left |-> LeaseTtl] \in RowType(Run, LeaseTtl)
         /\ \A w \in Wrap : [holder |-> w, left |-> MarkerTtl] \in RowType(Wrap, MarkerTtl)
  BY TableIsTable DEF Frame, RowType, NoRow

LEMMA StartTypes ==
  ASSUME Frame, RunsOK, NEW p \in Proc, NEW r \in Run,
         Trigger(p) \/ StartAgent(p, r) \/ DropIntent(p) \/ StartRecomp(p, r)
  PROVE  Frame' /\ RunsOK'
<1>1. Frame'
  BY DEF Frame, Trigger, StartAgent, DropIntent, StartRecomp
<1>2. UNCHANGED run \/ run' = [run EXCEPT ![r] = RunAt("checked", p, None)]
  BY DEF Trigger, StartAgent, DropIntent, StartRecomp
<1>3. "checked" \in RunPc /\ "checked" \notin RecompPc
  BY DEF RunPc, StartPc, RecompPc
<1>4. RunAt("checked", p, None) \in RunType(Table) /\ RunAt("checked", p, None).pc = "checked"
  BY <1>3, RunAtType DEF RunAt
<1>5. CASE UNCHANGED run
  BY <1>1, <1>5 DEF RunsOK
<1>6. CASE run' = [run EXCEPT ![r] = RunAt("checked", p, None)]
  BY <1>1, <1>3, <1>4, <1>6, ReplaceRunsOK
<1> QED
  BY <1>1, <1>2, <1>5, <1>6

LEMMA TryLeaseTypes ==
  ASSUME Frame, RunsOK, NEW r \in Run, TryLease(r)
  PROVE  Frame' /\ RunsOK'
<1>1. lease' \in RowType(Run, LeaseTtl)
  BY RowTypes DEF Frame, TryLease, Acquire
<1>2. inProgress' \in BOOLEAN
  BY DEF Frame, TryLease
<1>3. Frame'
  BY <1>1, <1>2 DEF Frame, TryLease
<1>4. CASE run' = [run EXCEPT ![r] = IdleRun]
  BY <1>3, <1>4, IdleRunsOK
<1>5. CASE run' = [run EXCEPT ![r].pc = "leased",
                              ![r].under = IF WrapupLive THEN marker.holder ELSE None]
  <2> DEFINE w == IF WrapupLive THEN marker.holder ELSE None
  <2>1. w \in Wrap \cup {None}
    BY RowTypes
  <2>2. "leased" \in RunPc /\ "leased" \notin RecompPc
    BY DEF RunPc, StartPc, RecompPc
  <2> QED
    BY <1>3, <1>5, <2>1, <2>2, UnderRunsOK DEF ToUnder
<1> QED
  BY <1>3, <1>4, <1>5 DEF TryLease

LEMMA RecheckTypes ==
  ASSUME Frame, RunsOK, NEW r \in Run, Recheck(r)
  PROVE  Frame' /\ RunsOK'
<1>1. lease' \in RowType(Run, LeaseTtl)
  BY RowTypes DEF Frame, Recheck
<1>2. inProgress' \in BOOLEAN
  BY DEF Frame, Recheck
<1>3. active' \in [Proc -> Run \cup {None}]
  BY DEF Frame, Recheck
<1>4. Frame'
  BY <1>1, <1>2, <1>3 DEF Frame, Recheck
<1>5. CASE run' = [run EXCEPT ![r] = IdleRun]
  BY <1>4, <1>5, IdleRunsOK
<1>6. CASE Goto(r, "rechecked")
  <2>1. "rechecked" \in RunPc /\ "rechecked" \notin RecompPc
    BY DEF RunPc, AgentPc, RecompPc
  <2> QED
    BY <1>4, <1>6, <2>1, GotoRunsOK
<1>7. CASE /\ r \in RecompRun
           /\ \E tail \in 1..(MaxMsg + 1) :
                run' = [run EXCEPT ![r].pc = "preparing",
                                   ![r].snap = [off |-> 1, seq |-> 0, elig |-> tail]]
  <2>1. PICK tail \in 1..(MaxMsg + 1) :
                run' = [run EXCEPT ![r].pc = "preparing",
                                   ![r].snap = [off |-> 1, seq |-> 0, elig |-> tail]]
    BY <1>7
  <2>2. [off |-> 1, seq |-> 0, elig |-> tail] \in SnapType /\ "preparing" \in RunPc
    BY DEF SnapType, RunPc, RecompPc
  <2> QED
    BY <1>4, <1>7, <2>1, <2>2, SnapRunsOK
<1> QED
  BY <1>5, <1>6, <1>7 DEF Recheck

LEMMA SnapshotTypes ==
  ASSUME Frame, RunsOK, NEW r \in Run, Snapshot(r)
  PROVE  Frame' /\ RunsOK'
<1>1. Frame'
  BY DEF Frame, Snapshot
<1>2. CASE Finish(r)
  BY <1>1, <1>2, FinishRunsOK
<1>3. CASE ~Finish(r)
  <2> DEFINE off == NextOrdinal(rows)
             limits == IF r \in WrapRun
                       THEN { wrap[w].target : w \in { v \in Wrap : wrap[v].iter = r } }
                       ELSE { MaxMsg + 1 }
  <2> DEFINE Takes(elig) == run' = [run EXCEPT ![r].pc = "chunking",
                                     ![r].snap = [off |-> off, seq |-> NextSeq(rows),
                                                  elig |-> elig]]
  <2>0. PICK limit \in limits : \E elig \in (off + 1)..limit : Takes(elig)
    BY <1>3 DEF Snapshot
  <2>1. PICK elig \in (off + 1)..limit : Takes(elig)
    BY <2>0
  <2>2. limit \in 1..(MaxMsg + 1)
    BY DEF Frame, WrapType
  <2>3. off \in 1..(MaxMsg + 1) /\ NextSeq(rows) \in Nat
    BY NextOrdinalProps, NextSeqProps, RowTypes
  <2>4. elig \in 1..(MaxMsg + 1) /\ off < elig
    BY <2>2, <2>3
  <2>5. [off |-> off, seq |-> NextSeq(rows), elig |-> elig] \in SnapType
    BY <2>3, <2>4 DEF SnapType
  <2>6. "chunking" \in RunPc /\ "chunking" \notin RecompPc
    BY DEF RunPc, AgentPc, RecompPc
  <2> QED
    BY <1>1, <2>1, <2>4, <2>5, <2>6, SnapRunsOK
<1> QED
  BY <1>2, <1>3

LEMMA SpawnTypes ==
  ASSUME Frame, RunsOK, NEW r \in Run, Spawn(r)
  PROVE  Frame' /\ RunsOK'
<1>1. Frame'
  BY DEF Frame, Spawn
<1>2. "awaiting" \in RunPc /\ "awaiting" \notin RecompPc /\ "awaiting" # "chunking"
  BY DEF RunPc, AgentPc, RecompPc
<1> QED
  BY <1>1, <1>2, GotoRunsOK DEF Spawn

\* The row persistFilteredNoise adds.
LEMMA NoiseRow ==
  ASSUME Frame, RunsOK, NEW r \in Run, At(r, {"chunking"})
  PROVE  LET t == [i \in {NextSeq(rows)} |-> [s |-> run[r].snap.off, e |-> run[r].snap.elig - 1]]
         IN IsTable(t) /\ DOMAIN t = {NextSeq(rows)}
            /\ t[NextSeq(rows)].s = run[r].snap.off
<1> DEFINE c == [s |-> run[r].snap.off, e |-> run[r].snap.elig - 1]
<1>1. run[r].snap.off < run[r].snap.elig
  BY DEF At, RunsOK
<1>2. c \in Cell /\ c.s = run[r].snap.off
  BY <1>1, RunTypes DEF Cell, Ordinal
<1>3. NextSeq(rows) \in Nat
  BY RowTypes, NextSeqProps
<1> QED
  BY <1>2, <1>3, OneRowIsTable

LEMMA PersistNoiseTypes ==
  ASSUME Frame, RunsOK, NEW r \in Run, PersistNoise(r)
  PROVE  Frame' /\ RunsOK'
<1>1. rows' \in Table
  BY NoiseRow, RowTypes, OverwriteIsTable, TableIsTable DEF PersistNoise
<1>2. Frame'
  BY <1>1 DEF Frame, PersistNoise
<1> QED
  BY <1>2, FinishRunsOK DEF PersistNoise

\* The block a historian run publishes.
LEMMA PublishBlock ==
  ASSUME Frame, RunsOK, NEW r \in Run, Publish(r)
  PROVE  \E block : /\ IsTable(block)
                    /\ run[r].snap.seq \in DOMAIN block
                    /\ block[run[r].snap.seq].s = run[r].snap.off
                    /\ DOMAIN block \cap DOMAIN rows = {}
                    /\ rows' = Overwrite(rows, block)
<1>1. PICK b \in run[r].snap.off..(run[r].snap.elig - 1) :
        \E block \in Splits(run[r].snap.seq, run[r].snap.off, b) :
          /\ DOMAIN block \cap DOMAIN rows = {}
          /\ rows' = Overwrite(rows, block)
  BY DEF Publish
<1>2. PICK block \in Splits(run[r].snap.seq, run[r].snap.off, b) :
          /\ DOMAIN block \cap DOMAIN rows = {}
          /\ rows' = Overwrite(rows, block)
  BY <1>1
<1>3. run[r].snap.seq \in Nat /\ run[r].snap.off \in Ordinal /\ b \in Ordinal
  BY RunTypes DEF Ordinal
<1> QED
  BY <1>2, <1>3, SplitsProps

LEMMA PublishTypes ==
  ASSUME Frame, RunsOK, NEW r \in Run, Publish(r)
  PROVE  Frame' /\ RunsOK'
<1>1. rows' \in Table
  BY PublishBlock, RowTypes, OverwriteIsTable, TableIsTable
<1>2. Frame'
  BY <1>1 DEF Frame, Publish
<1> QED
  BY <1>2, FinishRunsOK DEF Publish

LEMMA EndTypes ==
  ASSUME Frame, RunsOK, NEW r \in Run, NoOp(r) \/ PassFails(r) \/ EndRun(r)
  PROVE  Frame' /\ RunsOK'
<1>1. Frame'
  BY DEF Frame, NoOp, PassFails, EndRun
<1>2. CASE NoOp(r) \/ PassFails(r)
  BY <1>1, <1>2, FinishRunsOK DEF NoOp, PassFails
<1>3. CASE EndRun(r)
  <2>1. "releasing" \in RunPc /\ "releasing" \notin RecompPc /\ "releasing" # "chunking"
    BY DEF RunPc, EndPc, RecompPc
  <2> QED
    BY <1>1, <1>3, <2>1, GotoRunsOK DEF EndRun
<1> QED
  BY <1>2, <1>3

LEMMA ReleaseTypes ==
  ASSUME Frame, RunsOK, NEW r \in Run, Release(r)
  PROVE  Frame' /\ RunsOK'
<1>1. lease' \in RowType(Run, LeaseTtl)
  BY RowTypes DEF Frame, Release
<1>2. active' \in [Proc -> Run \cup {None}]
  BY DEF Frame, Release, Forget
<1>3. Frame'
  BY <1>1, <1>2 DEF Frame, Release
<1> QED
  BY <1>3, IdleRunsOK DEF Release

LEMMA RenewTypes ==
  ASSUME Frame, RunsOK, NEW r \in Run, Renew(r)
  PROVE  Frame' /\ RunsOK'
<1>1. lease' \in RowType(Run, LeaseTtl)
  BY RowTypes DEF Renew, Acquire
<1> QED
  BY <1>1 DEF Frame, RunsOK, Renew

LEMMA RecompTypes ==
  ASSUME Frame, RunsOK, NEW r \in Run, RecompStep(r)
  PROVE  Frame' /\ RunsOK'
<1>0. /\ RecompPc \subseteq RunPc
      /\ "chunking" \notin RecompPc
      /\ "passing" \in RecompPc /\ "saving" \in RecompPc /\ "promoting" \in RecompPc
  BY DEF RunPc, RecompPc
<1>1. CASE ReadStaging(r)
  <2>1. r \in RecompRun
    BY <1>1 DEF ReadStaging, At, RunsOK, RecompPc
  <2>2. RunsOK'
    BY <1>0, <1>1, <2>1, CandRunsOK DEF ReadStaging, Frame, ToCand
  <2> QED
    BY <1>1, <2>2 DEF Frame, ReadStaging
<1>2. CASE RecompPass(r)
  <2>1. PICK b \in NextOrdinal(run[r].cand)..(run[r].snap.elig - 1) :
          \E block \in Splits(NextSeq(run[r].cand), NextOrdinal(run[r].cand), b) :
             /\ run' = [run EXCEPT ![r].cand = Overwrite(run[r].cand, block)]
             /\ staging' = Overwrite(staging, Overwrite(run[r].cand, block))
    BY <1>2 DEF RecompPass
  <2>2. PICK block \in Splits(NextSeq(run[r].cand), NextOrdinal(run[r].cand), b) :
             /\ run' = [run EXCEPT ![r].cand = Overwrite(run[r].cand, block)]
             /\ staging' = Overwrite(staging, Overwrite(run[r].cand, block))
    BY <2>1
  <2>3. NextSeq(run[r].cand) \in Nat /\ NextOrdinal(run[r].cand) \in Ordinal /\ b \in Ordinal
    BY RunTypes, NextSeqProps, NextOrdinalProps DEF Ordinal
  <2>4. IsTable(block)
    BY <2>2, <2>3, SplitsProps
  <2>5. IsTable(Overwrite(run[r].cand, block))
    BY <2>4, RunTypes, OverwriteIsTable
  <2>6. staging' \in Table
    BY <2>2, <2>5, RowTypes, OverwriteIsTable, TableIsTable
  <2>7. RunsOK'
    BY <2>2, <2>5, AddCandRunsOK, TableIsTable
  <2> QED
    BY <1>2, <2>6, <2>7 DEF Frame, RecompPass
<1>3. CASE RecompLoopEnds(r)
  <2>1. staging' \in Table
    BY <1>3, IdleTypes DEF RecompLoopEnds, Frame
  <2>2. Frame'
    BY <1>3, <2>1 DEF Frame, RecompLoopEnds
  <2>3. r \in RecompRun
    BY <1>3 DEF RecompLoopEnds, At, RunsOK, RecompPc
  <2> QED
    BY <1>0, <1>3, <2>2, <2>3, GotoRunsOK, FinishRunsOK DEF RecompLoopEnds
<1>4. CASE SaveCandidates(r)
  <2>1. staging' \in Table
    BY <1>4, RunTypes, RowTypes, OverwriteIsTable, TableIsTable DEF SaveCandidates
  <2>2. Frame'
    BY <1>4, <2>1 DEF Frame, SaveCandidates
  <2>3. r \in RecompRun
    BY <1>4 DEF SaveCandidates, At, RunsOK, RecompPc
  <2> QED
    BY <1>0, <1>4, <2>2, <2>3, GotoRunsOK DEF SaveCandidates
<1>5. CASE Promote(r)
  <2>1. rows' \in Table /\ staging' \in Table
    BY <1>5, IdleTypes DEF Promote, Frame
  <2>2. Frame'
    BY <1>5, <2>1 DEF Frame, Promote
  <2> QED
    BY <1>5, <2>2, FinishRunsOK DEF Promote
<1> QED
  BY <1>1, <1>2, <1>3, <1>4, <1>5 DEF RecompStep

LEMMA StartWrapupTypes ==
  ASSUME Frame, RunsOK, NEW p \in Proc, NEW w \in Wrap, StartWrapup(p, w)
  PROVE  Frame' /\ RunsOK'
<1>1. marker' \in RowType(Wrap, MarkerTtl)
  BY RowTypes DEF StartWrapup
<1>2. PICK target \in (NextOrdinal(rows) + 1)..(MaxMsg + 1) :
        wrap' = [wrap EXCEPT ![w] = [pc |-> "waiting", proc |-> p, target |-> target,
                                     before |-> 0, iter |-> None, lost |-> FALSE]]
  BY DEF StartWrapup
<1>3. target \in 1..(MaxMsg + 1)
  BY RowTypes, NextOrdinalProps
<1>4. wrap' \in [Wrap -> WrapType]
  BY <1>2, <1>3 DEF Frame, WrapType, WrapPc
<1> QED
  BY <1>1, <1>4 DEF Frame, RunsOK, StartWrapup

\* The ways in which an action changes one wrapup.
LEMMA WrapMoves ==
  ASSUME Frame, NEW w \in Wrap, NEW x \in WrapPc
  PROVE  /\ [wrap EXCEPT ![w].pc = x] \in [Wrap -> WrapType]
         /\ \A n \in 0..MaxMsg : [wrap EXCEPT ![w].pc = x, ![w].before = n] \in [Wrap -> WrapType]
         /\ \A r \in WrapRun \cup {None} :
              [wrap EXCEPT ![w].pc = x, ![w].iter = r] \in [Wrap -> WrapType]
         /\ [wrap EXCEPT ![w].lost = TRUE] \in [Wrap -> WrapType]
         /\ [wrap EXCEPT ![w] = IdleWrap] \in [Wrap -> WrapType]
<1>1. [wrap EXCEPT ![w].pc = x] \in [Wrap -> WrapType]
  BY DEF Frame, WrapType
<1>2. ASSUME NEW n \in 0..MaxMsg
      PROVE  [wrap EXCEPT ![w].pc = x, ![w].before = n] \in [Wrap -> WrapType]
  <2> DEFINE R == [wrap[w] EXCEPT !.pc = x, !.before = n]
  <2>1. R \in WrapType
    BY DEF Frame, WrapType
  <2>2. [wrap EXCEPT ![w].pc = x, ![w].before = n] = [wrap EXCEPT ![w] = R]
    BY DEF Frame, WrapType
  <2> HIDE DEF R
  <2> QED
    BY <2>1, <2>2 DEF Frame
<1>3. ASSUME NEW r \in WrapRun \cup {None}
      PROVE  [wrap EXCEPT ![w].pc = x, ![w].iter = r] \in [Wrap -> WrapType]
  <2> DEFINE R == [wrap[w] EXCEPT !.pc = x, !.iter = r]
  <2>1. R \in WrapType
    BY DEF Frame, WrapType
  <2>2. [wrap EXCEPT ![w].pc = x, ![w].iter = r] = [wrap EXCEPT ![w] = R]
    BY DEF Frame, WrapType
  <2> HIDE DEF R
  <2> QED
    BY <2>1, <2>2 DEF Frame
<1>4. [wrap EXCEPT ![w].lost = TRUE] \in [Wrap -> WrapType]
  BY DEF Frame, WrapType
<1>5. [wrap EXCEPT ![w] = IdleWrap] \in [Wrap -> WrapType]
  BY IdleTypes DEF Frame
<1> QED
  BY <1>1, <1>2, <1>3, <1>4, <1>5

LEMMA MarkerTypes ==
  ASSUME Frame, marker' \in {marker, NoRow, [marker EXCEPT !.left = MarkerTtl]}
  PROVE  marker' \in RowType(Wrap, MarkerTtl)
<1>1. [marker EXCEPT !.left = MarkerTtl] \in RowType(Wrap, MarkerTtl)
  BY DEF Frame, RowType
<1> QED
  BY <1>1, RowTypes DEF Frame

LEMMA WrapTypes ==
  ASSUME Frame, RunsOK, NEW w \in Wrap,
         \/ WrapWait(w) \/ WrapPlan(w) \/ WrapRetry(w) \/ WrapGivesUp(w)
         \/ WrapIterated(w) \/ WrapRelease(w) \/ RenewMarker(w)
  PROVE  Frame' /\ RunsOK'
<1>0. {"waiting", "looping", "acquiring", "iterating", "releasing"} \subseteq WrapPc
  BY DEF WrapPc
<1>1. RunsOK'
  BY DEF RunsOK, WrapWait, WrapPlan, WrapRetry, WrapGivesUp, WrapIterated, WrapRelease,
         RenewMarker
<1>2. marker' \in RowType(Wrap, MarkerTtl)
  BY MarkerTypes DEF WrapWait, WrapPlan, WrapRetry, WrapGivesUp, WrapIterated, WrapRelease,
         RenewMarker
<1>g. ASSUME NEW x \in WrapPc, WrapGoto(w, x) PROVE wrap' \in [Wrap -> WrapType]
  <2>1. [wrap EXCEPT ![w].pc = x] \in [Wrap -> WrapType]
    BY WrapMoves
  <2> QED
    BY <1>g, <2>1 DEF WrapGoto
<1>3. wrap' \in [Wrap -> WrapType]
  <2>0. UNCHANGED wrap => wrap' \in [Wrap -> WrapType]
    BY DEF Frame
  <2>1. CASE WrapWait(w)
    <3>1. WrapGoto(w, "looping") \/ WrapGoto(w, "releasing")
      BY <2>1 DEF WrapWait
    <3> QED
      BY <1>0, <1>g, <3>1
  <2>2. CASE WrapPlan(w)
    <3>1. \/ WrapGoto(w, "releasing")
          \/ wrap' = [wrap EXCEPT ![w].pc = "acquiring", ![w].before = LastEnd(rows)]
      BY <2>2 DEF WrapPlan
    <3>2. LastEnd(rows) \in 0..MaxMsg
      BY RowTypes, LastEndProps
    <3>3. [wrap EXCEPT ![w].pc = "acquiring", ![w].before = LastEnd(rows)] \in [Wrap -> WrapType]
      BY <1>0, <3>2, WrapMoves
    <3> QED
      BY <1>0, <1>g, <3>1, <3>3
  <2>3. CASE WrapRetry(w)
    BY <2>0, <2>3 DEF WrapRetry
  <2>4. CASE WrapGivesUp(w)
    BY <1>0, <1>g, <2>4 DEF WrapGivesUp
  <2>5. CASE WrapIterated(w)
    BY <1>0, <2>5, WrapMoves DEF WrapIterated
  <2>6. CASE WrapRelease(w)
    BY <1>0, <2>6, WrapMoves DEF WrapRelease
  <2>7. CASE RenewMarker(w)
    <3>1. UNCHANGED wrap \/ wrap' = [wrap EXCEPT ![w].lost = TRUE]
      BY <2>7 DEF RenewMarker
    <3>2. [wrap EXCEPT ![w].lost = TRUE] \in [Wrap -> WrapType]
      BY <1>0, WrapMoves
    <3> QED
      BY <2>0, <3>1, <3>2
  <2> QED
    BY <2>1, <2>2, <2>3, <2>4, <2>5, <2>6, <2>7
<1>4. UNCHANGED <<lease, rows, staging, inProgress, active, crashes>>
  BY DEF WrapWait, WrapPlan, WrapRetry, WrapGivesUp, WrapIterated, WrapRelease, RenewMarker
<1> QED
  BY <1>1, <1>2, <1>3, <1>4 DEF Frame

LEMMA WrapAcquireTypes ==
  ASSUME Frame, RunsOK, NEW w \in Wrap, NEW r \in WrapRun, WrapAcquire(w, r)
  PROVE  Frame' /\ RunsOK'
<1>0. r \in Run
  BY DEF Run
<1>1. lease' \in RowType(Run, LeaseTtl)
  BY <1>0, RowTypes DEF WrapAcquire, Acquire
<1>2. wrap' \in [Wrap -> WrapType]
  BY WrapMoves DEF WrapAcquire, WrapPc
<1>3. Frame'
  BY <1>1, <1>2 DEF Frame, WrapAcquire
<1> DEFINE x == RunAt("rechecked", wrap[w].proc, w)
<1>4. "rechecked" \in RunPc /\ "rechecked" \notin RecompPc \cup {"chunking"}
  BY DEF RunPc, AgentPc, RecompPc
<1>5. wrap[w].proc \in Proc \cup {None}
  BY DEF Frame, WrapType
<1>6. x \in RunType(Table) /\ x.pc = "rechecked"
  BY <1>4, <1>5, RunAtType DEF RunAt
<1> QED
  BY <1>0, <1>3, <1>4, <1>6, ReplaceRunsOK DEF WrapAcquire

LEMMA CrashTypes ==
  ASSUME Frame, RunsOK, NEW p \in Proc, Crash(p)
  PROVE  Frame' /\ RunsOK'
<1>1. wrap' \in [Wrap -> WrapType]
  BY IdleTypes DEF Crash, Frame
<1>2. active' \in [Proc -> Run \cup {None}] /\ crashes' \in 0..MaxCrashes
  BY DEF Crash, Frame
<1>3. Frame'
  BY <1>1, <1>2 DEF Crash, Frame
<1>4. /\ run' \in [Run -> RunType(Table)]
      /\ \A r \in Run : run'[r] = IdleRun \/ run'[r] = run[r]
  BY IdleTypes DEF Crash, RunsOK
<1>5. IdleRun.pc \notin RecompPc \cup {"chunking"}
  BY IdleTypes DEF RecompPc
<1> QED
  BY <1>3, <1>4, <1>5 DEF RunsOK

LEMMA TickTypes ==
  ASSUME Frame, RunsOK, Tick
  PROVE  Frame' /\ RunsOK'
<1>1. lease' \in RowType(Run, LeaseTtl)
  BY DEF Frame, Tick, Less, RowType
<1>2. marker' \in RowType(Wrap, MarkerTtl)
  BY DEF Frame, Tick, Less, RowType
<1> QED
  BY <1>1, <1>2 DEF Frame, RunsOK, Tick

\* The steps, as the proofs below take them one by one.
LEMMA NextCases ==
  Next => \/ \E p \in Proc : Pass(p) \/ DiscardStaging(p) \/ Crash(p)
          \/ \E p \in Proc, r \in RecompRun : StartRecomp(p, r)
          \/ \E p \in Proc, w \in Wrap : StartWrapup(p, w)
          \/ \E r \in Run : RunStep(r) \/ Renew(r)
          \/ \E w \in Wrap : WrapStep(w) \/ WrapRetry(w) \/ RenewMarker(w)
          \/ Tick
<1>1. IncRun \cup WrapRun \subseteq Run /\ RecompRun \subseteq Run
  BY DEF Run
<1> QED
  BY <1>1 DEF Next, RunStep

LEMMA StepTypeInv == TypeInv /\ [Next]_vars => TypeInv'
<1> SUFFICES ASSUME TypeInv, [Next]_vars PROVE Frame' /\ RunsOK'
  BY TypeInvParts DEF TypeInv, Frame, RunsOK
<1>0. Frame /\ RunsOK
  BY TypeInvParts
<1>a. IncRun \subseteq Run /\ RecompRun \subseteq Run
  BY DEF Run
<1>1. ASSUME NEW p \in Proc, Pass(p) PROVE Frame' /\ RunsOK'
  <2>1. CASE \E r \in IncRun : StartAgent(p, r)
    BY <1>0, <1>a, <2>1, StartTypes
  <2>2. CASE Trigger(p) \/ DropIntent(p)
    BY <1>0, <2>2 DEF Frame, RunsOK, Trigger, DropIntent
  <2> QED
    BY <1>1, <2>1, <2>2 DEF Pass
<1>2. ASSUME NEW p \in Proc, Crash(p) PROVE Frame' /\ RunsOK'
  BY <1>0, <1>2, CrashTypes
<1>3. ASSUME NEW p \in Proc, NEW r \in RecompRun, StartRecomp(p, r) PROVE Frame' /\ RunsOK'
  BY <1>0, <1>a, <1>3, StartTypes
<1>4. ASSUME NEW p \in Proc, NEW w \in Wrap, StartWrapup(p, w) PROVE Frame' /\ RunsOK'
  BY <1>0, <1>4, StartWrapupTypes
<1>5. ASSUME NEW r \in Run, RunStep(r) PROVE Frame' /\ RunsOK'
  BY <1>0, <1>5, TryLeaseTypes, RecheckTypes, SnapshotTypes, EndTypes, PersistNoiseTypes,
     SpawnTypes, PublishTypes, RecompTypes, ReleaseTypes DEF RunStep, LeaseStep, AgentStep
<1>6. ASSUME NEW r \in Run, Renew(r) PROVE Frame' /\ RunsOK'
  BY <1>0, <1>6, RenewTypes
<1>7. ASSUME NEW w \in Wrap, WrapStep(w) \/ WrapRetry(w) \/ RenewMarker(w)
      PROVE  Frame' /\ RunsOK'
  BY <1>0, <1>7, WrapTypes, WrapAcquireTypes DEF WrapStep
<1>8. CASE Tick
  BY <1>0, <1>8, TickTypes
<1>9. CASE UNCHANGED vars
  BY <1>0, <1>9 DEF vars, Frame, RunsOK
<1>10. ASSUME NEW p \in Proc, DiscardStaging(p) PROVE Frame' /\ RunsOK'
  BY <1>0, <1>10, TableIsTable, NoRowsIsTable DEF Frame, RunsOK, DiscardStaging
<1> QED
  BY <1>1, <1>2, <1>3, <1>4, <1>5, <1>6, <1>7, <1>8, <1>9, <1>10, NextCases

LEMMA AlwaysTypeInv == Spec => []TypeInv
  BY InitTypeInv, StepTypeInv, PTL DEF Spec

\* Every variable keeps its type, whatever the runs, wrapups and crashes do.
THEOREM TypeCorrect == Spec => []TypeOK
  BY AlwaysTypeInv, TypeInvTypeOK, PTL

-----------------------------------------------------------------------------
(* No lost update.  A run that holds the lease and is still to write has a *)
(* snapshot that is the table's state, unless the sequence number it means *)
(* to use is taken, and then its INSERT fails.                             *)

Current(r) == NextSeq(rows) = run[r].snap.seq /\ NextOrdinal(rows) = run[r].snap.off
Taken(r) == run[r].snap.seq \in DOMAIN rows

WorkPc == {"chunking", "awaiting"}
SnapInv == \A r \in Run : run[r].pc \in WorkPc /\ Held(r) => Current(r) \/ Taken(r)

\* Nobody but r gets the lease or changes, and r itself is not at work or has
\* a snapshot that will do.
LEMMA SnapKept ==
  ASSUME SnapInv, UNCHANGED rows, NEW r \in Run,
         \A q \in Run \ {r} : run'[q] = run[q] /\ (Held(q)' => Held(q)),
         run'[r].pc \in WorkPc /\ Held(r)' => Current(r)' \/ Taken(r)'
  PROVE  SnapInv'
<1> SUFFICES ASSUME NEW q \in Run, run'[q].pc \in WorkPc, Held(q)'
             PROVE  Current(q)' \/ Taken(q)'
  BY DEF SnapInv
<1>1. CASE q = r
  BY <1>1
<1>2. CASE q # r
  <2>1. Current(q) \/ Taken(q)
    BY <1>2 DEF SnapInv
  <2>2. run'[q].snap = run[q].snap
    BY <1>2
  <2> QED
    BY <2>1, <2>2 DEF Current, Taken
<1> QED
  BY <1>1, <1>2

\* A run that is not at work when the step is over.
LEMMA SnapIdle ==
  ASSUME SnapInv, UNCHANGED rows, NEW r \in Run, run'[r].pc \notin WorkPc,
         \A q \in Run \ {r} : run'[q] = run[q],
         lease' \in {lease, NoRow, [holder |-> r, left |-> LeaseTtl]},
         None \notin Run
  PROVE  SnapInv'
<1>1. \A q \in Run \ {r} : Held(q)' => Held(q)
  BY DEF Held, NoRow
<1> QED
  BY <1>1, SnapKept

\* Steps that leave the runs and the table alone and give no run the lease.
LEMMA SnapSame ==
  ASSUME SnapInv, UNCHANGED <<rows, run>>, \A q \in Run : Held(q)' => Held(q)
  PROVE  SnapInv'
  BY DEF SnapInv, Current, Taken

LEMMA NoneNoRun == None \notin Run /\ None \notin Wrap /\ None \notin Proc
  BY IdAssumption DEF Run

\* Only one run holds the lease.
LEMMA HeldOnce ==
  ASSUME NEW q, NEW r, Held(q), Held(r)
  PROVE  q = r
  BY DEF Held

LEMMA TryLeaseSnap ==
  ASSUME RunsOK, SnapInv, NEW r \in Run, TryLease(r)
  PROVE  SnapInv'
<1>1. run'[r].pc \notin WorkPc /\ \A q \in Run \ {r} : run'[q] = run[q]
  BY IdleTypes DEF TryLease, RunsOK, RunType, WorkPc
<1> QED
  BY <1>1, SnapIdle, NoneNoRun DEF TryLease, Acquire

LEMMA RecheckSnap ==
  ASSUME RunsOK, SnapInv, NEW r \in Run, Recheck(r)
  PROVE  SnapInv'
<1>1. run'[r].pc \notin WorkPc /\ \A q \in Run \ {r} : run'[q] = run[q]
  BY IdleTypes DEF Recheck, Goto, RunsOK, RunType, WorkPc
<1> QED
  BY <1>1, SnapIdle, NoneNoRun DEF Recheck

\* The ways out of a run's body.
LEMMA FinishMoves ==
  ASSUME RunsOK, NEW r \in Run, Finish(r)
  PROVE  run'[r].pc \notin WorkPc /\ \A q \in Run \ {r} : run'[q] = run[q]
<1>1. run'[r] = RunAt("finishing", run[r].proc, None)
  BY DEF Finish, RunsOK
<1>2. run'[r].pc = "finishing"
  BY <1>1 DEF RunAt
<1> QED
  BY <1>2 DEF Finish, RunsOK, WorkPc

LEMMA FinishSnap ==
  ASSUME RunsOK, SnapInv, NEW r \in Run, Finish(r), UNCHANGED <<rows, lease>>
  PROVE  SnapInv'
<1>1. run'[r].pc \notin WorkPc /\ \A q \in Run \ {r} : run'[q] = run[q]
  BY FinishMoves
<1> QED
  BY <1>1, SnapIdle, NoneNoRun

LEMMA GotoSnap ==
  ASSUME RunsOK, SnapInv, NEW r \in Run, NEW x \in RunPc \ WorkPc, Goto(r, x),
         UNCHANGED <<rows, lease>>
  PROVE  SnapInv'
<1>1. run'[r].pc \notin WorkPc /\ \A q \in Run \ {r} : run'[q] = run[q]
  BY DEF Goto, RunsOK, RunType
<1> QED
  BY <1>1, SnapIdle, NoneNoRun

LEMMA SnapshotSnap ==
  ASSUME RunsOK, SnapInv, NEW r \in Run, Snapshot(r)
  PROVE  SnapInv'
<1>0. UNCHANGED <<rows, lease>>
  BY DEF Snapshot
<1>1. CASE Finish(r)
  BY <1>0, <1>1, FinishSnap
<1>2. CASE \E elig : run' = [run EXCEPT ![r].pc = "chunking",
                             ![r].snap = [off |-> NextOrdinal(rows), seq |-> NextSeq(rows),
                                          elig |-> elig]]
  <2>1. PICK elig : run' = [run EXCEPT ![r].pc = "chunking",
                             ![r].snap = [off |-> NextOrdinal(rows), seq |-> NextSeq(rows),
                                          elig |-> elig]]
    BY <1>2
  <2>2. /\ run'[r].snap.off = NextOrdinal(rows) /\ run'[r].snap.seq = NextSeq(rows)
        /\ \A q \in Run \ {r} : run'[q] = run[q]
    BY <2>1 DEF RunsOK, RunType
  <2>3. Current(r)' /\ \A q \in Run : Held(q)' => Held(q)
    BY <1>0, <2>2 DEF Current, Held
  <2> QED
    BY <1>0, <2>2, <2>3, SnapKept
<1> QED
  BY <1>1, <1>2 DEF Snapshot

\* The chunk turns out to be worth a model call; the snapshot is the same.
LEMMA SpawnSnap ==
  ASSUME RunsOK, SnapInv, NEW r \in Run, Spawn(r)
  PROVE  SnapInv'
<1>0. UNCHANGED <<rows, lease>> /\ run[r].pc = "chunking"
  BY DEF Spawn, At
<1>1. run'[r].snap = run[r].snap /\ \A q \in Run \ {r} : run'[q] = run[q]
  BY DEF Spawn, Goto, RunsOK, RunType
<1>2. \A q \in Run : Held(q)' => Held(q)
  BY <1>0 DEF Held
<1>3. Held(r)' => Current(r)' \/ Taken(r)'
  BY <1>0, <1>1, <1>2 DEF SnapInv, WorkPc, Current, Taken
<1> QED
  BY <1>0, <1>1, <1>2, <1>3, SnapKept

\* The noise row takes the number every run with a fresh snapshot means to use.
LEMMA PersistNoiseSnap ==
  ASSUME Frame, RunsOK, SnapInv, NEW r \in Run, PersistNoise(r)
  PROVE  SnapInv'
<1>1. CASE UNCHANGED rows
  BY <1>1, FinishSnap DEF PersistNoise
<1>2. CASE rows' # rows
  <2>1. DOMAIN rows' = DOMAIN rows \cup {NextSeq(rows)}
    BY <1>2, NoiseRow, RowTypes, OverwriteIsTable DEF PersistNoise
  <2>2. run'[r].pc \notin WorkPc /\ \A q \in Run \ {r} : run'[q] = run[q]
    BY FinishMoves DEF PersistNoise
  <2>3. ASSUME NEW q \in Run \ {r}, run'[q].pc \in WorkPc, Held(q)' PROVE Taken(q)'
    <3>1. run[q].pc \in WorkPc /\ Held(q) /\ run'[q].snap = run[q].snap
      BY <2>2, <2>3 DEF PersistNoise, Held
    <3> QED
      BY <2>1, <3>1 DEF SnapInv, Current, Taken
  <2> QED
    BY <2>2, <2>3 DEF SnapInv
<1> QED
  BY <1>1, <1>2

\* Who writes the table under the lease is the only one who holds it.
LEMMA HolderSnap ==
  ASSUME RunsOK, NEW r \in Run, Held(r), Finish(r), UNCHANGED lease
  PROVE  SnapInv'
<1>1. run'[r].pc \notin WorkPc
  BY FinishMoves
<1>2. \A q \in Run : Held(q)' => q = r
  BY HeldOnce DEF Held
<1> QED
  BY <1>1, <1>2 DEF SnapInv

LEMMA ReleaseSnap ==
  ASSUME RunsOK, SnapInv, NEW r \in Run, Release(r)
  PROVE  SnapInv'
<1>1. run'[r].pc \notin WorkPc /\ \A q \in Run \ {r} : run'[q] = run[q]
  BY IdleTypes DEF Release, RunsOK, WorkPc
<1> QED
  BY <1>1, SnapIdle, NoneNoRun DEF Release

LEMMA RecompSnap ==
  ASSUME RunsOK, SnapInv, NEW r \in Run, RecompStep(r)
  PROVE  SnapInv'
<1>0. {"passing", "saving", "promoting"} \subseteq RunPc \ WorkPc
  BY DEF RunPc, RecompPc, WorkPc
<1>1. CASE ReadStaging(r) \/ RecompPass(r)
  <2>1. run'[r].pc \notin WorkPc /\ \A q \in Run \ {r} : run'[q] = run[q]
    BY <1>1 DEF ReadStaging, RecompPass, At, RunsOK, RunType, WorkPc
  <2> QED
    BY <1>1, <2>1, SnapIdle, NoneNoRun DEF ReadStaging, RecompPass
<1>2. CASE RecompLoopEnds(r)
  BY <1>0, <1>2, GotoSnap, FinishSnap DEF RecompLoopEnds
<1>3. CASE SaveCandidates(r)
  BY <1>0, <1>3, GotoSnap DEF SaveCandidates
<1>4. CASE Promote(r)
  BY <1>4, HolderSnap, FinishSnap DEF Promote
<1> QED
  BY <1>1, <1>2, <1>3, <1>4 DEF RecompStep

LEMMA StepSnapInv == TypeInv /\ SnapInv /\ [Next]_vars => SnapInv'
<1> SUFFICES ASSUME Frame, RunsOK, SnapInv, [Next]_vars PROVE SnapInv'
  BY TypeInvParts
<1>a. IncRun \subseteq Run /\ RecompRun \subseteq Run /\ WrapRun \subseteq Run
  BY DEF Run
<1>b. \A q \in Run : UNCHANGED lease => (Held(q)' => Held(q))
  BY DEF Held
<1>1. ASSUME NEW p \in Proc, NEW r \in Run, StartAgent(p, r) \/ StartRecomp(p, r)
      PROVE  SnapInv'
  <2>1. CASE UNCHANGED run
    BY <1>b, <1>1, <2>1, SnapSame DEF StartAgent, StartRecomp
  <2>2. CASE run' = [run EXCEPT ![r] = RunAt("checked", p, None)]
    <3>1. run'[r].pc \notin WorkPc /\ \A q \in Run \ {r} : run'[q] = run[q]
      BY <2>2 DEF RunsOK, RunAt, WorkPc
    <3> QED
      BY <1>1, <3>1, SnapIdle, NoneNoRun DEF StartAgent, StartRecomp
  <2> QED
    BY <1>1, <2>1, <2>2 DEF StartAgent, StartRecomp
<1>2. ASSUME NEW p \in Proc, Pass(p) PROVE SnapInv'
  <2>1. CASE \E r \in IncRun : StartAgent(p, r)
    BY <1>1, <1>a, <2>1
  <2>2. CASE Trigger(p) \/ DropIntent(p)
    BY <1>b, <2>2, SnapSame DEF Trigger, DropIntent
  <2> QED
    BY <1>2, <2>1, <2>2 DEF Pass
<1>3. ASSUME NEW p \in Proc, Crash(p) PROVE SnapInv'
  <2>1. \A q \in Run : run'[q] = IdleRun \/ run'[q] = run[q]
    BY <1>3 DEF Crash
  <2>2. IdleRun.pc \notin WorkPc
    BY IdleTypes DEF WorkPc
  <2> QED
    BY <1>3, <2>1, <2>2 DEF SnapInv, Crash, Held, Current, Taken
<1>4. ASSUME NEW p \in Proc, NEW w \in Wrap, StartWrapup(p, w) PROVE SnapInv'
  BY <1>b, <1>4, SnapSame DEF StartWrapup
<1>5. ASSUME NEW r \in Run, RunStep(r) PROVE SnapInv'
  <2>1. CASE AgentStep(r)
    <3>1. CASE Publish(r)
      BY <3>1, HolderSnap DEF Publish
    <3>2. CASE NoOp(r) \/ PassFails(r)
      BY <3>2, FinishSnap DEF NoOp, PassFails
    <3> QED
      BY <2>1, <3>1, <3>2, SnapshotSnap, PersistNoiseSnap, SpawnSnap DEF AgentStep
  <2>2. CASE EndRun(r)
    <3>1. "releasing" \in RunPc \ WorkPc
      BY DEF RunPc, EndPc, WorkPc
    <3> QED
      BY <2>2, <3>1, GotoSnap DEF EndRun
  <2> QED
    BY <1>5, <2>1, <2>2, TryLeaseSnap, RecheckSnap, RecompSnap, ReleaseSnap DEF RunStep, LeaseStep
<1>6. ASSUME NEW r \in Run, Renew(r) PROVE SnapInv'
  BY <1>6, SnapSame DEF Renew, Acquire, Held
<1>7. ASSUME NEW w \in Wrap, NEW r \in WrapRun, WrapAcquire(w, r) PROVE SnapInv'
  <2>1. run'[r].pc \notin WorkPc /\ \A q \in Run \ {r} : run'[q] = run[q]
    BY <1>a, <1>7 DEF WrapAcquire, RunsOK, RunAt, WorkPc
  <2> QED
    BY <1>a, <1>7, <2>1, SnapIdle, NoneNoRun DEF WrapAcquire, Acquire
<1>8. ASSUME NEW w \in Wrap,
             \/ WrapWait(w) \/ WrapPlan(w) \/ WrapRetry(w) \/ WrapGivesUp(w)
             \/ WrapIterated(w) \/ WrapRelease(w) \/ RenewMarker(w)
      PROVE  SnapInv'
  <2>1. UNCHANGED <<rows, run, lease>>
    BY <1>8 DEF WrapWait, WrapPlan, WrapRetry, WrapGivesUp, WrapIterated, WrapRelease,
                RenewMarker
  <2> QED
    BY <1>b, <2>1, SnapSame
<1>9. CASE Tick
  <2>1. \A q \in Run : Held(q)' => Held(q)
    BY <1>9, RowTypes DEF Tick, Held, Less, Frame, RowType
  <2> QED
    BY <1>9, <2>1, SnapSame DEF Tick
<1>10. CASE UNCHANGED vars
  BY <1>b, <1>10, SnapSame DEF vars
<1>11. ASSUME NEW p \in Proc, DiscardStaging(p) PROVE SnapInv'
  BY <1>b, <1>11, SnapSame DEF DiscardStaging
<1> QED
  BY <1>1, <1>2, <1>3, <1>4, <1>5, <1>6, <1>7, <1>8, <1>9, <1>10, <1>11, <1>a, NextCases DEF WrapStep

LEMMA InitSnapInv == Init => SnapInv
<1> SUFFICES ASSUME Init PROVE \A r \in Run : run[r].pc \notin WorkPc
  BY DEF SnapInv
<1> QED
  BY IdleTypes DEF Init, WorkPc

LEMMA AlwaysSnapInv == Spec => [](TypeInv /\ SnapInv)
  BY InitTypeInv, StepTypeInv, InitSnapInv, StepSnapInv, PTL DEF Spec

\* What one step may do to the compartments; NoLostUpdate says it of all.
Promoted == \E r \in RecompRun : At(r, {"promoting"}) /\ rows' = staging
Appended == /\ \A i \in DOMAIN rows : i \in DOMAIN rows' /\ rows'[i] = rows[i]
            /\ NextSeq(rows) \in DOMAIN rows'
            /\ rows'[NextSeq(rows)].s = NextOrdinal(rows)

\* A block of new rows that starts where the table ends.
LEMMA OverwriteAppends ==
  ASSUME IsTable(rows), NEW t, IsTable(t), rows' = Overwrite(rows, t),
         DOMAIN t \cap DOMAIN rows = {}, NextSeq(rows) \in DOMAIN t,
         t[NextSeq(rows)].s = NextOrdinal(rows)
  PROVE  Appended
<1>1. DOMAIN rows' = DOMAIN rows \cup DOMAIN t
  BY DEF Overwrite
<1>2. \A i \in DOMAIN rows : rows'[i] = rows[i]
  BY DEF Overwrite
<1>3. rows'[NextSeq(rows)] = t[NextSeq(rows)]
  BY DEF Overwrite
<1> QED
  BY <1>1, <1>2, <1>3 DEF Appended

LEMMA PublishAppends ==
  ASSUME Frame, RunsOK, SnapInv, NEW r \in Run, Publish(r)
  PROVE  Appended
<1>1. PICK block : /\ IsTable(block)
                   /\ run[r].snap.seq \in DOMAIN block
                   /\ block[run[r].snap.seq].s = run[r].snap.off
                   /\ DOMAIN block \cap DOMAIN rows = {}
                   /\ rows' = Overwrite(rows, block)
  BY PublishBlock
<1>2. Current(r)
  BY <1>1 DEF SnapInv, WorkPc, Publish, At, Taken
<1> QED
  BY <1>1, <1>2, RowTypes, OverwriteAppends DEF Current

LEMMA PersistNoiseAppends ==
  ASSUME Frame, RunsOK, NEW r \in Run, PersistNoise(r), rows' # rows
  PROVE  Appended
<1> DEFINE t == [i \in {NextSeq(rows)} |-> [s |-> run[r].snap.off, e |-> run[r].snap.elig - 1]]
<1>1. NextOrdinal(rows) = run[r].snap.off /\ rows' = Overwrite(rows, t)
  BY DEF PersistNoise
<1>2. IsTable(t) /\ DOMAIN t = {NextSeq(rows)} /\ t[NextSeq(rows)].s = run[r].snap.off
  BY NoiseRow DEF PersistNoise
<1>3. DOMAIN t \cap DOMAIN rows = {}
  BY <1>2, RowTypes, NextSeqProps
<1> QED
  BY <1>1, <1>2, <1>3, RowTypes, OverwriteAppends

LEMMA StepNoLostUpdate ==
  TypeInv /\ SnapInv /\ [Next]_vars => [rows' # rows => Promoted \/ Appended]_vars
<1> SUFFICES ASSUME Frame, RunsOK, SnapInv, Next, rows' # rows
             PROVE  Promoted \/ Appended
  BY TypeInvParts DEF vars
<1>1. ASSUME NEW p \in Proc,
             \/ Pass(p) \/ DiscardStaging(p) \/ Crash(p)
             \/ \E r \in RecompRun : StartRecomp(p, r)
      PROVE  FALSE
  BY <1>1 DEF Pass, Trigger, StartAgent, DropIntent, DiscardStaging, Crash, StartRecomp
<1>2. ASSUME NEW w \in Wrap, \E p \in Proc : StartWrapup(p, w) PROVE FALSE
  BY <1>2 DEF StartWrapup
<1>3. ASSUME NEW w \in Wrap, WrapStep(w) \/ WrapRetry(w) \/ RenewMarker(w) PROVE FALSE
  BY <1>3 DEF WrapStep, WrapWait, WrapPlan, WrapAcquire, WrapRetry, WrapGivesUp, WrapIterated,
             WrapRelease, RenewMarker
<1>4. ASSUME NEW r \in Run, RunStep(r) PROVE Promoted \/ Appended
  <2>1. CASE Publish(r)
    BY <2>1, PublishAppends
  <2>2. CASE PersistNoise(r)
    BY <2>2, PersistNoiseAppends
  <2>3. CASE Promote(r)
    <3>1. r \in RecompRun
      BY <2>3 DEF Promote, At, RunsOK, RecompPc
    <3> QED
      BY <2>3, <3>1 DEF Promote, Promoted
  <2>4. CASE TryLease(r) \/ Recheck(r) \/ EndRun(r) \/ Release(r)
    BY <2>4 DEF TryLease, Recheck, EndRun, Release
  <2>5. CASE Snapshot(r) \/ NoOp(r) \/ Spawn(r) \/ PassFails(r)
    BY <2>5 DEF Snapshot, NoOp, Spawn, PassFails
  <2>6. CASE ReadStaging(r) \/ RecompPass(r) \/ RecompLoopEnds(r) \/ SaveCandidates(r)
    BY <2>6 DEF ReadStaging, RecompPass, RecompLoopEnds, SaveCandidates
  <2> QED
    BY <1>4, <2>1, <2>2, <2>3, <2>4, <2>5, <2>6 DEF RunStep, LeaseStep, AgentStep, RecompStep
<1>5. ASSUME NEW r \in Run, Renew(r) PROVE FALSE
  BY <1>5 DEF Renew
<1>6. CASE Tick
  BY <1>6 DEF Tick
<1> QED
  BY <1>1, <1>2, <1>3, <1>4, <1>5, <1>6, NextCases

\* A run publishes minutes after it read the table; whoever wrote in between,
\* its step adds to the end of what is stored or changes nothing, and only the
\* promotion of a rebuild replaces the table.
THEOREM NothingIsLost == Spec => NoLostUpdate
<1>1. TypeInv /\ SnapInv /\ [Next]_vars =>
        [ rows' # rows =>
            \/ \E r \in RecompRun : At(r, {"promoting"}) /\ rows' = staging
            \/ /\ \A i \in DOMAIN rows : i \in DOMAIN rows' /\ rows'[i] = rows[i]
               /\ NextSeq(rows) \in DOMAIN rows'
               /\ rows'[NextSeq(rows)].s = NextOrdinal(rows) ]_vars
  BY StepNoLostUpdate DEF Promoted, Appended
<1> QED
  BY <1>1, AlwaysSnapInv, PTL DEF Spec, NoLostUpdate

-----------------------------------------------------------------------------
(* A run that got its lease under a wrapup's marker.                       *)

Past == AgentPc \cup RecompPc
Others == IncRun \cup RecompRun

\* The run does not go past its second check in the step, and the marker that
\* was live when it got its lease is forgotten by Finish only.
Ahead(r) == run'[r].pc \in Past => run[r].pc \in Past /\ run'[r].under = run[r].under

\* A marker that is live after the step was live before, or is nobody's worry.
MarkerMoves == \A w \in Wrap : OwnsMarker(w)' => OwnsMarker(w) \/ \A r \in Run : run[r].under # w

LEMMA ExclKept ==
  ASSUME RunsOK, WrapupExcludesOthers, \A r \in Others : Ahead(r), MarkerMoves
  PROVE  WrapupExcludesOthers'
<1> SUFFICES ASSUME NEW r \in Others, run'[r].pc \in Past, run'[r].under # None,
                    marker'.holder = run'[r].under, marker'.left > 0
             PROVE  FALSE
  BY DEF WrapupExcludesOthers, Others, Past, At, OwnsMarker
<1> DEFINE w == run[r].under
<1>1. r \in Run /\ run[r].pc \in Past /\ run'[r].under = w
  BY DEF Ahead, Others, Run
<1>2. w \in Wrap /\ w # None
  BY <1>1, RunTypes
<1>3. ~OwnsMarker(w)
  BY <1>1, <1>2 DEF WrapupExcludesOthers, Others, Past, At
<1>4. marker'.holder = w
  BY <1>1
<1>5. OwnsMarker(w) \/ \A q \in Run : run[q].under # w
  BY <1>2, <1>4 DEF MarkerMoves, OwnsMarker
<1> QED
  BY <1>1, <1>3, <1>5

LEMMA AheadOne ==
  ASSUME NEW r \in Run, \A q \in Run \ {r} : run'[q] = run[q], Ahead(r)
  PROVE  \A q \in Others : Ahead(q)
  BY DEF Ahead, Others, Run

LEMMA AheadFinish ==
  ASSUME RunsOK, NEW r \in Run, Finish(r)
  PROVE  \A q \in Others : Ahead(q)
<1>1. run'[r] = RunAt("finishing", run[r].proc, None)
  BY DEF Finish, RunsOK
<1>2. run'[r].pc \notin Past
  BY <1>1 DEF RunAt, Past, AgentPc, RecompPc
<1> QED
  BY <1>2, FinishMoves, AheadOne DEF Ahead

\* A step from one point behind the second check to another, or to the end.
LEMMA AheadGoto ==
  ASSUME RunsOK, NEW r \in Run, NEW x \in RunPc,
         x \in Past => run[r].pc \in Past, Goto(r, x)
  PROVE  \A q \in Others : Ahead(q)
<1>1. /\ run'[r].pc = x /\ run'[r].under = run[r].under
      /\ \A q \in Run \ {r} : run'[q] = run[q]
  BY DEF Goto, RunsOK, RunType
<1> QED
  BY <1>1, AheadOne DEF Ahead

LEMMA AheadIdle ==
  ASSUME RunsOK, NEW r \in Run, run' = [run EXCEPT ![r] = IdleRun]
  PROVE  \A q \in Others : Ahead(q)
<1>1. run'[r].pc \notin Past /\ \A q \in Run \ {r} : run'[q] = run[q]
  BY IdleTypes DEF RunsOK, Past, AgentPc, RecompPc
<1> QED
  BY <1>1, AheadOne DEF Ahead

LEMMA AheadRun ==
  ASSUME RunsOK, NEW r \in Run, RunStep(r), ~Recheck(r)
  PROVE  \A q \in Others : Ahead(q)
<1>0. /\ AgentPc \cup RecompPc \cup EndPc \subseteq RunPc
      /\ {"chunking", "awaiting"} \subseteq AgentPc
      /\ {"preparing", "passing", "saving", "promoting"} \subseteq RecompPc
      /\ "releasing" \in EndPc /\ "releasing" \notin Past
  BY DEF RunPc, AgentPc, RecompPc, EndPc, Past
<1>1. CASE TryLease(r)
  <2>1. CASE run' = [run EXCEPT ![r] = IdleRun]
    BY <2>1, AheadIdle
  <2>2. CASE run'[r].pc = "leased" /\ \A q \in Run \ {r} : run'[q] = run[q]
    BY <2>2, AheadOne DEF Ahead, Past, AgentPc, RecompPc
  <2>3. \/ run' = [run EXCEPT ![r] = IdleRun]
        \/ run'[r].pc = "leased" /\ \A q \in Run \ {r} : run'[q] = run[q]
    BY <1>1 DEF TryLease, RunsOK, RunType
  <2> QED
    BY <2>1, <2>2, <2>3
<1>2. CASE Snapshot(r)
  <2>1. CASE Finish(r)
    BY <2>1, AheadFinish
  <2>2. CASE ~Finish(r)
    <3>1. /\ run[r].pc \in Past /\ run'[r].under = run[r].under
          /\ \A q \in Run \ {r} : run'[q] = run[q]
      BY <1>2, <2>2 DEF Snapshot, At, RunsOK, RunType, Past, AgentPc
    <3> QED
      BY <3>1, AheadOne DEF Ahead
  <2> QED
    BY <2>1, <2>2
<1>3. CASE NoOp(r) \/ PassFails(r) \/ PersistNoise(r) \/ Publish(r) \/ Promote(r)
  BY <1>3, AheadFinish DEF NoOp, PassFails, PersistNoise, Publish, Promote
<1>4. CASE Spawn(r)
  BY <1>0, <1>4, AheadGoto DEF Spawn, At, Past
<1>5. CASE EndRun(r)
  BY <1>0, <1>5, AheadGoto DEF EndRun
<1>6. CASE Release(r)
  BY <1>6, AheadIdle DEF Release
<1>7. CASE ReadStaging(r) \/ RecompPass(r)
  <2>1. /\ run[r].pc \in Past /\ run'[r].under = run[r].under
        /\ \A q \in Run \ {r} : run'[q] = run[q]
    BY <1>7 DEF ReadStaging, RecompPass, At, RunsOK, RunType, Past, RecompPc
  <2> QED
    BY <2>1, AheadOne DEF Ahead
<1>8. CASE RecompLoopEnds(r)
  <2>1. Finish(r) \/ Goto(r, "saving")
    BY <1>8 DEF RecompLoopEnds
  <2>2. run[r].pc \in Past
    BY <1>0, <1>8 DEF RecompLoopEnds, At, Past
  <2> QED
    BY <1>0, <2>1, <2>2, AheadFinish, AheadGoto
<1>9. CASE SaveCandidates(r)
  <2>1. run[r].pc \in Past
    BY <1>0, <1>9 DEF SaveCandidates, At, Past
  <2> QED
    BY <1>0, <1>9, <2>1, AheadGoto DEF SaveCandidates
<1> QED
  BY <1>1, <1>2, <1>3, <1>4, <1>5, <1>6, <1>7, <1>8, <1>9 DEF RunStep, LeaseStep, AgentStep, RecompStep

\* The second check lets a run go on when no marker is live.
LEMMA RecheckExcl ==
  ASSUME Frame, RunsOK, WrapupExcludesOthers, NEW r \in Run, Recheck(r)
  PROVE  WrapupExcludesOthers'
<1>1. CASE WrapupLive
  <2>1. run' = [run EXCEPT ![r] = IdleRun] /\ UNCHANGED marker
    BY <1>1 DEF Recheck
  <2>2. MarkerMoves
    BY <2>1 DEF MarkerMoves, OwnsMarker
  <2> QED
    BY <2>1, <2>2, AheadIdle, ExclKept
<1>2. CASE ~WrapupLive
  <2>1. \A w \in Wrap : ~(marker'.holder = w /\ marker'.left > 0)
    BY <1>2, NoneNoRun DEF Recheck, WrapupLive
  <2>2. RunsOK'
    BY RecheckTypes
  <2>3. \A q \in Run : run'[q].under \in Wrap \cup {None}
    BY <2>2 DEF RunsOK, RunType
  <2> QED
    BY <2>1, <2>3 DEF WrapupExcludesOthers, OwnsMarker, Run
<1> QED
  BY <1>1, <1>2

LEMMA StepExcl == TypeInv /\ WrapupExcludesOthers /\ [Next]_vars => WrapupExcludesOthers'
<1> SUFFICES ASSUME Frame, RunsOK, WrapupExcludesOthers, [Next]_vars
             PROVE  WrapupExcludesOthers'
  BY TypeInvParts
<1>a. IncRun \subseteq Run /\ RecompRun \subseteq Run /\ WrapRun \subseteq Run
      /\ Others \subseteq Run /\ WrapRun \cap Others = {}
  BY IdAssumption DEF Run, Others
<1>b. UNCHANGED marker => MarkerMoves
  BY DEF MarkerMoves, OwnsMarker
<1>c. UNCHANGED run => \A q \in Others : Ahead(q)
  BY DEF Ahead
<1>1. ASSUME NEW p \in Proc, NEW r \in Run, StartAgent(p, r) \/ StartRecomp(p, r)
      PROVE  WrapupExcludesOthers'
  <2>1. CASE UNCHANGED run
    BY <1>b, <1>c, <1>1, <2>1, ExclKept DEF StartAgent, StartRecomp
  <2>2. CASE run' = [run EXCEPT ![r] = RunAt("checked", p, None)]
    <3>1. run'[r].pc \notin Past /\ \A q \in Run \ {r} : run'[q] = run[q]
      BY <2>2 DEF RunsOK, RunAt, Past, AgentPc, RecompPc
    <3>2. \A q \in Others : Ahead(q)
      BY <3>1, AheadOne DEF Ahead
    <3> QED
      BY <1>b, <1>1, <3>2, ExclKept DEF StartAgent, StartRecomp
  <2> QED
    BY <1>1, <2>1, <2>2 DEF StartAgent, StartRecomp
<1>2. ASSUME NEW p \in Proc, Pass(p) PROVE WrapupExcludesOthers'
  <2>1. CASE \E r \in IncRun : StartAgent(p, r)
    BY <1>1, <1>a, <2>1
  <2>2. CASE Trigger(p) \/ DropIntent(p)
    BY <1>b, <1>c, <2>2, ExclKept DEF Trigger, DropIntent
  <2> QED
    BY <1>2, <2>1, <2>2 DEF Pass
<1>3. ASSUME NEW p \in Proc, Crash(p) PROVE WrapupExcludesOthers'
  <2>1. \A q \in Run : run'[q] = IdleRun \/ run'[q] = run[q]
    BY <1>3 DEF Crash
  <2>2. IdleRun.pc \notin Past
    BY IdleTypes DEF Past, AgentPc, RecompPc
  <2>3. \A q \in Others : Ahead(q)
    BY <1>a, <2>1, <2>2 DEF Ahead
  <2> QED
    BY <1>3, <1>b, <2>3, ExclKept DEF Crash
<1>4. ASSUME NEW p \in Proc, NEW w \in Wrap, StartWrapup(p, w) PROVE WrapupExcludesOthers'
  <2>1. MarkerMoves
    BY <1>4 DEF StartWrapup, MarkerMoves, OwnsMarker
  <2> QED
    BY <1>4, <1>c, <2>1, ExclKept DEF StartWrapup
<1>5. ASSUME NEW r \in Run, RunStep(r) PROVE WrapupExcludesOthers'
  <2>1. CASE Recheck(r)
    BY <2>1, RecheckExcl
  <2>2. CASE ~Recheck(r)
    <3>1. UNCHANGED marker
      BY <1>5 DEF RunStep, LeaseStep, AgentStep, RecompStep, TryLease, Recheck, Snapshot, NoOp, PersistNoise,
                  Spawn, PassFails, Publish, ReadStaging, RecompPass, RecompLoopEnds,
                  SaveCandidates, Promote, EndRun, Release
    <3> QED
      BY <1>b, <1>5, <2>2, <3>1, AheadRun, ExclKept
  <2> QED
    BY <2>1, <2>2
<1>6. ASSUME NEW r \in Run, Renew(r) PROVE WrapupExcludesOthers'
  BY <1>b, <1>c, <1>6, ExclKept DEF Renew
<1>7. ASSUME NEW w \in Wrap, NEW r \in WrapRun, WrapAcquire(w, r) PROVE WrapupExcludesOthers'
  <2>1. \A q \in Others : run'[q] = run[q]
    BY <1>a, <1>7 DEF WrapAcquire, RunsOK
  <2>2. \A q \in Others : Ahead(q)
    BY <2>1 DEF Ahead
  <2> QED
    BY <1>b, <1>7, <2>2, ExclKept DEF WrapAcquire
<1>8. ASSUME NEW w \in Wrap,
             \/ WrapWait(w) \/ WrapPlan(w) \/ WrapRetry(w) \/ WrapGivesUp(w)
             \/ WrapIterated(w) \/ WrapRelease(w) \/ RenewMarker(w)
      PROVE  WrapupExcludesOthers'
  <2>1. UNCHANGED run
    BY <1>8 DEF WrapWait, WrapPlan, WrapRetry, WrapGivesUp, WrapIterated, WrapRelease, RenewMarker
  <2>2. \/ UNCHANGED marker
        \/ marker' = NoRow
        \/ OwnsMarker(w) /\ marker' = [marker EXCEPT !.left = MarkerTtl]
    BY <1>8 DEF WrapWait, WrapPlan, WrapRetry, WrapGivesUp, WrapIterated, WrapRelease, RenewMarker
  <2>3. MarkerMoves
    BY <1>b, <2>2 DEF MarkerMoves, OwnsMarker, NoRow, Frame, RowType
  <2> QED
    BY <1>c, <2>1, <2>3, ExclKept
<1>9. CASE Tick
  <2>1. MarkerMoves
    BY <1>9, RowTypes DEF Tick, MarkerMoves, OwnsMarker, Less, Frame, RowType
  <2> QED
    BY <1>c, <1>9, <2>1, ExclKept DEF Tick
<1>10. CASE UNCHANGED vars
  BY <1>b, <1>c, <1>10, ExclKept DEF vars
<1>11. ASSUME NEW p \in Proc, DiscardStaging(p) PROVE WrapupExcludesOthers'
  BY <1>b, <1>c, <1>11, ExclKept DEF DiscardStaging
<1> QED
  BY <1>1, <1>2, <1>3, <1>4, <1>5, <1>6, <1>7, <1>8, <1>9, <1>10, <1>11, <1>a, NextCases DEF WrapStep

\* Once a wrapup's marker is up, a historian run or a rebuild that started
\* while it was live does not get past its second check.
THEOREM WrapupIsAlone == Spec => []WrapupExcludesOthers
<1>1. Init => WrapupExcludesOthers
  BY IdleTypes DEF Init, WrapupExcludesOthers, At, AgentPc, RecompPc, Run
<1> QED
  BY <1>1, StepExcl, AlwaysTypeInv, PTL DEF Spec

-----------------------------------------------------------------------------
(* The staging table and the candidates of a rebuild.  Nothing in the      *)
(* system but the lease keeps two rebuilds apart, and a rebuild that has   *)
(* lost its lease goes on staging; what follows holds for as long as at    *)
(* most one rebuild is between its reading and its promotion.              *)

StagingPc == {"passing", "saving", "promoting"}
RebuildsAlone == \A q, r \in RecompRun : At(q, StagingPc) /\ At(r, StagingPc) => q = r

Prefix(t, u) == \A i \in DOMAIN t : i \in DOMAIN u /\ u[i] = t[i]

StagedInv ==
  /\ Cover(staging)
  /\ \A r \in RecompRun :
       run[r].pc \in StagingPc => Cover(run[r].cand) /\ Prefix(staging, run[r].cand)

\* Rows that another table starts with add nothing to it.
LEMMA OverwritePrefix ==
  ASSUME NEW t, IsTable(t), NEW u, IsTable(u), Prefix(t, u)
  PROVE  Overwrite(t, u) = u
<1>1. DOMAIN t \cup DOMAIN u = DOMAIN u
  BY DEF Prefix
<1>2. Overwrite(t, u) = [i \in DOMAIN u |-> u[i]]
  BY <1>1 DEF Overwrite
<1>3. u = [i \in DOMAIN u |-> u[i]]
  BY DEF IsTable
<1> QED
  BY <1>2, <1>3

\* The step takes nobody to the staging table and changes nobody's candidates.
Stays(r) == run'[r].pc \in StagingPc => run[r].pc \in StagingPc /\ run'[r].cand = run[r].cand

LEMMA StagedKept ==
  ASSUME StagedInv, staging' \in {staging, NoRows}, \A r \in RecompRun : Stays(r)
  PROVE  StagedInv'
<1>1. Cover(staging')
  BY NoRowsCover DEF StagedInv
<1>2. ASSUME NEW r \in RecompRun, run'[r].pc \in StagingPc
      PROVE  Cover(run'[r].cand) /\ Prefix(staging', run'[r].cand)
  <2>1. Cover(run[r].cand) /\ Prefix(staging, run[r].cand) /\ run'[r].cand = run[r].cand
    BY <1>2 DEF Stays, StagedInv
  <2> QED
    BY <2>1, NoRowsIsTable DEF Prefix
<1> QED
  BY <1>1, <1>2 DEF StagedInv

LEMMA StaysOne ==
  ASSUME NEW r \in Run, Stays(r), \A q \in Run \ {r} : run'[q] = run[q]
  PROVE  \A q \in RecompRun : Stays(q)
  BY DEF Stays, Run

\* Any step of a run that is no step of a rebuild ends elsewhere.
LEMMA StaysOther ==
  ASSUME RunsOK, NEW r \in Run, RunStep(r), ~RecompStep(r)
  PROVE  staging' = staging /\ \A q \in RecompRun : Stays(q)
<1>1. CASE Finish(r)
  <2>1. run'[r] = RunAt("finishing", run[r].proc, None)
    BY <1>1 DEF Finish, RunsOK
  <2>2. Stays(r) /\ \A q \in Run \ {r} : run'[q] = run[q]
    BY <1>1, <2>1 DEF Finish, RunsOK, RunAt, Stays, StagingPc
  <2> QED
    BY <2>2, StaysOne DEF RunStep, LeaseStep, AgentStep, TryLease, Recheck, Snapshot, NoOp,
       PersistNoise, Spawn, PassFails, Publish, EndRun, Release
<1>2. CASE ~Finish(r)
  <2>1. run'[r].pc \notin StagingPc /\ \A q \in Run \ {r} : run'[q] = run[q]
    <3>1. CASE TryLease(r) \/ Recheck(r)
      BY <3>1, IdleTypes DEF TryLease, Recheck, Goto, RunsOK, RunType, StagingPc
    <3>2. CASE Snapshot(r) \/ Spawn(r) \/ EndRun(r) \/ Release(r)
      BY <1>2, <3>2, IdleTypes DEF Snapshot, Spawn, EndRun, Release, Goto, RunsOK, RunType, StagingPc
    <3>3. CASE NoOp(r) \/ PersistNoise(r) \/ PassFails(r) \/ Publish(r)
      BY <1>2, <3>3 DEF NoOp, PersistNoise, PassFails, Publish
    <3> QED
      BY <3>1, <3>2, <3>3 DEF RunStep, LeaseStep, AgentStep
  <2>2. Stays(r)
    BY <2>1 DEF Stays
  <2> QED
    BY <2>1, <2>2, StaysOne DEF RunStep, LeaseStep, AgentStep, TryLease, Recheck, Snapshot, NoOp,
       PersistNoise, Spawn, PassFails, Publish, EndRun, Release
<1> QED
  BY <1>1, <1>2

\* A rebuild that writes the staging table leaves in it what it has, and no
\* other rebuild looks at it.
LEMMA StagedBy ==
  ASSUME RebuildsAlone, NEW r \in RecompRun, run[r].pc \in StagingPc,
         \A q \in RecompRun \ {r} : run'[q] = run[q],
         staging' = run'[r].cand, Cover(run'[r].cand)
  PROVE  StagedInv'
<1>1. \A q \in RecompRun \ {r} : run'[q].pc \notin StagingPc
  BY DEF RebuildsAlone, At
<1> QED
  BY <1>1 DEF StagedInv, Prefix

LEMMA RecompPassStaged ==
  ASSUME Frame, RunsOK, StagedInv, RebuildsAlone, NEW r \in RecompRun, RecompPass(r)
  PROVE  StagedInv'
<1> DEFINE c == run[r].cand
<1>0. r \in Run /\ run[r].pc \in StagingPc
  BY DEF Run, RecompPass, At, StagingPc
<1>1. IsTable(c) /\ Cover(c) /\ Prefix(staging, c) /\ IsTable(staging)
  BY <1>0, RunTypes, RowTypes DEF StagedInv
<1>2. PICK b \in NextOrdinal(c)..(run[r].snap.elig - 1) :
        \E block \in Splits(NextSeq(c), NextOrdinal(c), b) :
          /\ run' = [run EXCEPT ![r].cand = Overwrite(c, block)]
          /\ staging' = Overwrite(staging, Overwrite(c, block))
  BY DEF RecompPass
<1>3. PICK block \in Splits(NextSeq(c), NextOrdinal(c), b) :
          /\ run' = [run EXCEPT ![r].cand = Overwrite(c, block)]
          /\ staging' = Overwrite(staging, Overwrite(c, block))
  BY <1>2
<1> DEFINE d == Overwrite(c, block)
<1>4. NextSeq(c) \in Nat /\ NextOrdinal(c) \in Ordinal /\ b \in Ordinal
  BY <1>0, <1>1, RunTypes, NextSeqProps, NextOrdinalProps, MaxMsgAssumption DEF Ordinal
<1>5. IsTable(d)
  BY <1>1, <1>3, <1>4, SplitsProps, OverwriteIsTable
<1>6. Cover(d) /\ \A i \in DOMAIN c : i \in DOMAIN d /\ d[i] = c[i]
  BY <1>1, <1>3, CoverGrows
<1>7. Prefix(staging, d)
  BY <1>1, <1>6 DEF Prefix
<1>8. staging' = d
  BY <1>1, <1>3, <1>5, <1>7, OverwritePrefix
<1>9. run'[r].cand = d /\ \A q \in RecompRun \ {r} : run'[q] = run[q]
  BY <1>0, <1>3 DEF RunsOK, RunType, Run
<1> QED
  BY <1>0, <1>6, <1>8, <1>9, StagedBy

LEMMA RecompStaged ==
  ASSUME Frame, RunsOK, StagedInv, RebuildsAlone, NEW r \in RecompRun, RecompStep(r)
  PROVE  StagedInv'
<1>0. r \in Run /\ RecompRun \subseteq Run
  BY DEF Run
<1>f. ASSUME Finish(r) PROVE \A q \in RecompRun : Stays(q)
  <2>1. run'[r] = RunAt("finishing", run[r].proc, None)
    BY <1>0, <1>f DEF Finish, RunsOK
  <2> QED
    BY <1>0, <1>f, <2>1, StaysOne DEF Finish, RunsOK, RunAt, Stays, StagingPc
<1>1. CASE ReadStaging(r)
  <2>1. run'[r].cand = staging /\ \A q \in Run \ {r} : run'[q] = run[q]
    BY <1>0, <1>1 DEF ReadStaging, RunsOK, RunType
  <2>2. staging' = staging
    BY <1>1 DEF ReadStaging
  <2> QED
    BY <1>0, <2>1, <2>2 DEF StagedInv, Prefix
<1>2. CASE RecompPass(r)
  BY <1>2, RecompPassStaged
<1>3. CASE RecompLoopEnds(r)
  <2>1. staging' \in {staging, NoRows}
    BY <1>3 DEF RecompLoopEnds
  <2>2. CASE Finish(r)
    BY <1>f, <2>1, <2>2, StagedKept
  <2>3. CASE Goto(r, "saving")
    <3>1. run'[r].cand = run[r].cand /\ \A q \in Run \ {r} : run'[q] = run[q]
      BY <1>0, <2>3 DEF Goto, RunsOK, RunType
    <3>2. Stays(r)
      BY <1>3, <3>1 DEF RecompLoopEnds, At, Stays, StagingPc
    <3> QED
      BY <1>0, <2>1, <3>1, <3>2, StaysOne, StagedKept
  <2> QED
    BY <1>3, <2>2, <2>3 DEF RecompLoopEnds
<1>4. CASE SaveCandidates(r)
  <2>0. run[r].pc \in StagingPc
    BY <1>4 DEF SaveCandidates, At, StagingPc
  <2>1. run'[r].cand = run[r].cand /\ \A q \in Run \ {r} : run'[q] = run[q]
    BY <1>0, <1>4 DEF SaveCandidates, Goto, RunsOK, RunType
  <2>2. staging' = run[r].cand
    BY <1>0, <1>4, <2>0, RunTypes, RowTypes, OverwritePrefix DEF SaveCandidates, StagedInv
  <2>3. Cover(run[r].cand)
    BY <2>0 DEF StagedInv
  <2> QED
    BY <1>0, <2>0, <2>1, <2>2, <2>3, StagedBy
<1>5. CASE Promote(r)
  <2>1. staging' \in {staging, NoRows}
    BY <1>5 DEF Promote
  <2> QED
    BY <1>5, <1>f, <2>1, StagedKept DEF Promote
<1> QED
  BY <1>1, <1>2, <1>3, <1>4, <1>5 DEF RecompStep

LEMMA StepStaged ==
  TypeInv /\ StagedInv /\ RebuildsAlone /\ [Next]_vars => StagedInv'
<1> SUFFICES ASSUME Frame, RunsOK, StagedInv, RebuildsAlone, [Next]_vars PROVE StagedInv'
  BY TypeInvParts
<1>a. RecompRun \subseteq Run /\ IncRun \subseteq Run /\ WrapRun \cap RecompRun = {}
  BY IdAssumption DEF Run
<1>b. UNCHANGED run => \A q \in RecompRun : Stays(q)
  BY DEF Stays
<1>1. ASSUME NEW p \in Proc, NEW r \in Run, StartAgent(p, r) \/ StartRecomp(p, r)
      PROVE  StagedInv'
  <2>1. UNCHANGED staging /\ (UNCHANGED run \/ run' = [run EXCEPT ![r] = RunAt("checked", p, None)])
    BY <1>1 DEF StartAgent, StartRecomp
  <2>2. CASE run' = [run EXCEPT ![r] = RunAt("checked", p, None)]
    <3>1. Stays(r) /\ \A q \in Run \ {r} : run'[q] = run[q]
      BY <2>2 DEF RunsOK, RunAt, Stays, StagingPc
    <3> QED
      BY <2>1, <3>1, StaysOne, StagedKept
  <2> QED
    BY <1>b, <2>1, <2>2, StagedKept
<1>2. ASSUME NEW p \in Proc, Pass(p) PROVE StagedInv'
  <2>1. CASE \E r \in IncRun : StartAgent(p, r)
    BY <1>1, <1>a, <2>1
  <2>2. CASE Trigger(p) \/ DropIntent(p)
    BY <1>b, <2>2, StagedKept DEF Trigger, DropIntent
  <2> QED
    BY <1>2, <2>1, <2>2 DEF Pass
<1>3. ASSUME NEW p \in Proc, Crash(p) PROVE StagedInv'
  <2>1. \A q \in Run : run'[q] = IdleRun \/ run'[q] = run[q]
    BY <1>3 DEF Crash
  <2>2. \A q \in RecompRun : Stays(q)
    BY <1>a, <2>1, IdleTypes DEF Stays, StagingPc
  <2> QED
    BY <1>3, <2>2, StagedKept DEF Crash
<1>4. ASSUME NEW r \in Run, RunStep(r) PROVE StagedInv'
  <2>1. CASE RecompStep(r)
    <3>1. r \in RecompRun
      BY <2>1 DEF RecompStep, ReadStaging, RecompPass, RecompLoopEnds, SaveCandidates, Promote,
                  At, RunsOK, RecompPc
    <3> QED
      BY <2>1, <3>1, RecompStaged
  <2>2. CASE ~RecompStep(r)
    BY <1>4, <2>2, StaysOther, StagedKept
  <2> QED
    BY <2>1, <2>2
<1>5. ASSUME NEW w \in Wrap, NEW r \in WrapRun, WrapAcquire(w, r) PROVE StagedInv'
  <2>1. \A q \in RecompRun : Stays(q)
    BY <1>a, <1>5 DEF WrapAcquire, RunsOK, Stays
  <2> QED
    BY <1>5, <2>1, StagedKept DEF WrapAcquire
<1>6. ASSUME NEW w \in Wrap,
             \/ WrapWait(w) \/ WrapPlan(w) \/ WrapRetry(w) \/ WrapGivesUp(w)
             \/ WrapIterated(w) \/ WrapRelease(w) \/ RenewMarker(w)
      PROVE  StagedInv'
  <2>1. UNCHANGED <<run, staging>>
    BY <1>6 DEF WrapWait, WrapPlan, WrapRetry, WrapGivesUp, WrapIterated, WrapRelease, RenewMarker
  <2> QED
    BY <1>b, <2>1, StagedKept
<1>7. CASE \/ \E p \in Proc : DiscardStaging(p) \/ \E w \in Wrap : StartWrapup(p, w)
           \/ \E r \in Run : Renew(r)
           \/ Tick \/ UNCHANGED vars
  <2>1. UNCHANGED run /\ staging' \in {staging, NoRows}
    BY <1>7 DEF DiscardStaging, StartWrapup, Renew, Tick, vars
  <2> QED
    BY <1>b, <2>1, StagedKept
<1> QED
  BY <1>1, <1>2, <1>3, <1>4, <1>5, <1>6, <1>7, <1>a, NextCases DEF WrapStep

-----------------------------------------------------------------------------
(* The compartments change as CompartmentHistory allows.                   *)

Grown == \E b \in NextOrdinal(rows)..MaxMsg :
           \E block \in Splits(NextSeq(rows), NextOrdinal(rows), b) :
             rows' = Overwrite(rows, block)
Replaced == staging # NoRows /\ rows' = staging

LEMMA PublishGrows ==
  ASSUME Frame, RunsOK, SnapInv, NEW r \in Run, Publish(r)
  PROVE  Grown
<1>1. PICK b \in run[r].snap.off..(run[r].snap.elig - 1) :
        \E block \in Splits(run[r].snap.seq, run[r].snap.off, b) :
          /\ DOMAIN block \cap DOMAIN rows = {}
          /\ rows' = Overwrite(rows, block)
  BY DEF Publish
<1>2. PICK block \in Splits(run[r].snap.seq, run[r].snap.off, b) :
          /\ DOMAIN block \cap DOMAIN rows = {}
          /\ rows' = Overwrite(rows, block)
  BY <1>1
<1>3. run[r].snap.seq \in Nat /\ run[r].snap.off \in Ordinal /\ b \in run[r].snap.off..MaxMsg
  BY RunTypes, MaxMsgAssumption DEF Ordinal
<1>4. b \in Ordinal
  BY <1>3, MaxMsgAssumption DEF Ordinal
<1>5. run[r].snap.seq \in DOMAIN block
  BY <1>2, <1>3, <1>4, SplitsProps
<1>6. Current(r)
  BY <1>2, <1>5 DEF SnapInv, WorkPc, Publish, At, Taken
<1> QED
  BY <1>2, <1>3, <1>6 DEF Grown, Current

LEMMA PersistNoiseGrows ==
  ASSUME Frame, RunsOK, NEW r \in Run, PersistNoise(r), rows' # rows
  PROVE  Grown
<1> DEFINE off == run[r].snap.off
           z == run[r].snap.elig - 1
           t == [i \in {NextSeq(rows)} |-> [s |-> off, e |-> z]]
<1>1. NextOrdinal(rows) = off /\ rows' = Overwrite(rows, t)
  BY DEF PersistNoise
<1>2. off \in Nat /\ z \in Nat /\ off <= z /\ z \in off..MaxMsg
  BY RunTypes, MaxMsgAssumption DEF PersistNoise, At, RunsOK
<1>3. NextSeq(rows) \in Nat
  BY RowTypes, NextSeqProps
<1>4. t \in Splits(NextSeq(rows), off, z)
  <2> HIDE DEF off, z
  <2> QED
    BY <1>2, <1>3, OneRowSplits
<1> QED
  BY <1>1, <1>2, <1>4 DEF Grown

LEMMA StepRows ==
  TypeInv /\ SnapInv /\ [Next]_vars => rows' = rows \/ Grown \/ Replaced
<1> SUFFICES ASSUME Frame, RunsOK, SnapInv, Next, rows' # rows PROVE Grown \/ Replaced
  BY TypeInvParts DEF vars
<1>1. ASSUME NEW p \in Proc,
             \/ Pass(p) \/ DiscardStaging(p) \/ Crash(p)
             \/ \E r \in RecompRun : StartRecomp(p, r)
      PROVE  FALSE
  BY <1>1 DEF Pass, Trigger, StartAgent, DropIntent, DiscardStaging, Crash, StartRecomp
<1>2. ASSUME NEW w \in Wrap, \E p \in Proc : StartWrapup(p, w) PROVE FALSE
  BY <1>2 DEF StartWrapup
<1>3. ASSUME NEW w \in Wrap, WrapStep(w) \/ WrapRetry(w) \/ RenewMarker(w) PROVE FALSE
  BY <1>3 DEF WrapStep, WrapWait, WrapPlan, WrapAcquire, WrapRetry, WrapGivesUp, WrapIterated,
             WrapRelease, RenewMarker
<1>4. ASSUME NEW r \in Run, RunStep(r) PROVE Grown \/ Replaced
  <2>1. CASE Publish(r)
    BY <2>1, PublishGrows
  <2>2. CASE PersistNoise(r)
    BY <2>2, PersistNoiseGrows
  <2>3. CASE Promote(r)
    BY <2>3 DEF Promote, Replaced
  <2>4. CASE TryLease(r) \/ Recheck(r) \/ EndRun(r) \/ Release(r)
    BY <2>4 DEF TryLease, Recheck, EndRun, Release
  <2>5. CASE Snapshot(r) \/ NoOp(r) \/ Spawn(r) \/ PassFails(r)
    BY <2>5 DEF Snapshot, NoOp, Spawn, PassFails
  <2>6. CASE ReadStaging(r) \/ RecompPass(r) \/ RecompLoopEnds(r) \/ SaveCandidates(r)
    BY <2>6 DEF ReadStaging, RecompPass, RecompLoopEnds, SaveCandidates
  <2> QED
    BY <1>4, <2>1, <2>2, <2>3, <2>4, <2>5, <2>6 DEF RunStep, LeaseStep, AgentStep, RecompStep
<1>5. ASSUME NEW r \in Run, Renew(r) PROVE FALSE
  BY <1>5 DEF Renew
<1>6. CASE Tick
  BY <1>6 DEF Tick
<1> QED
  BY <1>1, <1>2, <1>3, <1>4, <1>5, <1>6, NextCases

HistInv == Cover(rows) /\ StagedInv

LEMMA InitHistInv == Init => HistInv
<1> SUFFICES ASSUME Init PROVE HistInv
  OBVIOUS
<1>1. \A r \in RecompRun : run[r].pc \notin StagingPc
  BY IdleTypes DEF Init, StagingPc, Run
<1> QED
  BY <1>1, NoRowsCover DEF Init, HistInv, StagedInv

LEMMA StepHistInv ==
  TypeInv /\ SnapInv /\ HistInv /\ RebuildsAlone /\ [Next]_vars => HistInv'
<1> SUFFICES ASSUME TypeInv, SnapInv, HistInv, RebuildsAlone, [Next]_vars PROVE HistInv'
  OBVIOUS
<1>1. StagedInv'
  BY StepStaged DEF HistInv
<1>2. CASE rows' = rows
  BY <1>1, <1>2 DEF HistInv
<1>3. CASE Grown
  <2>1. Cover(rows')
    BY <1>3, CoverGrows, TableIsTable DEF Grown, HistInv, TypeInv
  <2> QED
    BY <1>1, <2>1 DEF HistInv
<1>4. CASE Replaced
  BY <1>1, <1>4 DEF Replaced, HistInv, StagedInv
<1> QED
  BY <1>2, <1>3, <1>4, StepRows

LEMMA AlwaysHistInv == Spec /\ []RebuildsAlone => [](TypeInv /\ SnapInv /\ HistInv)
  BY AlwaysSnapInv, InitHistInv, StepHistInv, PTL DEF Spec

\* As long as two rebuilds never work on the staging table at a time, the
\* stored history has no gap, no overlap and no hole in its numbers, whatever
\* leases are lost, whichever process crashes and however many historian runs
\* and wrapups go on beside the rebuild.
THEOREM HistoryHasNoHoles == Spec /\ []RebuildsAlone => []HistoryContiguous
<1>1. TypeInv /\ HistInv => HistoryContiguous
  BY CoverContiguous, TableIsTable DEF TypeInv, HistInv, HistoryContiguous
<1> QED
  BY <1>1, AlwaysHistInv, PTL

-----------------------------------------------------------------------------
(* The refinement.                                                         *)

LEMMA GrownPublishes == Grown => History!Publish
<1>1. History!NextOrdinal(rows) = NextOrdinal(rows) /\ History!NextSeq(rows) = NextSeq(rows)
  BY DEF History!NextOrdinal, NextOrdinal, History!NextSeq, NextSeq, History!LastSeq, LastSeq
<1>2. \A q, a, b : History!Splits(q, a, b) = Splits(q, a, b)
  BY DEF History!Splits, Splits, History!Chain, Chain
<1>3. \A u : History!Overwrite(rows, u) = Overwrite(rows, u)
  BY DEF History!Overwrite, Overwrite
<1> QED
  BY <1>1, <1>2, <1>3 DEF Grown, History!Publish

LEMMA CoverRebuilds ==
  ASSUME IsTable(rows'), Cover(rows'), rows' # NoRows
  PROVE  History!Rebuild
<1>1. Contiguous(rows') /\ DOMAIN rows' = 0..(NextSeq(rows') - 1)
  BY CoverContiguous
<1>2. NextOrdinal(rows') <= MaxMsg + 1
  BY NextOrdinalProps
<1>3. rows' = [i \in DOMAIN rows' |-> rows'[i]]
  BY DEF IsTable
<1>4. /\ History!NextOrdinal(rows') = NextOrdinal(rows')
      /\ History!NextSeq(rows') = NextSeq(rows')
      /\ History!Contiguous(rows') <=> Contiguous(rows')
      /\ History!NoRows = NoRows
  BY DEF History!NextOrdinal, NextOrdinal, History!NextSeq, NextSeq, History!LastSeq, LastSeq,
         History!Contiguous, Contiguous, History!PrevSeq, PrevSeq, History!NoRows, NoRows
<1> QED
  BY <1>1, <1>2, <1>3, <1>4 DEF History!Rebuild

LEMMA StepHistory ==
  TypeInv /\ TypeInv' /\ SnapInv /\ HistInv /\ [Next]_vars => [History!Next]_rows
<1> SUFFICES ASSUME TypeInv, TypeInv', SnapInv, HistInv, [Next]_vars, rows' # rows
             PROVE  History!Publish \/ History!Rebuild
  BY DEF History!Next
<1>1. CASE Grown
  BY <1>1, GrownPublishes
<1>2. CASE Replaced
  <2>1. IsTable(rows') /\ Cover(rows') /\ rows' # NoRows
    BY <1>2, TableIsTable DEF Replaced, HistInv, StagedInv, TypeInv
  <2> QED
    BY <2>1, CoverRebuilds
<1> QED
  BY <1>1, <1>2, StepRows

\* Under the same condition the system implements its abstract specification:
\* a session's history grows behind its last compartment or is replaced by a
\* cover of a prefix of the messages, and changes in no other way.
THEOREM HistoryImplemented == Spec /\ []RebuildsAlone => HistorySpec
<1>1. Init => History!Init
  BY DEF Init, History!Init, History!NoRows, NoRows
<1> QED
  BY <1>1, StepHistory, AlwaysHistInv, PTL DEF HistorySpec, History!Spec, Spec

-----------------------------------------------------------------------------
(* What the lease is for.  A run that works has its row, until another takes*)
(* it over, and nobody can before it is over: as long as the renewal timer *)
(* keeps the row of whoever works alive, the runs take turns.              *)

LeasePc == {"leased"} \cup AgentPc \cup RecompPc

\* No run of S goes on working after its lease is over.
InTime(S) == \A r \in S : run[r].pc \in LeasePc => lease.left > 0
HasLease(S) == \A r \in S : run[r].pc \in LeasePc => lease.holder = r

\* The step gives the run no work it did not have.
NoNewWork(r) == run'[r].pc \in LeasePc => run[r].pc \in LeasePc

LEMMA OneRunMoves ==
  ASSUME RunsOK, NEW r \in Run, RunStep(r)
  PROVE  \A q \in Run \ {r} : run'[q] = run[q]
<1>1. CASE LeaseStep(r)
  BY <1>1 DEF LeaseStep, TryLease, Recheck, EndRun, Release, Goto, RunsOK
<1>2. CASE AgentStep(r)
  <2>1. CASE Finish(r)
    BY <2>1, FinishMoves
  <2>2. CASE ~ Finish(r)
    BY <1>2, <2>2 DEF AgentStep, Snapshot, NoOp, PersistNoise, Spawn, PassFails, Publish, Goto, RunsOK
  <2> QED
    BY <2>1, <2>2
<1>3. CASE RecompStep(r)
  <2>1. CASE Finish(r)
    BY <2>1, FinishMoves
  <2>2. CASE RecompPass(r)
    BY <2>2 DEF RecompPass, RunsOK
  <2>3. CASE ~ Finish(r) /\ ~ RecompPass(r)
    BY <1>3, <2>3 DEF RecompStep, ReadStaging, RecompLoopEnds, SaveCandidates, Promote, Goto, RunsOK
  <2> QED
    BY <2>1, <2>2, <2>3
<1> QED
  BY <1>1, <1>2, <1>3 DEF RunStep

\* Every step of a run but its first and its last two is one of a run at work.
LEMMA WorkSteps ==
  ASSUME NEW r \in Run, RunStep(r), ~ TryLease(r), ~ EndRun(r), ~ Release(r)
  PROVE  run[r].pc \in LeasePc
<1>1. CASE Recheck(r)
  BY <1>1 DEF Recheck, At, LeasePc
<1>2. CASE AgentStep(r)
  BY <1>2 DEF AgentStep, Snapshot, NoOp, PersistNoise, Spawn, PassFails, Publish, At, LeasePc, AgentPc
<1>3. CASE RecompStep(r)
  BY <1>3 DEF RecompStep, ReadStaging, RecompPass, RecompLoopEnds, SaveCandidates, Promote, At,
              LeasePc, RecompPc
<1> QED
  BY <1>1, <1>2, <1>3 DEF RunStep, LeaseStep

LEMMA NoNewWorkRun ==
  ASSUME RunsOK, NEW r \in Run, RunStep(r), ~ TryLease(r)
  PROVE  \A q \in Run : NoNewWork(q)
<1>1. \A q \in Run \ {r} : run'[q] = run[q]
  BY OneRunMoves
<1>2. NoNewWork(r)
  <2>1. CASE EndRun(r) \/ Release(r)
    <3>1. run'[r].pc \in {"releasing", "idle"}
      BY <2>1, IdleTypes DEF EndRun, Release, Goto, RunsOK, RunType
    <3> QED
      BY <3>1 DEF NoNewWork, LeasePc, AgentPc, RecompPc
  <2>2. CASE ~ EndRun(r) /\ ~ Release(r)
    BY <2>2, WorkSteps DEF NoNewWork
  <2> QED
    BY <2>1, <2>2
<1> QED
  BY <1>1, <1>2 DEF NoNewWork

\* The three things that happen to the row: it stays with its holder, a run
\* takes it, a run that is done drops it.
LEMMA LeaseStays ==
  ASSUME NEW S, HasLease(S), lease'.holder = lease.holder, \A r \in S : NoNewWork(r)
  PROVE  HasLease(S)'
  BY DEF HasLease, NoNewWork

LEMMA LeaseTaken ==
  ASSUME NEW S, S \subseteq Run, InTime(S), HasLease(S),
         NEW r \in Run, CanAcquire(r), Acquire(r), run[r].pc \notin LeasePc,
         \A q \in Run \ {r} : run'[q] = run[q]
  PROVE  HasLease(S)'
<1>1. lease'.holder = r
  BY DEF Acquire
<1>2. ASSUME NEW q \in S, q # r PROVE run'[q].pc \notin LeasePc
  <2>1. SUFFICES ASSUME run[q].pc \in LeasePc PROVE FALSE
    BY <1>2
  <2>2. lease.holder = q /\ lease.left > 0
    BY <2>1 DEF InTime, HasLease
  <2>3. q # None
    BY NoneNoRun
  <2>4. ~ (lease.left = 0)
    BY <2>2
  <2> QED
    BY <1>2, <2>2, <2>3, <2>4 DEF CanAcquire
<1> QED
  BY <1>1, <1>2 DEF HasLease

LEMMA LeaseDropped ==
  ASSUME NEW S, S \subseteq Run, HasLease(S), NEW r \in Run, run'[r].pc \notin LeasePc,
         \A q \in Run \ {r} : run'[q] = run[q],
         lease' = lease \/ lease.holder = r
  PROVE  HasLease(S)'
  BY DEF HasLease

LEMMA StepHasLease ==
  ASSUME NEW S, S \subseteq Run
  PROVE  TypeInv /\ InTime(S) /\ HasLease(S) /\ [Next]_vars => HasLease(S)'
<1> SUFFICES ASSUME Frame, RunsOK, InTime(S), HasLease(S), [Next]_vars PROVE HasLease(S)'
  BY TypeInvParts
<1>a. IncRun \subseteq Run /\ RecompRun \subseteq Run /\ WrapRun \subseteq Run
  BY DEF Run
<1>b. UNCHANGED run => \A q \in S : NoNewWork(q)
  BY DEF NoNewWork
<1>c. IdleRun.pc \notin LeasePc
  BY IdleTypes DEF LeasePc, AgentPc, RecompPc
<1>1. ASSUME NEW p \in Proc, NEW r \in Run, StartAgent(p, r) \/ StartRecomp(p, r) PROVE HasLease(S)'
  <2>1. lease' = lease
    BY <1>1 DEF StartAgent, StartRecomp
  <2>2. CASE UNCHANGED run
    BY <1>b, <2>1, <2>2, LeaseStays
  <2>3. CASE run' = [run EXCEPT ![r] = RunAt("checked", p, None)]
    <3>1. run'[r].pc \notin LeasePc /\ \A q \in Run \ {r} : run'[q] = run[q]
      BY <2>3 DEF RunsOK, RunAt, LeasePc, AgentPc, RecompPc
    <3> QED
      BY <2>1, <3>1, LeaseDropped
  <2> QED
    BY <1>1, <2>2, <2>3 DEF StartAgent, StartRecomp
<1>2. ASSUME NEW p \in Proc, Pass(p) PROVE HasLease(S)'
  <2>1. CASE Trigger(p) \/ DropIntent(p)
    BY <1>b, <2>1, LeaseStays DEF Trigger, DropIntent
  <2> QED
    BY <1>1, <1>2, <1>a, <2>1 DEF Pass
<1>3. ASSUME NEW p \in Proc, Crash(p) PROVE HasLease(S)'
  <2>1. \A q \in Run : run'[q] = IdleRun \/ run'[q] = run[q]
    BY <1>3 DEF Crash
  <2>2. \A q \in S : NoNewWork(q)
    BY <1>c, <2>1 DEF NoNewWork
  <2> QED
    BY <1>3, <2>2, LeaseStays DEF Crash
<1>4. ASSUME NEW r \in Run, TryLease(r) PROVE HasLease(S)'
  <2>1. \A q \in Run \ {r} : run'[q] = run[q]
    BY <1>4, OneRunMoves DEF RunStep, LeaseStep
  <2>2. CASE CanAcquire(r)
    <3>1. Acquire(r)
      BY <1>4, <2>2 DEF TryLease
    <3>2. run[r].pc \notin LeasePc
      BY <1>4 DEF TryLease, At, LeasePc, AgentPc, RecompPc
    <3> QED
      BY <2>1, <2>2, <3>1, <3>2, LeaseTaken
  <2>3. CASE ~ CanAcquire(r)
    <3>1. lease' = lease /\ run' = [run EXCEPT ![r] = IdleRun]
      BY <1>4, <2>3 DEF TryLease
    <3>2. run'[r].pc \notin LeasePc
      BY <1>c, <3>1 DEF RunsOK
    <3> QED
      BY <2>1, <3>1, <3>2, LeaseDropped
  <2> QED
    BY <2>2, <2>3
<1>5. ASSUME NEW r \in Run, RunStep(r), ~ TryLease(r) PROVE HasLease(S)'
  <2>1. \A q \in Run \ {r} : run'[q] = run[q]
    BY <1>5, OneRunMoves
  <2>2. CASE lease' = lease
    BY <1>5, <2>2, NoNewWorkRun, LeaseStays
  <2>3. CASE lease' # lease
    <3>1. Recheck(r) \/ Release(r)
      BY <1>5, <2>3 DEF RunStep, LeaseStep, AgentStep, RecompStep, Snapshot, NoOp, PersistNoise, Spawn,
         PassFails, Publish, ReadStaging, RecompPass, RecompLoopEnds, SaveCandidates, Promote, EndRun
    <3>2. run' = [run EXCEPT ![r] = IdleRun] /\ lease.holder = r
      BY <2>3, <3>1 DEF Recheck, Release
    <3>3. run'[r].pc \notin LeasePc
      BY <1>c, <3>2 DEF RunsOK
    <3> QED
      BY <2>1, <3>2, <3>3, LeaseDropped
  <2> QED
    BY <2>2, <2>3
<1>6. ASSUME NEW r \in Run, Renew(r) PROVE HasLease(S)'
  <2>1. lease'.holder = lease.holder /\ UNCHANGED run
    BY <1>6 DEF Renew, Held, Acquire
  <2> QED
    BY <1>b, <2>1, LeaseStays
<1>7. ASSUME NEW w \in Wrap, NEW r \in WrapRun, WrapAcquire(w, r) PROVE HasLease(S)'
  <2>1. r \in Run /\ CanAcquire(r) /\ Acquire(r) /\ run[r] = IdleRun
    BY <1>7, <1>a DEF WrapAcquire, Fresh
  <2>2. \A q \in Run \ {r} : run'[q] = run[q]
    BY <1>7 DEF WrapAcquire, RunsOK
  <2> QED
    BY <1>c, <2>1, <2>2, LeaseTaken
<1>8. ASSUME NEW w \in Wrap,
             \/ WrapWait(w) \/ WrapPlan(w) \/ WrapRetry(w) \/ WrapGivesUp(w)
             \/ WrapIterated(w) \/ WrapRelease(w) \/ RenewMarker(w)
      PROVE  HasLease(S)'
  <2>1. UNCHANGED <<run, lease>>
    BY <1>8 DEF WrapWait, WrapPlan, WrapRetry, WrapGivesUp, WrapIterated, WrapRelease, RenewMarker
  <2> QED
    BY <1>b, <2>1, LeaseStays
<1>9. CASE Tick
  <2>1. lease'.holder = lease.holder /\ UNCHANGED run
    BY <1>9 DEF Tick, Frame, RowType
  <2> QED
    BY <1>b, <2>1, LeaseStays
<1>10. ASSUME \/ UNCHANGED vars
              \/ \E p \in Proc : DiscardStaging(p) \/ \E w \in Wrap : StartWrapup(p, w)
       PROVE  HasLease(S)'
  <2>1. UNCHANGED <<run, lease>>
    BY <1>10 DEF vars, DiscardStaging, StartWrapup
  <2> QED
    BY <1>b, <2>1, LeaseStays
<1> QED
  BY <1>1, <1>2, <1>3, <1>4, <1>5, <1>6, <1>7, <1>8, <1>9, <1>10, <1>a, NextCases DEF WrapStep

LEMMA InitHasLease == ASSUME NEW S, S \subseteq Run PROVE Init => HasLease(S)
<1> SUFFICES ASSUME Init, NEW r \in S PROVE run[r].pc \notin LeasePc
  BY DEF HasLease
<1>1. run[r] = IdleRun
  BY DEF Init
<1> QED
  BY <1>1, IdleTypes DEF LeasePc, AgentPc, RecompPc

\* At most one run of any kind works on the session, in all processes.
OneWorks == \A q, r \in Run : run[q].pc \in LeasePc /\ run[r].pc \in LeasePc => q = r

\* As long as no run works longer than its lease, historian runs, iterations
\* of wrapups and rebuilds of all processes take turns, whatever crashes and
\* whichever release fails.
THEOREM LeaseIsExclusive == Spec /\ []InTime(Run) => []OneWorks
<1>1. Init => HasLease(Run)
  BY InitHasLease
<1>2. TypeInv /\ InTime(Run) /\ HasLease(Run) /\ [Next]_vars => HasLease(Run)'
  BY StepHasLease
<1>3. HasLease(Run) => OneWorks
  BY DEF HasLease, OneWorks
<1> QED
  BY <1>1, <1>2, <1>3, AlwaysTypeInv, PTL DEF Spec

\* The two theorems on the history need no more than that rebuilds end, or
\* renew their lease, in time: historian runs and wrapups may lose theirs.
THEOREM LeaseKeepsHistory ==
  Spec /\ []InTime(RecompRun) => []RebuildsAlone /\ []HistoryContiguous /\ HistorySpec
<1>0. RecompRun \subseteq Run
  BY DEF Run
<1>1. Init => HasLease(RecompRun)
  BY <1>0, InitHasLease
<1>2. TypeInv /\ InTime(RecompRun) /\ HasLease(RecompRun) /\ [Next]_vars => HasLease(RecompRun)'
  BY <1>0, StepHasLease
<1>3. HasLease(RecompRun) => RebuildsAlone
  BY DEF HasLease, RebuildsAlone, At, StagingPc, LeasePc, RecompPc
<1>4. Spec /\ []InTime(RecompRun) => []RebuildsAlone
  BY <1>1, <1>2, <1>3, AlwaysTypeInv, PTL DEF Spec
<1> QED
  BY <1>4, HistoryHasNoHoles, HistoryImplemented, PTL

-----------------------------------------------------------------------------
(* Inside one process: what the map of active runs and the synchronous     *)
(* stretches are for.  A run is in the map from the moment it yields to the*)
(* model until its finalizer; before that, nothing else of the process has *)
(* a turn.  No lease is needed for this, and none has to be in time.       *)

BeforePc == {"checked", "leased", "rechecked", "chunking"}
OwnPc == {"awaiting"} \cup RecompPc

Entered(r) == run[r].pc \in OwnPc => active[run[r].proc] = r
Entering(r) == run[r].pc \in BeforePc =>
                 /\ active[run[r].proc] = None
                 /\ \A q \in Run \ {r} : run[q].proc = run[r].proc => run[q].pc \notin BeforePc
HomeInv == /\ \A r \in Run : /\ run[r].pc # "idle" => run[r].proc \in Proc
                             /\ Entered(r) /\ Entering(r)
           /\ \A w \in Wrap : wrap[w].pc # "idle" => wrap[w].proc \in Proc

\* Two runs of one process are never both on their way.
OneRunPerProcess ==
  \A q, r \in Run : /\ run[q].proc = run[r].proc
                    /\ run[q].pc \in BeforePc \cup OwnPc
                    /\ run[r].pc \in BeforePc \cup OwnPc
                    => q = r

WrapsHome == \A w \in Wrap : wrap[w].pc # "idle" => wrap[w].proc \in Proc

\* Where a step may take the run r, the only one it moves: nowhere new, from
\* one synchronous point to the next, or into the map and behind them.
Leaves(r) == run'[r].pc \notin BeforePc \cup OwnPc
Still(r) == /\ run'[r].proc = run[r].proc
            /\ run[r].pc \in BeforePc /\ run'[r].pc \in BeforePc
            /\ active' = active
Onward(r) == /\ run'[r].proc = run[r].proc
             /\ run[r].pc \in OwnPc /\ run'[r].pc \in OwnPc
             /\ active' = active
Enters(r) == /\ run'[r].proc = run[r].proc
             /\ run[r].pc \in BeforePc /\ run'[r].pc \in OwnPc
             /\ active' = [active EXCEPT ![run[r].proc] = r]
Begins(r) == /\ run'[r].pc \in BeforePc /\ run'[r].proc \in Proc
             /\ active' = active /\ active[run'[r].proc] = None
             /\ Yielded(run'[r].proc)
\* The map keeps what it has, but maybe for r.
Spares(r) == \A p \in Proc : active'[p] = active[p] \/ (active[p] = r /\ active'[p] = None)
Homed(r) == run'[r].pc # "idle" => run'[r].proc \in Proc
Alone(r) == \A q \in Run \ {r} : run'[q] = run[q]

LEMMA PcsApart == /\ BeforePc \cap OwnPc = {} /\ BeforePc \subseteq SyncPc
                  /\ "idle" \notin BeforePc \cup OwnPc
  BY DEF BeforePc, OwnPc, RecompPc, SyncPc

LEMMA LeavesHome ==
  ASSUME HomeInv, WrapsHome', NEW r \in Run, Alone(r), Homed(r), Leaves(r), Spares(r)
  PROVE  HomeInv'
<1>1. ASSUME NEW q \in Run, q # r
      PROVE  /\ run'[q].pc # "idle" => run'[q].proc \in Proc
             /\ Entered(q)' /\ Entering(q)'
  <2>1. run'[q] = run[q]
    BY <1>1 DEF Alone
  <2>2. run[q].pc # "idle" => run[q].proc \in Proc
    BY DEF HomeInv
  <2>3. Entered(q)'
    <3> SUFFICES ASSUME run[q].pc \in OwnPc PROVE Entered(q)'
      BY <2>1 DEF Entered
    <3>1. active[run[q].proc] = q /\ run[q].proc \in Proc
      BY <2>2, PcsApart DEF HomeInv, Entered
    <3>2. active'[run[q].proc] = q
      BY <1>1, <3>1 DEF Spares
    <3> QED
      BY <2>1, <3>2 DEF Entered
  <2>4. Entering(q)'
    <3> SUFFICES ASSUME run[q].pc \in BeforePc PROVE Entering(q)'
      BY <2>1 DEF Entering
    <3>1. active[run[q].proc] = None /\ run[q].proc \in Proc
      BY <2>2, PcsApart DEF HomeInv, Entering
    <3>2. active'[run[q].proc] = None
      BY <3>1 DEF Spares
    <3>3. ASSUME NEW x \in Run \ {q}, run'[x].proc = run[q].proc PROVE run'[x].pc \notin BeforePc
      <4>1. CASE x = r
        BY <4>1 DEF Leaves
      <4>2. CASE x # r
        BY <3>3, <4>2 DEF Alone, HomeInv, Entering
      <4> QED
        BY <4>1, <4>2
    <3> QED
      BY <2>1, <3>2, <3>3 DEF Entering
  <2> QED
    BY <2>1, <2>2, <2>3, <2>4
<1>2. Entered(r)' /\ Entering(r)'
  BY DEF Leaves, Entered, Entering
<1> QED
  BY <1>1, <1>2 DEF HomeInv, WrapsHome, Homed

LEMMA SameSpares == ASSUME NEW r, active' = active PROVE Spares(r)
  BY DEF Spares

LEMMA StillHome ==
  ASSUME HomeInv, WrapsHome', NEW r \in Run, Alone(r), Still(r) \/ Onward(r)
  PROVE  HomeInv'
<1>1. ASSUME NEW q \in Run
      PROVE  /\ run'[q].proc = run[q].proc
             /\ run'[q].pc \in BeforePc <=> run[q].pc \in BeforePc
             /\ run'[q].pc \in OwnPc <=> run[q].pc \in OwnPc
             /\ run'[q].pc # "idle" => run[q].pc # "idle"
  BY PcsApart DEF Alone, Still, Onward
<1>2. active' = active
  BY DEF Still, Onward
<1>3. ASSUME NEW q \in Run PROVE Entering(q)'
  BY <1>1, <1>2 DEF HomeInv, Entering
<1>4. ASSUME NEW q \in Run PROVE Entered(q)'
  BY <1>1, <1>2 DEF HomeInv, Entered
<1> QED
  BY <1>1, <1>3, <1>4 DEF HomeInv, WrapsHome

LEMMA EntersHome ==
  ASSUME Frame, HomeInv, WrapsHome', NEW r \in Run, Alone(r), Enters(r)
  PROVE  HomeInv'
<1> DEFINE p == run[r].proc
<1>1. p \in Proc /\ active[p] = None /\ active'[p] = r
      /\ \A x \in Proc \ {p} : active'[x] = active[x]
  BY PcsApart DEF Enters, HomeInv, Entering, Frame
<1>2. \A q \in Run \ {r} : run[q].proc = p => run[q].pc \notin BeforePc
  BY DEF Enters, HomeInv, Entering
<1>3. \A q \in Run \ {r} : run[q].proc = p => run[q].pc \notin OwnPc
  BY <1>1, NoneNoRun DEF HomeInv, Entered
<1>4. ASSUME NEW q \in Run, q # r
      PROVE  /\ run'[q].pc # "idle" => run'[q].proc \in Proc
             /\ Entered(q)' /\ Entering(q)'
  <2>1. run'[q] = run[q]
    BY <1>4 DEF Alone
  <2>2. run[q].pc # "idle" => run[q].proc \in Proc
    BY DEF HomeInv
  <2>3. CASE run[q].pc \notin BeforePc \cup OwnPc
    BY <2>1, <2>2, <2>3 DEF Entered, Entering
  <2>4. CASE run[q].pc \in BeforePc \cup OwnPc
    <3>1. run[q].proc # p /\ run[q].proc \in Proc
      BY <1>2, <1>3, <1>4, <2>2, <2>4, PcsApart
    <3>2. active'[run[q].proc] = active[run[q].proc]
      BY <1>1, <3>1
    <3>3. Entered(q)'
      BY <2>1, <3>2 DEF HomeInv, Entered
    <3>4. ASSUME NEW x \in Run \ {q}, run'[x].proc = run[q].proc, run[q].pc \in BeforePc
          PROVE  run'[x].pc \notin BeforePc
      BY <3>1, <3>4 DEF Enters, Alone, HomeInv, Entering
    <3>5. Entering(q)'
      BY <2>1, <3>2, <3>4 DEF HomeInv, Entering
    <3> QED
      BY <2>1, <2>2, <3>3, <3>5
  <2> QED
    BY <2>3, <2>4
<1>5. Entered(r)' /\ Entering(r)' /\ run'[r].proc \in Proc
  BY <1>1, PcsApart DEF Enters, Entered, Entering
<1> QED
  BY <1>4, <1>5 DEF HomeInv, WrapsHome

LEMMA BeginsHome ==
  ASSUME HomeInv, WrapsHome', NEW r \in Run, Alone(r), Begins(r)
  PROVE  HomeInv'
<1> DEFINE p == run'[r].proc
<1>1. active' = active /\ active[p] = None /\ p \in Proc /\ run'[r].pc \in BeforePc
  BY DEF Begins
<1>2. \A q \in Run : run[q].proc = p => run[q].pc \notin BeforePc
  BY PcsApart DEF Begins, Yielded
<1>3. ASSUME NEW q \in Run, q # r
      PROVE  /\ run'[q].pc # "idle" => run'[q].proc \in Proc
             /\ Entered(q)' /\ Entering(q)'
  <2>1. run'[q] = run[q]
    BY <1>3 DEF Alone
  <2>2. Entered(q)'
    BY <1>1, <2>1 DEF HomeInv, Entered
  <2>3. ASSUME NEW x \in Run \ {q}, run'[x].proc = run[q].proc, run[q].pc \in BeforePc
        PROVE  run'[x].pc \notin BeforePc
    <3>1. run[q].proc # p
      BY <1>2, <2>3
    <3>2. x # r /\ run'[x] = run[x]
      BY <2>3, <3>1 DEF Alone
    <3> QED
      BY <2>3, <3>2 DEF HomeInv, Entering
  <2>4. Entering(q)'
    BY <1>1, <2>1, <2>3 DEF HomeInv, Entering
  <2> QED
    BY <2>1, <2>2, <2>4 DEF HomeInv
<1>4. Entered(r)'
  BY <1>1, PcsApart DEF Entered
<1>5. Entering(r)'
  BY <1>1, <1>2 DEF Alone, Entering
<1> QED
  BY <1>1, <1>3, <1>4, <1>5 DEF HomeInv, WrapsHome

LEMMA FinishLeaves ==
  ASSUME RunsOK, HomeInv, NEW r \in Run, run[r].pc # "idle", Finish(r)
  PROVE  Homed(r) /\ Leaves(r)
<1>1. run'[r].pc = "finishing" /\ run'[r].proc = run[r].proc
  BY DEF Finish, RunsOK, RunAt
<1> QED
  BY <1>1 DEF HomeInv, Homed, Leaves, BeforePc, OwnPc, RecompPc

LEMMA IdleLeaves ==
  ASSUME RunsOK, NEW r \in Run, run' = [run EXCEPT ![r] = IdleRun]
  PROVE  Homed(r) /\ Leaves(r)
  BY IdleTypes, PcsApart DEF RunsOK, Homed, Leaves

\* The first steps of a run, up to its own.
LEMMA LeaseHome ==
  ASSUME Frame, RunsOK, HomeInv, WrapsHome', NEW r \in Run, LeaseStep(r)
  PROVE  HomeInv'
<1>0. Alone(r)
  BY OneRunMoves DEF RunStep, Alone
<1>1. CASE TryLease(r)
  <2>0. active' = active
    BY <1>1 DEF TryLease
  <2>1. CASE run' = [run EXCEPT ![r] = IdleRun]
    BY <1>0, <2>0, <2>1, SameSpares, IdleLeaves, LeavesHome
  <2>2. CASE run' # [run EXCEPT ![r] = IdleRun]
    <3>1. run[r].pc = "checked" /\ run'[r].pc = "leased" /\ run'[r].proc = run[r].proc
      BY <1>1, <2>2 DEF TryLease, At, RunsOK, RunType
    <3>2. Still(r)
      BY <2>0, <3>1 DEF Still, BeforePc
    <3> QED
      BY <1>0, <3>2, StillHome
  <2> QED
    BY <2>1, <2>2
<1>2. CASE Recheck(r)
  <2>1. CASE WrapupLive
    <3>1. run' = [run EXCEPT ![r] = IdleRun] /\ active' = active
      BY <1>2, <2>1 DEF Recheck
    <3> QED
      BY <1>0, <3>1, SameSpares, IdleLeaves, LeavesHome
  <2>2. CASE ~ WrapupLive /\ r \in IncRun
    <3>1. run[r].pc = "leased" /\ run'[r].pc = "rechecked" /\ run'[r].proc = run[r].proc /\ active' = active
      BY <1>2, <2>2, IdAssumption DEF Recheck, At, Goto, RunsOK, RunType
    <3>2. Still(r)
      BY <3>1 DEF Still, BeforePc
    <3> QED
      BY <1>0, <3>2, StillHome
  <2>3. CASE ~ WrapupLive /\ r \notin IncRun
    <3>1. /\ run[r].pc = "leased" /\ run'[r].pc = "preparing" /\ run'[r].proc = run[r].proc
          /\ active' = [active EXCEPT ![run[r].proc] = r]
      BY <1>2, <2>3 DEF Recheck, At, RunsOK, RunType
    <3>2. Enters(r)
      BY <3>1 DEF Enters, BeforePc, OwnPc, RecompPc
    <3> QED
      BY <1>0, <3>2, EntersHome
  <2> QED
    BY <2>1, <2>2, <2>3
<1>3. CASE EndRun(r)
  <2>1. run'[r].pc = "releasing" /\ run'[r].proc = run[r].proc /\ run[r].pc = "finishing" /\ active' = active
    BY <1>3 DEF EndRun, At, Goto, RunsOK, RunType
  <2>2. Homed(r) /\ Leaves(r)
    BY <2>1 DEF HomeInv, Homed, Leaves, BeforePc, OwnPc, RecompPc
  <2> QED
    BY <1>0, <2>1, <2>2, SameSpares, LeavesHome
<1>4. CASE Release(r)
  <2>1. run' = [run EXCEPT ![r] = IdleRun]
    BY <1>4 DEF Release
  <2>2. Spares(r)
    <3>1. Forget(r) => Spares(r)
      BY DEF Forget, Spares
    <3> QED
      BY <1>4, <3>1, SameSpares DEF Release
  <2> QED
    BY <1>0, <2>1, <2>2, IdleLeaves, LeavesHome
<1> QED
  BY <1>1, <1>2, <1>3, <1>4 DEF LeaseStep

LEMMA AgentHome ==
  ASSUME Frame, RunsOK, HomeInv, WrapsHome', NEW r \in Run, AgentStep(r)
  PROVE  HomeInv'
<1>0. Alone(r)
  BY OneRunMoves DEF RunStep, Alone
<1>1. CASE Finish(r)
  <2>1. run[r].pc # "idle" /\ (active' = active \/ Spawn(r))
    BY DEF AgentStep, Snapshot, NoOp, PersistNoise, Spawn, PassFails, Publish, At
  <2>2. ~ Spawn(r)
    <3>1. Spawn(r) => run'[r].pc = "awaiting"
      BY DEF Spawn, Goto, RunsOK, RunType
    <3> QED
      BY <1>1, <2>1, <3>1, FinishLeaves DEF Leaves, OwnPc
  <2> QED
    BY <1>0, <1>1, <2>1, <2>2, SameSpares, FinishLeaves, LeavesHome
<1>2. CASE ~ Finish(r)
  <2>1. CASE Snapshot(r)
    <3>1. run[r].pc = "rechecked" /\ run'[r].pc = "chunking" /\ run'[r].proc = run[r].proc /\ active' = active
      BY <1>2, <2>1 DEF Snapshot, At, RunsOK, RunType
    <3>2. Still(r)
      BY <3>1 DEF Still, BeforePc
    <3> QED
      BY <1>0, <3>2, StillHome
  <2>2. CASE Spawn(r)
    <3>1. /\ run[r].pc = "chunking" /\ run'[r].pc = "awaiting" /\ run'[r].proc = run[r].proc
          /\ active' = [active EXCEPT ![run[r].proc] = r]
      BY <2>2 DEF Spawn, At, Goto, RunsOK, RunType
    <3>2. Enters(r)
      BY <3>1 DEF Enters, BeforePc, OwnPc
    <3> QED
      BY <1>0, <3>2, EntersHome
  <2> QED
    BY <1>2, <2>1, <2>2 DEF AgentStep, NoOp, PersistNoise, PassFails, Publish
<1> QED
  BY <1>1, <1>2

LEMMA RecompHome ==
  ASSUME Frame, RunsOK, HomeInv, WrapsHome', NEW r \in Run, RecompStep(r)
  PROVE  HomeInv'
<1>0. Alone(r)
  BY OneRunMoves DEF RunStep, Alone
<1>a. active' = active /\ run[r].pc \in RecompPc
  BY DEF RecompStep, ReadStaging, RecompPass, RecompLoopEnds, SaveCandidates, Promote, At, RecompPc
<1>1. CASE Finish(r)
  <2>1. run[r].pc # "idle"
    BY <1>a DEF RecompPc
  <2> QED
    BY <1>0, <1>1, <1>a, <2>1, SameSpares, FinishLeaves, LeavesHome
<1>2. CASE ~ Finish(r)
  <2>1. /\ run'[r].proc = run[r].proc
        /\ run'[r].pc \in {"preparing", "passing", "saving", "promoting"}
    <3>1. CASE ReadStaging(r)
      BY <3>1 DEF ReadStaging, RunsOK, RunType
    <3>2. CASE RecompPass(r)
      <4>1. run[r].pc = "passing" /\ \E c : run' = [run EXCEPT ![r].cand = c]
        BY <3>2 DEF RecompPass, At
      <4> QED
        BY <4>1 DEF RunsOK, RunType
    <3>3. CASE RecompLoopEnds(r) \/ SaveCandidates(r)
      <4>1. Goto(r, "saving") \/ Goto(r, "promoting")
        BY <1>2, <3>3 DEF RecompLoopEnds, SaveCandidates
      <4> QED
        BY <4>1 DEF Goto, RunsOK, RunType
    <3> QED
      BY <1>2, <3>1, <3>2, <3>3 DEF RecompStep, Promote
  <2>2. Onward(r)
    BY <1>a, <2>1 DEF Onward, OwnPc, RecompPc
  <2> QED
    BY <1>0, <2>2, StillHome
<1> QED
  BY <1>1, <1>2

\* A wrapup has a process for as long as it goes on.
LEMMA StepWrapsHome == TypeInv /\ WrapsHome /\ [Next]_vars => WrapsHome'
<1> SUFFICES ASSUME Frame, WrapsHome, [Next]_vars PROVE WrapsHome'
  BY TypeInvParts
<1>1. ASSUME NEW w \in Wrap, WrapStep(w) \/ WrapRetry(w) \/ RenewMarker(w) PROVE WrapsHome'
  <2>1. \A v \in Wrap \ {w} : wrap'[v] = wrap[v]
    BY <1>1 DEF WrapStep, WrapWait, WrapPlan, WrapAcquire, WrapRetry, WrapGivesUp, WrapIterated,
                WrapRelease, RenewMarker, WrapGoto, Frame, WrapType
  <2>2. wrap'[w].pc # "idle" => wrap[w].pc # "idle" /\ wrap'[w].proc = wrap[w].proc
    <3>1. CASE WrapRelease(w)
      BY <3>1 DEF WrapRelease, IdleWrap, Frame
    <3>2. CASE UNCHANGED wrap
      BY <3>2
    <3>3. CASE WrapWait(w) \/ WrapPlan(w) \/ WrapGivesUp(w)
      BY <3>2, <3>3 DEF WrapWait, WrapPlan, WrapGivesUp, WrapGoto, WrapAt, Frame, WrapType
    <3>4. CASE WrapIterated(w) \/ \E r \in WrapRun : WrapAcquire(w, r)
      BY <3>4 DEF WrapIterated, WrapAcquire, WrapAt, Frame, WrapType
    <3>5. CASE RenewMarker(w) \/ WrapRetry(w)
      BY <3>2, <3>5 DEF RenewMarker, WrapRetry, Frame, WrapType
    <3> QED
      BY <1>1, <3>1, <3>3, <3>4, <3>5 DEF WrapStep
  <2> QED
    BY <2>1, <2>2 DEF WrapsHome
<1>2. ASSUME NEW p \in Proc, NEW w \in Wrap, StartWrapup(p, w) PROVE WrapsHome'
  <2>1. wrap'[w].proc = p /\ \A v \in Wrap \ {w} : wrap'[v] = wrap[v]
    BY <1>2 DEF StartWrapup, Frame
  <2> QED
    BY <2>1 DEF WrapsHome
<1>3. ASSUME NEW p \in Proc, Crash(p) PROVE WrapsHome'
  BY <1>3 DEF Crash, WrapsHome, IdleWrap
<1>4. ASSUME NEW r \in Run, RunStep(r) \/ Renew(r) PROVE WrapsHome'
  <2>1. UNCHANGED wrap
    BY <1>4 DEF RunStep, LeaseStep, AgentStep, RecompStep, TryLease, Recheck, Snapshot, NoOp, PersistNoise,
       Spawn, PassFails, Publish, ReadStaging, RecompPass, RecompLoopEnds, SaveCandidates, Promote,
       EndRun, Release, Renew
  <2> QED
    BY <2>1 DEF WrapsHome
<1>5. ASSUME \/ Tick \/ UNCHANGED vars
             \/ \E p \in Proc : \/ Pass(p) \/ DiscardStaging(p)
                                \/ \E r \in RecompRun : StartRecomp(p, r)
      PROVE  WrapsHome'
  <2>1. UNCHANGED wrap
    BY <1>5 DEF Tick, vars, Pass, Trigger, StartAgent, DropIntent, DiscardStaging, StartRecomp
  <2> QED
    BY <2>1 DEF WrapsHome
<1> QED
  BY <1>1, <1>2, <1>3, <1>4, <1>5, NextCases

LEMMA StepHome == TypeInv /\ HomeInv /\ [Next]_vars => HomeInv'
<1> SUFFICES ASSUME Frame, RunsOK, HomeInv, [Next]_vars PROVE HomeInv'
  BY TypeInvParts
<1>a. IncRun \subseteq Run /\ RecompRun \subseteq Run /\ WrapRun \subseteq Run
  BY DEF Run
<1>b. WrapsHome /\ WrapsHome'
  BY StepWrapsHome, TypeInvParts DEF HomeInv, WrapsHome
<1>c. UNCHANGED <<run, active>> => HomeInv'
  BY <1>b DEF HomeInv, WrapsHome, Entered, Entering
<1>1. ASSUME NEW p \in Proc, NEW r \in Run, StartAgent(p, r) \/ StartRecomp(p, r) PROVE HomeInv'
  <2>1. CASE UNCHANGED run
    BY <1>1, <1>c, <2>1 DEF StartAgent, StartRecomp
  <2>2. CASE run' = [run EXCEPT ![r] = RunAt("checked", p, None)]
    <3>1. run'[r].pc = "checked" /\ run'[r].proc = p /\ Alone(r)
      BY <2>2 DEF RunsOK, RunAt, Alone
    <3>2. Begins(r)
      BY <1>1, <3>1 DEF StartAgent, StartRecomp, Begins, BeforePc
    <3> QED
      BY <1>b, <3>1, <3>2, BeginsHome
  <2> QED
    BY <1>1, <2>1, <2>2 DEF StartAgent, StartRecomp
<1>2. ASSUME NEW p \in Proc, Pass(p) PROVE HomeInv'
  <2>1. CASE Trigger(p) \/ DropIntent(p)
    BY <1>c, <2>1 DEF Trigger, DropIntent
  <2> QED
    BY <1>1, <1>2, <1>a, <2>1 DEF Pass
<1>3. ASSUME NEW p \in Proc, Crash(p) PROVE HomeInv'
  <2>1. ASSUME NEW q \in Run
        PROVE  IF run[q].proc = p THEN run'[q] = IdleRun ELSE run'[q] = run[q]
    BY <1>3 DEF Crash
  <2>2. \A x \in Proc \ {p} : active'[x] = active[x]
    BY <1>3 DEF Crash, Frame
  <2>3. ASSUME NEW q \in Run, run'[q].pc # "idle"
        PROVE  /\ run'[q] = run[q] /\ run[q].proc \in Proc /\ run[q].proc # p
               /\ active'[run[q].proc] = active[run[q].proc]
    BY <2>1, <2>2, <2>3, IdleTypes DEF HomeInv
  <2>4. ASSUME NEW q \in Run PROVE Entered(q)'
    BY <2>3, PcsApart DEF HomeInv, Entered
  <2>5. ASSUME NEW q \in Run, run'[q].pc \in BeforePc PROVE Entering(q)'
    <3>1. run'[q] = run[q] /\ active'[run[q].proc] = None
      BY <2>3, <2>5, PcsApart DEF HomeInv, Entering
    <3>2. ASSUME NEW x \in Run \ {q}, run'[x].proc = run[q].proc, run'[x].pc \in BeforePc PROVE FALSE
      <4>1. run'[x] = run[x]
        BY <2>3, <3>2, PcsApart
      <4> QED
        BY <2>5, <3>1, <3>2, <4>1 DEF HomeInv, Entering
    <3> QED
      BY <3>1, <3>2 DEF Entering
  <2>6. ASSUME NEW q \in Run PROVE Entering(q)'
    BY <2>5 DEF Entering
  <2> QED
    BY <1>b, <2>3, <2>4, <2>6 DEF HomeInv, WrapsHome
<1>4. ASSUME NEW r \in Run, RunStep(r) PROVE HomeInv'
  BY <1>4, <1>b, LeaseHome, AgentHome, RecompHome DEF RunStep
<1>5. ASSUME NEW w \in Wrap, NEW r \in WrapRun, WrapAcquire(w, r) PROVE HomeInv'
  <2>1. /\ run'[r].pc = "rechecked" /\ run'[r].proc = wrap[w].proc /\ Alone(r)
        /\ active' = active /\ active[wrap[w].proc] = None /\ Yielded(wrap[w].proc)
    BY <1>5, <1>a DEF WrapAcquire, WrapAt, RunsOK, RunAt, Alone
  <2>2. wrap[w].proc \in Proc
    BY <1>5, <1>b DEF WrapAcquire, WrapAt, WrapsHome
  <2>3. Begins(r)
    BY <2>1, <2>2 DEF Begins, BeforePc
  <2> QED
    BY <1>a, <1>b, <2>1, <2>3, BeginsHome
<1>6. ASSUME NEW w \in Wrap,
             \/ WrapWait(w) \/ WrapPlan(w) \/ WrapRetry(w) \/ WrapGivesUp(w)
             \/ WrapIterated(w) \/ WrapRelease(w) \/ RenewMarker(w)
      PROVE  HomeInv'
  BY <1>6, <1>c DEF WrapWait, WrapPlan, WrapRetry, WrapGivesUp, WrapIterated, WrapRelease, RenewMarker
<1>7. ASSUME \/ Tick \/ UNCHANGED vars \/ \E r \in Run : Renew(r)
             \/ \E p \in Proc : DiscardStaging(p) \/ \E w \in Wrap : StartWrapup(p, w)
      PROVE  HomeInv'
  BY <1>7, <1>c DEF Tick, vars, Renew, DiscardStaging, StartWrapup
<1> QED
  BY <1>1, <1>2, <1>3, <1>4, <1>5, <1>6, <1>7, <1>a, NextCases DEF WrapStep

\* In each process at most one run is between its first check and its end,
\* whatever leases are lost or taken over, whichever wrapups, rebuilds and
\* passes start runs, and whichever releases fail.
THEOREM OneRunEach == Spec => []OneRunPerProcess
<1>1. Init => HomeInv
  <2> SUFFICES ASSUME Init PROVE HomeInv
    OBVIOUS
  <2>1. \A r \in Run : run[r].pc = "idle"
    BY IdleTypes DEF Init
  <2>2. \A w \in Wrap : wrap[w].pc = "idle"
    BY DEF Init, IdleWrap
  <2> QED
    BY <2>1, <2>2, PcsApart DEF HomeInv, Entered, Entering
<1>2. HomeInv => OneRunPerProcess
  <2> SUFFICES ASSUME HomeInv, NEW q \in Run, NEW r \in Run, run[q].proc = run[r].proc,
                      run[q].pc \in BeforePc \cup OwnPc, run[r].pc \in BeforePc \cup OwnPc
               PROVE  q = r
    BY DEF OneRunPerProcess
  <2>1. CASE run[q].pc \in BeforePc /\ run[r].pc \in BeforePc
    BY <2>1 DEF HomeInv, Entering
  <2>2. CASE run[q].pc \in OwnPc \/ run[r].pc \in OwnPc
    BY <2>2, NoneNoRun DEF HomeInv, Entered, Entering
  <2> QED
    BY <2>1, <2>2
<1> QED
  BY <1>1, <1>2, StepHome, AlwaysTypeInv, PTL DEF Spec

-----------------------------------------------------------------------------
(* Rebuilds of a range: PartialRecomp, with the same two tables.           *)

CONSTANTS PartialRun, FullRun, MayLoseLease
VARIABLES holder, passes, range, rebuild

Partial == INSTANCE PartialRecomp WITH lease <- holder, run <- rebuild

\* Both modules ask the same of a table.
LEMMA PartialTables ==
  /\ Partial!NoRows = NoRows
  /\ \A t : /\ Partial!IsTable(t) <=> IsTable(t)
            /\ Partial!NextSeq(t) = NextSeq(t)
            /\ Partial!NextOrdinal(t) = NextOrdinal(t)
            /\ Partial!LastEnd(t) = LastEnd(t)
            /\ Partial!Contiguous(t) <=> Contiguous(t)
            /\ \A i : Partial!PrevSeq(t, i) = PrevSeq(t, i)
            /\ \A u : Partial!Overwrite(t, u) = Overwrite(t, u)
  /\ \A q, a, b : Partial!Splits(q, a, b) = Splits(q, a, b)
<1>1. Partial!NoRows = NoRows /\ \A t : Partial!IsTable(t) <=> IsTable(t)
  BY DEF Partial!NoRows, NoRows, Partial!IsTable, IsTable, Partial!Cell, Cell, Partial!Ordinal, Ordinal
<1>2. \A t : Partial!NextSeq(t) = NextSeq(t) /\ Partial!NextOrdinal(t) = NextOrdinal(t)
  BY DEF Partial!NextSeq, NextSeq, Partial!NextOrdinal, NextOrdinal, Partial!LastSeq, LastSeq
<1>3. \A t : Partial!LastEnd(t) = LastEnd(t)
  BY DEF Partial!LastEnd, LastEnd
<1>4. \A t, i : Partial!PrevSeq(t, i) = PrevSeq(t, i)
  BY DEF Partial!PrevSeq, PrevSeq
<1>5. \A t : Partial!Contiguous(t) <=> Contiguous(t)
  BY DEF Partial!Contiguous, Contiguous, Partial!PrevSeq, PrevSeq
<1>6. \A t, u : Partial!Overwrite(t, u) = Overwrite(t, u)
  BY DEF Partial!Overwrite, Overwrite
<1>7. \A q, a, b : Partial!Splits(q, a, b) = Splits(q, a, b)
  BY DEF Partial!Splits, Splits, Partial!Chain, Chain
<1> QED
  BY <1>1, <1>2, <1>3, <1>4, <1>5, <1>6, <1>7

LEMMA PartialCardinality == \A S : Partial!Cardinality(S) = Cardinality(S)
  BY DEF Partial!Cardinality, Cardinality

\* A set of numbers has a least one.
LEMMA LeastNumber ==
  ASSUME NEW S, S \subseteq Nat, S # {}
  PROVE  \E m \in S : \A n \in S : m <= n
<1> DEFINE R == {p \in Nat \X Nat : p[1] < p[2]}
<1>1. IsWellFoundedOn(R, Nat)
  BY NatLessThanWellFounded, Zenon DEF OpToRel
<1>2. PICK m \in S : \A n \in S : ~ (<<n, m>> \in R)
  BY <1>1, WFMin, Zenon
<1>3. \A n \in S : ~ (n < m)
  BY <1>2
<1> QED
  BY <1>3

\* The sequence numbers of a table are finitely many.
LEMMA RowsAreFinite ==
  ASSUME NEW t, IsTable(t)
  PROVE  IsFiniteSet(DOMAIN t) /\ Cardinality(DOMAIN t) \in Nat
<1>1. CASE DOMAIN t = {}
  BY <1>1, FS_EmptySet
<1>2. CASE DOMAIN t # {}
  <2>1. LastSeq(t) \in Nat /\ DOMAIN t \subseteq 0..LastSeq(t)
    BY <1>2, LastSeqProps DEF IsTable
  <2>2. IsFiniteSet(0..LastSeq(t))
    BY <2>1, FS_Interval
  <2> QED
    BY <2>1, <2>2, FS_Subset, FS_CardinalityType
<1> QED
  BY <1>1, <1>2

\* How many rows of D come before i.
Rank(D, i) == Cardinality({j \in D : j < i})

\* There is a row at each place.
LEMMA RowAtPlace ==
  ASSUME NEW D, D \subseteq Nat, IsFiniteSet(D), NEW k \in Nat, k < Cardinality(D)
  PROVE  \E i \in D : Rank(D, i) = k
<1> USE DEF Rank
<1> DEFINE Before(i) == {j \in D : j < i}
           S == {n \in Nat : n < Cardinality(D) /\ ~ \E i \in D : Cardinality(Before(i)) = n}
<1>1. SUFFICES ASSUME S # {} PROVE FALSE
  OBVIOUS
<1>2. PICK n \in S : \A m \in S : n <= m
  BY <1>1, LeastNumber
<1>3. Cardinality(D) \in Nat /\ n \in Nat /\ n < Cardinality(D)
  BY <1>2, FS_CardinalityType
<1>4. \A T : T \subseteq D => IsFiniteSet(T)
  BY FS_Subset
<1>5. CASE n = 0
  <2>1. D # {}
    BY <1>3, <1>5, FS_EmptySet
  <2>2. PICK i \in D : \A j \in D : i <= j
    BY <2>1, LeastNumber
  <2>3. Before(i) = {}
    <3>1. \A j \in D : j \in Nat /\ ~ (j < i)
      BY <2>2
    <3> QED
      BY <3>1
  <2> QED
    BY <1>2, <1>5, <2>3, FS_EmptySet
<1>6. CASE n # 0
  <2>1. n - 1 \in Nat /\ n - 1 < Cardinality(D) /\ n - 1 \notin S
    BY <1>2, <1>3, <1>6
  <2>2. PICK i \in D : Cardinality(Before(i)) = n - 1
    BY <2>1
  <2> DEFINE B == Before(i) \cup {i}
  <2>3. IsFiniteSet(Before(i)) /\ i \notin Before(i)
    BY <1>4
  <2>4. Cardinality(B) = n
    <3>1. Cardinality(B) = Cardinality(Before(i)) + 1
      BY <2>3, FS_AddElement
    <3> QED
      BY <1>3, <2>2, <3>1
  <2>5. D \ B # {}
    BY <1>3, <2>4
  <2>6. PICK m \in D \ B : \A j \in D \ B : m <= j
    BY <2>5, LeastNumber
  <2>7. Before(m) = B
    <3>1. i \in Nat /\ m \in Nat /\ m \notin B /\ \A j \in D : j \in Nat
      BY <2>6
    <3>2. i < m
      BY <3>1, <2>6
    <3>3. ASSUME NEW j \in D PROVE j < m <=> j < i \/ j = i
      BY <2>6, <3>1, <3>2, <3>3
    <3> QED
      BY <2>6, <3>2, <3>3
  <2> QED
    BY <1>2, <2>4, <2>6, <2>7
<1> QED
  BY <1>5, <1>6

\* Renumbering makes a table of as many rows.
LEMMA RenumberIsTable ==
  ASSUME NEW t, IsTable(t), NEW n \in Nat
  PROVE  LET c == Cardinality(DOMAIN t)
             u == Partial!Renumber(t, n)
         IN IsTable(u) /\ c \in Nat /\ DOMAIN u = n..(n + c - 1)
<1> DEFINE c == Cardinality(DOMAIN t)
           u == Partial!Renumber(t, n)
           Row(k) == CHOOSE i \in DOMAIN t : Cardinality({j \in DOMAIN t : j < i}) = k - n
<1>1. c \in Nat /\ IsFiniteSet(DOMAIN t) /\ DOMAIN t \subseteq Nat
  BY RowsAreFinite DEF IsTable
<1>2. /\ u = [k \in n..(n + c - 1) |-> u[k]]
      /\ \A k \in n..(n + c - 1) : u[k] = t[Row(k)]
  <2>1. Partial!Cardinality(DOMAIN t) = c
    BY PartialCardinality
  <2>2. u = [k \in n..(n + c - 1) |-> u[k]]
    BY <2>1 DEF Partial!Renumber
  <2>3. ASSUME NEW k \in n..(n + c - 1) PROVE u[k] = t[Row(k)]
    BY <2>1, PartialCardinality DEF Partial!Renumber
  <2> QED
    BY <2>2, <2>3
<1>3. ASSUME NEW k \in n..(n + c - 1) PROVE t[Row(k)] \in Cell
  <2>1. k - n \in Nat /\ k - n < c
    BY <1>1
  <2> DEFINE D == DOMAIN t
             d == k - n
  <2> HIDE DEF D, d
  <2>2. D \subseteq Nat /\ IsFiniteSet(D) /\ d \in Nat /\ d < Cardinality(D)
    BY <1>1, <2>1 DEF D, d
  <2>3. \E i \in D : Rank(D, i) = d
    BY <2>2, RowAtPlace
  <2>4. Row(k) \in DOMAIN t
    BY <2>3 DEF D, d, Rank
  <2> QED
    BY <2>4 DEF IsTable
<1> HIDE DEF Row
<1>4. DOMAIN u = n..(n + c - 1) /\ u \in [DOMAIN u -> Cell]
  BY <1>2, <1>3
<1>5. DOMAIN u # {} => n + c - 1 \in DOMAIN u /\ \A j \in DOMAIN u : j <= n + c - 1
  BY <1>1, <1>4
<1>6. DOMAIN u \subseteq Nat
  BY <1>1, <1>4
<1> QED
  BY <1>1, <1>4, <1>5, <1>6 DEF IsTable

\* Rows that are numbered without a hole keep their order.
LEMMA RenumberShifts ==
  ASSUME NEW t, IsTable(t), NEW a \in Nat, NEW b \in Nat, DOMAIN t = a..(b - 1), a <= b,
         NEW n \in Nat
  PROVE  /\ Cardinality(DOMAIN t) = b - a
         /\ \A k \in n..(n + b - a - 1) : Partial!Renumber(t, n)[k] = t[a + k - n]
<1>1. Cardinality(DOMAIN t) = b - a
  BY FS_Interval
<1>2. ASSUME NEW i \in a..(b - 1)
      PROVE  Cardinality({j \in DOMAIN t : j < i}) = i - a
  <2> DEFINE Before == {j \in DOMAIN t : j < i}
  <2>1. Before = a..(i - 1)
    OBVIOUS
  <2>2. i - 1 \in Int
    OBVIOUS
  <2>3. Cardinality(a..(i - 1)) = i - 1 - a + 1
    BY <2>2, FS_Interval
  <2>4. i \in Int /\ i - 1 - a + 1 = i - a
    OBVIOUS
  <2>5. Cardinality(Before) = Cardinality(a..(i - 1))
    BY <2>1, Zenon
  <2>6. Cardinality(a..(i - 1)) = i - a
    BY <2>3, <2>4
  <2> QED
    BY <2>5, <2>6
<1>3. ASSUME NEW k \in n..(n + b - a - 1)
      PROVE  Partial!Renumber(t, n)[k] = t[a + k - n]
  <2> DEFINE Row == CHOOSE i \in DOMAIN t : Cardinality({j \in DOMAIN t : j < i}) = k - n
  <2>1. a + k - n \in DOMAIN t /\ Cardinality({j \in DOMAIN t : j < a + k - n}) = k - n
    BY <1>2
  <2>2. Row \in DOMAIN t /\ Cardinality({j \in DOMAIN t : j < Row}) = k - n
    BY <2>1
  <2>3. Row - a = k - n
    <3> HIDE DEF Row
    <3> QED
      BY <1>2, <2>2
  <2>4. Row = a + k - n
    <3> HIDE DEF Row
    <3> QED
      BY <2>2, <2>3
  <2>5. n + Cardinality(DOMAIN t) - 1 = n + b - a - 1
    BY <1>1
  <2>6. Partial!Renumber(t, n)[k] = t[Row]
    BY <2>5, PartialCardinality DEF Partial!Renumber
  <2> QED
    BY <2>4, <2>6
<1> QED
  BY <1>1, <1>3

\* Finitely many numbers have a greatest one.
LEMMA GreatestNumber ==
  ASSUME NEW S, S \subseteq Nat, S # {}, NEW z \in Nat, \A n \in S : n <= z
  PROVE  \E m \in S : \A n \in S : n <= m
<1> DEFINE T == {z - n : n \in S}
<1>0. \A n \in S : z - n \in Nat
  OBVIOUS
<1>1. T \subseteq Nat /\ T # {}
  BY <1>0
<1>2. PICK k \in T : \A l \in T : k <= l
  BY <1>1, LeastNumber
<1>3. PICK m \in S : k = z - m
  OBVIOUS
<1>4. ASSUME NEW n \in S PROVE n <= m
  <2>1. z - m <= z - n
    BY <1>2, <1>3
  <2> QED
    BY <2>1
<1> QED
  BY <1>4

\* Some rows of a table are a table.
LEMMA PartIsTable ==
  ASSUME NEW t, IsTable(t), NEW I
  PROVE  /\ IsTable(Partial!Part(t, I))
         /\ DOMAIN Partial!Part(t, I) = DOMAIN t \cap I
         /\ \A i \in DOMAIN t \cap I : Partial!Part(t, I)[i] = t[i]
<1> DEFINE u == Partial!Part(t, I)
<1>1. DOMAIN u = DOMAIN t \cap I /\ \A i \in DOMAIN u : u[i] = t[i]
  BY DEF Partial!Part
<1>2. DOMAIN u \subseteq Nat /\ u \in [DOMAIN u -> Cell]
  BY <1>1 DEF IsTable, Partial!Part
<1>3. ASSUME DOMAIN u # {} PROVE \E i \in DOMAIN u : \A j \in DOMAIN u : j <= i
  <2>1. LastSeq(t) \in Nat /\ \A j \in DOMAIN u : j <= LastSeq(t)
    BY <1>1, <1>3, LastSeqProps
  <2> QED
    BY <1>2, <1>3, <2>1, GreatestNumber
<1> QED
  BY <1>1, <1>2, <1>3 DEF IsTable

\* The first compartment that ends at a or later, the last that starts at b or
\* earlier.
LEMMA FirstRow ==
  ASSUME NEW t, IsTable(t), NEW a, \E i \in DOMAIN t : t[i].e >= a
  PROVE  LET f == Partial!FirstTouched(t, a)
         IN f \in DOMAIN t /\ t[f].e >= a /\ \A j \in DOMAIN t : t[j].e >= a => f <= j
<1> DEFINE S == {i \in DOMAIN t : t[i].e >= a}
<1>1. S \subseteq Nat /\ S # {}
  BY DEF IsTable
<1>2. \E i \in S : \A j \in S : i <= j
  BY <1>1, LeastNumber
<1> QED
  BY <1>2 DEF Partial!FirstTouched

LEMMA LastRow ==
  ASSUME NEW t, IsTable(t), NEW b, \E i \in DOMAIN t : t[i].s <= b
  PROVE  LET l == Partial!LastTouched(t, b)
         IN l \in DOMAIN t /\ t[l].s <= b /\ \A j \in DOMAIN t : t[j].s <= b => j <= l
<1> DEFINE T == {i \in DOMAIN t : t[i].s <= b}
<1>1. T \subseteq Nat /\ T # {}
  BY DEF IsTable
<1>2. LastSeq(t) \in Nat /\ \A j \in T : j <= LastSeq(t)
  BY <1>1, LastSeqProps
<1>3. \E i \in T : \A j \in T : j <= i
  BY <1>1, <1>2, GreatestNumber
<1> QED
  BY <1>3 DEF Partial!LastTouched

MsgRange == [s : 0..MaxMsg, e : 0..MaxMsg]
SnapRange == [range : MsgRange, prior : Table, tail : Table]

LEMMA SnapTypes ==
  ASSUME NEW t \in Table, NEW a, NEW b, Partial!CanSnap(t, a, b)
  PROVE  /\ Partial!Snap(t, a, b) \in SnapRange
         /\ Partial!Snap(t, a, b).range.s \in Ordinal
         /\ Partial!Snap(t, a, b).range.e \in Ordinal
<1> DEFINE f == Partial!FirstTouched(t, a)
           l == Partial!LastTouched(t, b)
<1>1. IsTable(t)
  BY TableIsTable
<1>2. f \in DOMAIN t /\ l \in DOMAIN t
  BY <1>1, FirstRow, LastRow DEF Partial!CanSnap
<1>3. t[f].s \in 1..MaxMsg /\ t[l].e \in 1..MaxMsg
  BY <1>1, <1>2 DEF IsTable, Cell, Ordinal
<1>4. /\ Partial!Part(t, {i \in DOMAIN t : i < f}) \in Table
      /\ Partial!Part(t, {i \in DOMAIN t : i > l}) \in Table
  BY <1>1, PartIsTable, TableIsTable
<1> HIDE DEF f, l
<1>5. Partial!Snap(t, a, b) = [range |-> [s |-> t[f].s, e |-> t[l].e],
                               prior |-> Partial!Part(t, {i \in DOMAIN t : i < f}),
                               tail |-> Partial!Part(t, {i \in DOMAIN t : i > l})]
  BY DEF Partial!Snap, f, l
<1> QED
  BY <1>3, <1>4, <1>5 DEF SnapRange, MsgRange, Ordinal

-----------------------------------------------------------------------------
(* Types of a rebuild.                                                     *)

RebuildType ==
  [pc : Partial!RunPc, snap : SnapRange, cand : Table, next : 1..(MaxMsg + 1),
   passed : BOOLEAN, resumed : BOOLEAN]

\* TypeOK of PartialRecomp with the set of all tables.
PTypeInv ==
  /\ holder \in Partial!Run \cup {None}
  /\ rows \in Table /\ staging \in Table
  /\ passes \in BOOLEAN
  /\ range \in MsgRange
  /\ rebuild \in [Partial!Run -> RebuildType]
  /\ crashes \in 0..MaxCrashes

LEMMA PTypeInvTypeOK == PTypeInv => Partial!TypeOK
<1> SUFFICES ASSUME PTypeInv PROVE Partial!TypeOK
  OBVIOUS
<1>1. \A t : t \in Table <=> Partial!IsTable(t)
  BY TableIsTable, PartialTables
<1>2. \A r \in Partial!Run : rebuild[r] \in RebuildType
  BY DEF PTypeInv
<1>3. \A r \in Partial!Run : /\ Partial!IsTable(rebuild[r].cand)
                             /\ Partial!IsTable(rebuild[r].snap.prior)
                             /\ Partial!IsTable(rebuild[r].snap.tail)
  BY <1>1, <1>2 DEF RebuildType, SnapRange
<1>4. \A r \in Partial!Run : rebuild[r].snap \in Partial!SnapType
  BY <1>2 DEF RebuildType, SnapRange, MsgRange, Partial!SnapType
<1>5. rebuild \in [Partial!Run -> [pc : Partial!RunPc, snap : Partial!SnapType,
                                   cand : {rebuild[r].cand : r \in Partial!Run},
                                   next : 1..(MaxMsg + 1), passed : BOOLEAN, resumed : BOOLEAN]]
  <2>1. ASSUME NEW r \in Partial!Run
        PROVE  rebuild[r] \in [pc : Partial!RunPc, snap : Partial!SnapType,
                               cand : {rebuild[q].cand : q \in Partial!Run},
                               next : 1..(MaxMsg + 1), passed : BOOLEAN, resumed : BOOLEAN]
    BY <1>2, <1>4 DEF RebuildType
  <2> QED
    BY <2>1 DEF PTypeInv
<1> QED
  BY <1>1, <1>3, <1>5 DEF PTypeInv, Partial!TypeOK, MsgRange

LEMMA EmptyTypes ==
  /\ NoRows \in Table /\ Partial!NoRows = NoRows
  /\ Partial!NoRange \in MsgRange
  /\ \A pc \in Partial!RunPc : Partial!RunAt(pc) \in RebuildType
  /\ Partial!IdleRun \in RebuildType
<1>1. NoRows \in Table /\ Partial!NoRows = NoRows
  BY NoRowsIsTable, TableIsTable, PartialTables
<1>2. Partial!NoRange \in MsgRange
  BY DEF Partial!NoRange, MsgRange
<1>3. Partial!EmptySnap \in SnapRange
  BY <1>1, <1>2 DEF Partial!EmptySnap, SnapRange
<1>4. \A pc \in Partial!RunPc : Partial!RunAt(pc) \in RebuildType
  BY <1>1, <1>3 DEF Partial!RunAt, RebuildType
<1>5. "idle" \in Partial!RunPc
  BY DEF Partial!RunPc
<1> QED
  BY <1>1, <1>2, <1>4, <1>5 DEF Partial!IdleRun

LEMMA PInitTypeInv == Partial!Init => PTypeInv
<1> SUFFICES ASSUME Partial!Init PROVE PTypeInv
  OBVIOUS
<1>1. rebuild \in [Partial!Run -> RebuildType]
  BY EmptyTypes DEF Partial!Init
<1>2. rows \in Table /\ staging \in Table /\ range \in MsgRange
  BY EmptyTypes DEF Partial!Init
<1>3. holder \in Partial!Run \cup {None} /\ passes \in BOOLEAN
  BY DEF Partial!Init
<1>4. crashes \in 0..MaxCrashes
  BY DEF Partial!Init
<1> QED
  BY <1>1, <1>2, <1>3, <1>4 DEF PTypeInv

\* A step of a run that only moves on.
LEMMA PGotoTypes ==
  ASSUME PTypeInv, NEW r \in Partial!Run, NEW pc \in Partial!RunPc, Partial!Goto(r, pc)
  PROVE  rebuild' \in [Partial!Run -> RebuildType]
<1>1. rebuild[r] \in RebuildType
  BY DEF PTypeInv
<1>2. [rebuild[r] EXCEPT !.pc = pc] \in RebuildType
  BY <1>1 DEF RebuildType
<1>3. rebuild' = [rebuild EXCEPT ![r] = [rebuild[r] EXCEPT !.pc = pc]]
  BY DEF Partial!Goto
<1> QED
  BY <1>2, <1>3 DEF PTypeInv

\* Overwriting a table gives a table.
LEMMA PSaveTypes ==
  ASSUME PTypeInv, NEW t \in Table, Partial!Save(t)
  PROVE  staging' \in Table /\ staging' = Overwrite(staging, t)
  BY OverwriteIsTable, TableIsTable, PartialTables DEF PTypeInv, Partial!Save

\* What a pass adds to the candidates.
LEMMA PassTable ==
  ASSUME NEW t \in Table, NEW a \in Ordinal, NEW b \in Ordinal,
         NEW block \in Partial!Splits(Partial!Cardinality(DOMAIN t), a, b)
  PROVE  /\ Cardinality(DOMAIN t) \in Nat
         /\ block \in Splits(Cardinality(DOMAIN t), a, b)
         /\ IsTable(block)
         /\ Overwrite(t, block) \in Table
         /\ Partial!Overwrite(t, block) = Overwrite(t, block)
<1>1. IsTable(t)
  BY TableIsTable
<1>2. Cardinality(DOMAIN t) \in Nat
  BY <1>1, RowsAreFinite
<1>3. block \in Splits(Cardinality(DOMAIN t), a, b)
  BY PartialTables, PartialCardinality
<1>4. IsTable(block)
  BY <1>2, <1>3, SplitsProps
<1> QED
  BY <1>1, <1>2, <1>3, <1>4, OverwriteIsTable, TableIsTable, PartialTables

LEMMA PRebuildTypes ==
  ASSUME PTypeInv, NEW r \in Partial!Run, Partial!RebuildPass(r)
  PROVE  PTypeInv'
<1> DEFINE x == rebuild[r]
<1>1. x \in RebuildType /\ x.snap \in SnapRange /\ x.snap.range.e \in 0..MaxMsg
  BY DEF PTypeInv, RebuildType, SnapRange, MsgRange
<1>2. PICK b \in x.next..x.snap.range.e :
        \E block \in Partial!Splits(Partial!Cardinality(DOMAIN x.cand), x.next, b) :
          LET cand == Partial!Overwrite(x.cand, block)
          IN /\ rebuild' = [rebuild EXCEPT ![r].cand = cand, ![r].next = b + 1, ![r].passed = TRUE]
             /\ Partial!Save(cand)
             /\ passes' = TRUE
  BY DEF Partial!RebuildPass
<1>3. PICK block \in Partial!Splits(Partial!Cardinality(DOMAIN x.cand), x.next, b) :
          LET cand == Partial!Overwrite(x.cand, block)
          IN /\ rebuild' = [rebuild EXCEPT ![r].cand = cand, ![r].next = b + 1, ![r].passed = TRUE]
             /\ Partial!Save(cand)
             /\ passes' = TRUE
  BY <1>2
<1>4. x.next \in Ordinal /\ b \in Ordinal /\ x.cand \in Table
  BY <1>1, <1>2 DEF Ordinal, RebuildType
<1> DEFINE cand == Partial!Overwrite(x.cand, block)
<1>5. cand \in Table
  BY <1>3, <1>4, PassTable
<1>6. staging' \in Table
  BY <1>3, <1>5, PSaveTypes
<1>7. [x EXCEPT !.cand = cand, !.next = b + 1, !.passed = TRUE] \in RebuildType
  <2> HIDE DEF x, cand
  <2>1. b + 1 \in 1..(MaxMsg + 1)
    BY <1>4 DEF Ordinal
  <2> QED
    BY <1>1, <1>5, <2>1 DEF RebuildType
<1>8. rebuild' = [rebuild EXCEPT ![r] = [x EXCEPT !.cand = cand, !.next = b + 1, !.passed = TRUE]]
  BY <1>3
<1>9. rebuild' \in [Partial!Run -> RebuildType]
  BY <1>7, <1>8 DEF PTypeInv
<1> QED
  BY <1>3, <1>6, <1>9 DEF PTypeInv, Partial!RebuildPass

LEMMA PReadRangeTypes ==
  ASSUME PTypeInv, NEW r \in Partial!Run, Partial!ReadRange(r)
  PROVE  PTypeInv'
<1>1. PICK a, b \in Ordinal :
        /\ Partial!CanSnap(rows, a, b)
        /\ LET snap == Partial!Snap(rows, a, b)
               resumed == staging # Partial!NoRows
           IN /\ resumed => range = snap.range
              /\ rebuild' = [rebuild EXCEPT ![r] =
                    [pc |-> "snapped", snap |-> snap, resumed |-> resumed,
                     cand |-> IF resumed THEN staging ELSE Partial!Renumber(snap.prior, 0),
                     next |-> IF resumed /\ Partial!LastStaged(staging) >= snap.range.s
                              THEN Partial!NextOrdinal(staging) ELSE snap.range.s,
                     passed |-> resumed /\ passes]]
  BY DEF Partial!ReadRange, Partial!Ordinal, Ordinal
<1> DEFINE snap == Partial!Snap(rows, a, b)
           resumed == staging # Partial!NoRows
           cand == IF resumed THEN staging ELSE Partial!Renumber(snap.prior, 0)
           next == IF resumed /\ Partial!LastStaged(staging) >= snap.range.s
                   THEN Partial!NextOrdinal(staging) ELSE snap.range.s
           passed == resumed /\ passes
<1>2. snap \in SnapRange /\ snap.range.s \in Ordinal
  BY <1>1, SnapTypes DEF PTypeInv
<1>3. cand \in Table
  <2>1. IsTable(snap.prior)
    BY <1>2, TableIsTable DEF SnapRange
  <2>2. Partial!Renumber(snap.prior, 0) \in Table
    BY <2>1, RenumberIsTable, TableIsTable
  <2> QED
    BY <2>2 DEF PTypeInv
<1>4. next \in 1..(MaxMsg + 1)
  <2>1. Partial!NextOrdinal(staging) \in 1..(MaxMsg + 1)
    BY NextOrdinalProps, TableIsTable, PartialTables DEF PTypeInv
  <2> QED
    BY <1>2, <2>1 DEF Ordinal
<1>5. passed \in BOOLEAN /\ resumed \in BOOLEAN /\ "snapped" \in Partial!RunPc
  BY DEF PTypeInv, Partial!RunPc
<1> HIDE DEF snap, resumed, cand, next, passed
<1>6. rebuild' = [rebuild EXCEPT ![r] = [pc |-> "snapped", snap |-> snap, resumed |-> resumed,
                                        cand |-> cand, next |-> next, passed |-> passed]]
  BY <1>1 DEF snap, resumed, cand, next, passed
<1>7. rebuild' \in [Partial!Run -> RebuildType]
  BY <1>2, <1>3, <1>4, <1>5, <1>6 DEF PTypeInv, RebuildType
<1> QED
  BY <1>7 DEF PTypeInv, Partial!ReadRange

LEMMA PMergeTypes ==
  ASSUME PTypeInv, NEW r \in Partial!Run, Partial!Merge(r)
  PROVE  PTypeInv'
<1>0. "promoting" \in Partial!RunPc /\ "ending" \in Partial!RunPc
  BY DEF Partial!RunPc
<1>1. Partial!Merged(r) \in Table
  <2>1. rebuild[r].cand \in Table /\ rebuild[r].snap.tail \in Table
    BY DEF PTypeInv, RebuildType, SnapRange
  <2>2. Partial!Cardinality(DOMAIN rebuild[r].cand) \in Nat
    BY <2>1, RowsAreFinite, TableIsTable, PartialCardinality
  <2>3. IsTable(Partial!Renumber(rebuild[r].snap.tail, Partial!Cardinality(DOMAIN rebuild[r].cand)))
    BY <2>1, <2>2, RenumberIsTable, TableIsTable
  <2> QED
    BY <2>1, <2>3, OverwriteIsTable, TableIsTable, PartialTables DEF Partial!Merged
<1>2. staging' \in Table /\ passes' \in BOOLEAN
  BY <1>1, PSaveTypes DEF Partial!Merge, PTypeInv
<1>3. rebuild' \in [Partial!Run -> RebuildType]
  BY <1>0, PGotoTypes DEF Partial!Merge
<1> QED
  BY <1>2, <1>3 DEF PTypeInv, Partial!Merge

LEMMA PReadStagingTypes ==
  ASSUME PTypeInv, NEW r \in Partial!Run, Partial!ReadStaging(r)
  PROVE  PTypeInv'
<1>1. PICK e \in 0..MaxMsg :
        rebuild' = [rebuild EXCEPT ![r] =
            [pc |-> "passing", snap |-> [Partial!EmptySnap EXCEPT !.range = [s |-> 1, e |-> e]],
             resumed |-> staging # Partial!NoRows, cand |-> staging,
             next |-> Partial!NextOrdinal(staging), passed |-> passes]]
  BY DEF Partial!ReadStaging
<1> DEFINE snap == [Partial!EmptySnap EXCEPT !.range = [s |-> 1, e |-> e]]
           resumed == staging # Partial!NoRows
<1>2. snap \in SnapRange
  <2>1. [s |-> 1, e |-> e] \in MsgRange
    BY DEF MsgRange
  <2> QED
    BY <2>1, EmptyTypes DEF Partial!EmptySnap, SnapRange
<1>3. Partial!NextOrdinal(staging) \in 1..(MaxMsg + 1)
  BY NextOrdinalProps, TableIsTable, PartialTables DEF PTypeInv
<1>4. resumed \in BOOLEAN /\ "passing" \in Partial!RunPc
  BY DEF Partial!RunPc
<1> HIDE DEF snap, resumed
<1>5. rebuild' = [rebuild EXCEPT ![r] = [pc |-> "passing", snap |-> snap, resumed |-> resumed,
                    cand |-> staging, next |-> Partial!NextOrdinal(staging), passed |-> passes]]
  BY <1>1 DEF snap, resumed
<1>6. rebuild' \in [Partial!Run -> RebuildType]
  BY <1>2, <1>3, <1>4, <1>5 DEF PTypeInv, RebuildType
<1> QED
  BY <1>6 DEF PTypeInv, Partial!ReadStaging

LEMMA PAppendTypes == PTypeInv /\ Partial!Append => PTypeInv'
<1> SUFFICES ASSUME PTypeInv, Partial!Append PROVE PTypeInv'
  OBVIOUS
<1>1. PICK b \in NextOrdinal(rows)..MaxMsg :
        \E block \in Splits(NextSeq(rows), NextOrdinal(rows), b) : rows' = Overwrite(rows, block)
  BY PartialTables DEF Partial!Append
<1>2. PICK block \in Splits(NextSeq(rows), NextOrdinal(rows), b) : rows' = Overwrite(rows, block)
  BY <1>1
<1>3. IsTable(rows)
  BY TableIsTable DEF PTypeInv
<1>4. NextSeq(rows) \in Nat /\ NextOrdinal(rows) \in Ordinal /\ b \in Ordinal
  BY <1>3, NextSeqProps, NextOrdinalProps DEF Ordinal
<1>5. rows' \in Table
  BY <1>2, <1>3, <1>4, SplitsProps, OverwriteIsTable, TableIsTable
<1> QED
  BY <1>5 DEF PTypeInv, Partial!Append

\* The other steps of a run.
LEMMA PMoveTypes ==
  ASSUME PTypeInv, NEW r \in Partial!Run,
         \/ Partial!Start(r) \/ Partial!NothingToRebuild(r) \/ Partial!Refuse(r)
         \/ Partial!Resume(r) \/ Partial!SetRange(r) \/ Partial!ClearRange(r)
         \/ Partial!Seed(r) \/ Partial!FullLoopEnds(r) \/ Partial!SaveCandidates(r)
         \/ Partial!Promote(r) \/ Partial!Fails(r)
  PROVE  PTypeInv'
<1>1. PICK pc \in Partial!RunPc : Partial!Goto(r, pc)
  <2>1. {"started", "ending", "refused", "passing", "seeding", "promoting", "saving", "clearing"}
          \subseteq Partial!RunPc
    BY DEF Partial!RunPc
  <2>2. CASE Partial!Start(r)
    BY <2>1, <2>2 DEF Partial!Start
  <2>3. CASE Partial!NothingToRebuild(r) \/ Partial!Refuse(r) \/ Partial!Resume(r)
    BY <2>1, <2>3 DEF Partial!NothingToRebuild, Partial!Refuse, Partial!Resume
  <2>4. CASE Partial!SetRange(r) \/ Partial!ClearRange(r) \/ Partial!Seed(r) \/ Partial!Fails(r)
    BY <2>1, <2>4 DEF Partial!SetRange, Partial!ClearRange, Partial!Seed, Partial!Fails
  <2>5. CASE Partial!FullLoopEnds(r) \/ Partial!SaveCandidates(r) \/ Partial!Promote(r)
    <3>1. Partial!Promote(r) => \E pc \in {"clearing", "ending"} : Partial!Goto(r, pc)
      BY DEF Partial!Promote
    <3> QED
      BY <2>1, <2>5, <3>1 DEF Partial!FullLoopEnds, Partial!SaveCandidates
  <2> QED
    BY <2>2, <2>3, <2>4, <2>5
<1>2. rebuild' \in [Partial!Run -> RebuildType]
  BY <1>1, PGotoTypes
<1>3. rebuild[r] \in RebuildType
  BY DEF PTypeInv
<1>4. rebuild[r].cand \in Table /\ rebuild[r].passed \in BOOLEAN /\ rebuild[r].snap.range \in MsgRange
  BY <1>3 DEF RebuildType, SnapRange
<1>5. CASE Partial!Start(r) \/ Partial!NothingToRebuild(r) \/ Partial!Refuse(r) \/ Partial!Resume(r)
           \/ Partial!Fails(r)
  BY <1>2, <1>5 DEF PTypeInv, Partial!Start, Partial!NothingToRebuild, Partial!Refuse, Partial!Resume,
     Partial!Fails
<1>6. CASE Partial!SetRange(r) \/ Partial!ClearRange(r)
  BY <1>2, <1>4, <1>6, EmptyTypes DEF PTypeInv, Partial!SetRange, Partial!ClearRange
<1>7. CASE Partial!Seed(r) \/ Partial!SaveCandidates(r)
  <2>1. staging' \in Table
    BY <1>4, <1>7, PSaveTypes DEF Partial!Seed, Partial!SaveCandidates
  <2> QED
    BY <1>2, <1>4, <1>7, <2>1 DEF PTypeInv, Partial!Seed, Partial!SaveCandidates
<1>8. CASE Partial!FullLoopEnds(r) \/ Partial!Promote(r)
  BY <1>2, <1>8, EmptyTypes DEF PTypeInv, Partial!FullLoopEnds, Partial!Promote, Partial!Clear
<1> QED
  BY <1>5, <1>6, <1>7, <1>8

\* The steps that leave a run idle.
LEMMA PIdleTypes ==
  ASSUME PTypeInv, NEW r \in Partial!Run, Partial!End(r) \/ Partial!Crash(r)
  PROVE  PTypeInv'
<1>1. rebuild' \in [Partial!Run -> RebuildType]
  BY EmptyTypes DEF PTypeInv, Partial!End, Partial!Crash
<1>2. CASE Partial!End(r)
  BY <1>1, <1>2, EmptyTypes DEF PTypeInv, Partial!End, Partial!Clear
<1>3. CASE Partial!Crash(r)
  BY <1>1, <1>3 DEF PTypeInv, Partial!Crash
<1> QED
  BY <1>2, <1>3

LEMMA PStepTypeInv == PTypeInv /\ [Partial!Next]_(Partial!vars) => PTypeInv'
<1> SUFFICES ASSUME PTypeInv, [Partial!Next]_(Partial!vars) PROVE PTypeInv'
  OBVIOUS
<1>1. ASSUME NEW r \in Partial!Run, Partial!Start(r) \/ Partial!PartialStep(r) \/ Partial!FullStep(r)
      PROVE  PTypeInv'
  BY <1>1, PReadRangeTypes, PMergeTypes, PReadStagingTypes, PMoveTypes
     DEF Partial!PartialStep, Partial!FullStep
<1>2. ASSUME NEW r \in Partial!Run,
             \/ Partial!RebuildPass(r) \/ Partial!Promote(r) \/ Partial!Fails(r)
             \/ Partial!End(r) \/ Partial!Crash(r)
      PROVE  PTypeInv'
  BY <1>2, PRebuildTypes, PMoveTypes, PIdleTypes
<1>3. CASE Partial!Discard \/ Partial!Expire \/ UNCHANGED Partial!vars
  BY <1>3, EmptyTypes DEF PTypeInv, Partial!Discard, Partial!Clear, Partial!Expire, Partial!vars
<1> QED
  BY <1>1, <1>2, <1>3, PAppendTypes DEF Partial!Next

LEMMA AlwaysPTypeInv == Partial!Spec => []PTypeInv
  BY PInitTypeInv, PStepTypeInv, PTL DEF Partial!Spec

\* Whatever is staged by whom and whichever run was taken over, the tables a
\* rebuild reads, has in its hands and writes are tables, and it goes on with a
\* message of the session or the one behind them.
THEOREM RebuildTypes == Partial!Spec => []Partial!TypeOK
  BY AlwaysPTypeInv, PTypeInvTypeOK, PTL

-----------------------------------------------------------------------------
(* The staging table and the candidates of rebuilds of either kind, for as *)
(* long as at most one of them is between its reading and its promotion.   *)

WorkingPc == {"snapped", "seeding", "passing", "saving", "promoting"}
RebuildsInTurn ==
  \A q, r \in Partial!Run :
    rebuild[q].pc \in WorkingPc /\ rebuild[r].pc \in WorkingPc => q = r

IsNumbered(t) == \E n \in Nat : Numbered(t, n)

WorkOK(r) ==
  /\ IsNumbered(rebuild[r].cand)
  /\ IF rebuild[r].pc = "promoting" THEN Cover(staging) ELSE Prefix(staging, rebuild[r].cand)
  /\ rebuild[r].pc = "saving" => Cover(rebuild[r].cand)
WorkInv ==
  /\ IsNumbered(staging)
  /\ \A r \in Partial!Run : rebuild[r].pc \in WorkingPc => WorkOK(r)

\* What the runners check before they promote makes a cover of a numbered table.
LEMMA NumberedCover ==
  ASSUME NEW t, IsTable(t), IsNumbered(t), Contiguous(t)
  PROVE  Cover(t)
<1>1. PICK n \in Nat : Numbered(t, n)
  BY DEF IsNumbered
<1>2. \A i \in 1..(n - 1) : PrevSeq(t, i) = i - 1
  BY <1>1, NumberedProps
<1>3. ASSUME NEW i \in DOMAIN t
      PROVE  /\ t[i].s <= t[i].e
             /\ i = 0 => t[i].s = 1
             /\ i # 0 => t[i].s = t[i - 1].e + 1
  <2>1. i \in 0..(n - 1) /\ 0 \in DOMAIN t
    BY <1>1 DEF Numbered
  <2>2. (\A j \in DOMAIN t : i <= j) <=> i = 0
    BY <1>1, <2>1 DEF Numbered
  <2>3. i # 0 => PrevSeq(t, i) = i - 1
    BY <1>2, <2>1
  <2> QED
    BY <2>2, <2>3 DEF Contiguous
<1> QED
  BY <1>1, <1>3 DEF Cover, Linked

LEMMA NoRowsNumbered == IsNumbered(NoRows) /\ \A t : Prefix(NoRows, t)
  BY NoRowsIsTable DEF IsNumbered, Numbered, Prefix

\* Rows numbered on from a table's count leave no hole in the numbers.
LEMMA NumberedOn ==
  ASSUME NEW t, NEW n \in Nat, Numbered(t, n), NEW u, NEW m \in Nat, DOMAIN u = n..(n + m - 1)
  PROVE  Numbered(Overwrite(t, u), n + m) /\ Prefix(t, Overwrite(t, u))
<1>1. DOMAIN Overwrite(t, u) = (0..(n - 1)) \cup (n..(n + m - 1))
  BY DEF Overwrite, Numbered
<1>2. Numbered(Overwrite(t, u), n + m)
  BY <1>1 DEF Numbered
<1>3. ASSUME NEW i \in DOMAIN t
      PROVE  i \in DOMAIN Overwrite(t, u) /\ Overwrite(t, u)[i] = t[i]
  <2>1. i \notin DOMAIN u
    BY DEF Numbered
  <2> QED
    BY <2>1 DEF Overwrite
<1> QED
  BY <1>2, <1>3 DEF Prefix

LEMMA NumberedCount ==
  ASSUME NEW t, NEW n \in Nat, Numbered(t, n)
  PROVE  Cardinality(DOMAIN t) = n
<1>1. DOMAIN t = 0..(n - 1) /\ n - 1 \in Int
  BY DEF Numbered
<1>2. Cardinality(0..(n - 1)) = IF 0 > n - 1 THEN 0 ELSE n - 1 - 0 + 1
  BY <1>1, FS_Interval
<1> QED
  BY <1>1, <1>2

\* The block of one pass is numbered on from the candidates.
LEMMA PassNumbered ==
  ASSUME NEW t, IsNumbered(t), NEW a, NEW b, NEW block \in Splits(Cardinality(DOMAIN t), a, b)
  PROVE  IsNumbered(Overwrite(t, block)) /\ Prefix(t, Overwrite(t, block))
<1>1. PICK n \in Nat : Numbered(t, n)
  BY DEF IsNumbered
<1>2. block \in Splits(n, a, b)
  BY <1>1, NumberedCount
<1>3. PICK m \in Nat \ {0} : BlockOf(block, n, m, a)
  BY <1>2, SplitsRows
<1>4. Numbered(Overwrite(t, block), n + m) /\ Prefix(t, Overwrite(t, block))
  <2>1. DOMAIN block = n..(n + m - 1) /\ m \in Nat
    BY <1>3 DEF BlockOf
  <2> QED
    BY <1>1, <2>1, NumberedOn
<1> QED
  BY <1>4 DEF IsNumbered

\* The step takes nobody to work and changes nobody's candidates.
PStays(r) ==
  rebuild'[r].pc \in WorkingPc =>
    /\ rebuild[r].pc \in WorkingPc
    /\ rebuild'[r].cand = rebuild[r].cand
    /\ rebuild'[r].pc = rebuild[r].pc
         \/ (rebuild[r].pc # "promoting" /\ rebuild'[r].pc \notin {"saving", "promoting"})

LEMMA WorkKept ==
  ASSUME WorkInv, staging' \in {staging, NoRows}, \A r \in Partial!Run : PStays(r)
  PROVE  WorkInv'
<1>1. IsNumbered(staging')
  BY NoRowsNumbered DEF WorkInv
<1>2. ASSUME NEW r \in Partial!Run, rebuild'[r].pc \in WorkingPc PROVE WorkOK(r)'
  <2>1. WorkOK(r) /\ rebuild'[r].cand = rebuild[r].cand
    BY <1>2 DEF PStays, WorkInv
  <2>2. CASE rebuild'[r].pc = "promoting"
    BY <1>2, <2>1, <2>2, NoRowsCover DEF WorkOK, PStays
  <2>3. CASE rebuild'[r].pc # "promoting"
    <3>1. rebuild[r].pc # "promoting"
      BY <1>2, <2>3 DEF PStays
    <3>2. Prefix(staging', rebuild'[r].cand)
      BY <2>1, <3>1, NoRowsNumbered DEF WorkOK
    <3>3. rebuild'[r].pc = "saving" => rebuild[r].pc = "saving"
      BY <1>2 DEF PStays
    <3> QED
      BY <2>1, <2>3, <3>2, <3>3 DEF WorkOK
  <2> QED
    BY <2>2, <2>3
<1> QED
  BY <1>1, <1>2 DEF WorkInv

\* When one run moves and goes where nobody works, or changes nothing there.
LEMMA PStaysOne ==
  ASSUME PTypeInv, NEW r \in Partial!Run, NEW x, rebuild' = [rebuild EXCEPT ![r] = x],
         x.pc \notin WorkingPc
  PROVE  \A q \in Partial!Run : PStays(q)
  BY DEF PTypeInv, PStays

LEMMA PGotoStays ==
  ASSUME PTypeInv, NEW r \in Partial!Run, NEW pc, Partial!Goto(r, pc),
         \/ pc \notin WorkingPc
         \/ rebuild[r].pc \in WorkingPc \ {"promoting"} /\ pc \notin {"saving", "promoting"}
  PROVE  \A q \in Partial!Run : PStays(q)
<1>1. rebuild[r] \in RebuildType
  BY DEF PTypeInv
<1>2. rebuild' = [rebuild EXCEPT ![r] = [rebuild[r] EXCEPT !.pc = pc]]
  BY DEF Partial!Goto
<1>3. rebuild'[r].pc = pc /\ rebuild'[r].cand = rebuild[r].cand
  BY <1>1, <1>2 DEF PTypeInv, RebuildType
<1>4. PStays(r)
  BY <1>3 DEF PStays
<1>5. \A q \in Partial!Run \ {r} : rebuild'[q] = rebuild[q]
  BY <1>2 DEF PTypeInv
<1> QED
  BY <1>4, <1>5 DEF PStays

\* A run that writes the staging table is the only one that works.
LEMMA WorkBy ==
  ASSUME RebuildsInTurn, NEW r \in Partial!Run, rebuild[r].pc \in WorkingPc,
         \A q \in Partial!Run \ {r} : rebuild'[q] = rebuild[q],
         IsNumbered(staging'), WorkOK(r)'
  PROVE  WorkInv'
<1>1. \A q \in Partial!Run \ {r} : rebuild'[q].pc \notin WorkingPc
  BY DEF RebuildsInTurn
<1> QED
  BY <1>1 DEF WorkInv

\* Saving the candidates leaves them in the table, and nothing else.
LEMMA SaveLeaves ==
  ASSUME PTypeInv, NEW t \in Table, Prefix(staging, t), Partial!Save(t)
  PROVE  staging' = t
  BY OverwritePrefix, PSaveTypes, TableIsTable DEF PTypeInv

LEMMA PrefixTrans ==
  ASSUME NEW t, NEW u, NEW v, Prefix(t, u), Prefix(u, v)
  PROVE  Prefix(t, v)
  BY DEF Prefix

LEMMA ReadRangeWork ==
  ASSUME PTypeInv, WorkInv, NEW r \in Partial!Run, Partial!ReadRange(r)
  PROVE  WorkInv'
<1>1. PICK a, b \in Ordinal :
        /\ Partial!CanSnap(rows, a, b)
        /\ rebuild' = [rebuild EXCEPT ![r] =
             [pc |-> "snapped", snap |-> Partial!Snap(rows, a, b),
              resumed |-> staging # Partial!NoRows,
              cand |-> IF staging # Partial!NoRows THEN staging
                       ELSE Partial!Renumber(Partial!Snap(rows, a, b).prior, 0),
              next |-> IF /\ staging # Partial!NoRows
                          /\ Partial!LastStaged(staging) >= Partial!Snap(rows, a, b).range.s
                       THEN Partial!NextOrdinal(staging) ELSE Partial!Snap(rows, a, b).range.s,
              passed |-> staging # Partial!NoRows /\ passes]]
  BY DEF Partial!ReadRange, Partial!Ordinal, Ordinal
<1> DEFINE prior == Partial!Snap(rows, a, b).prior
           cand == IF staging # NoRows THEN staging ELSE Partial!Renumber(prior, 0)
<1>2. rebuild'[r].pc = "snapped" /\ rebuild'[r].cand = cand
  BY <1>1, EmptyTypes DEF PTypeInv
<1>3. \A q \in Partial!Run \ {r} : rebuild'[q] = rebuild[q]
  BY <1>1 DEF PTypeInv
<1>4. staging' = staging
  BY DEF Partial!ReadRange
<1>5. IsNumbered(cand)
  <2>1. IsTable(prior)
    BY <1>1, SnapTypes, TableIsTable DEF PTypeInv, SnapRange
  <2>2. /\ Cardinality(DOMAIN prior) \in Nat
        /\ DOMAIN Partial!Renumber(prior, 0) = 0..(0 + Cardinality(DOMAIN prior) - 1)
    BY <2>1, RenumberIsTable
  <2>3. Numbered(Partial!Renumber(prior, 0), Cardinality(DOMAIN prior))
    BY <2>2 DEF Numbered
  <2> QED
    BY <2>2, <2>3 DEF WorkInv, IsNumbered
<1>6. Prefix(staging, cand)
  BY NoRowsNumbered DEF Prefix
<1> HIDE DEF cand
<1>7. WorkOK(r)'
  BY <1>2, <1>4, <1>5, <1>6 DEF WorkOK
<1>8. ASSUME NEW q \in Partial!Run \ {r}, rebuild'[q].pc \in WorkingPc PROVE WorkOK(q)'
  BY <1>3, <1>4, <1>8 DEF WorkOK, WorkInv
<1> QED
  BY <1>4, <1>7, <1>8 DEF WorkInv

LEMMA ReadStagingWork ==
  ASSUME PTypeInv, WorkInv, NEW r \in Partial!Run, Partial!ReadStaging(r)
  PROVE  WorkInv'
<1>1. /\ rebuild'[r].pc = "passing" /\ rebuild'[r].cand = staging
      /\ \A q \in Partial!Run \ {r} : rebuild'[q] = rebuild[q]
      /\ staging' = staging
  BY DEF Partial!ReadStaging, PTypeInv
<1>2. WorkOK(r)'
  BY <1>1 DEF WorkOK, WorkInv, Prefix
<1>3. ASSUME NEW q \in Partial!Run \ {r}, rebuild'[q].pc \in WorkingPc PROVE WorkOK(q)'
  BY <1>1, <1>3 DEF WorkOK, WorkInv
<1> QED
  BY <1>1, <1>2, <1>3 DEF WorkInv

LEMMA RebuildPassWork ==
  ASSUME PTypeInv, WorkInv, RebuildsInTurn, NEW r \in Partial!Run, Partial!RebuildPass(r)
  PROVE  WorkInv'
<1> DEFINE x == rebuild[r]
<1>1. x \in RebuildType /\ x.snap.range.e \in 0..MaxMsg
  BY DEF PTypeInv, RebuildType, SnapRange, MsgRange
<1>2. PICK b \in x.next..x.snap.range.e :
        \E block \in Partial!Splits(Partial!Cardinality(DOMAIN x.cand), x.next, b) :
          LET cand == Partial!Overwrite(x.cand, block)
          IN /\ rebuild' = [rebuild EXCEPT ![r].cand = cand, ![r].next = b + 1, ![r].passed = TRUE]
             /\ Partial!Save(cand)
             /\ passes' = TRUE
  BY DEF Partial!RebuildPass
<1>3. PICK block \in Partial!Splits(Partial!Cardinality(DOMAIN x.cand), x.next, b) :
          LET cand == Partial!Overwrite(x.cand, block)
          IN /\ rebuild' = [rebuild EXCEPT ![r].cand = cand, ![r].next = b + 1, ![r].passed = TRUE]
             /\ Partial!Save(cand)
             /\ passes' = TRUE
  BY <1>2
<1> DEFINE d == Overwrite(x.cand, block)
<1>4. x.next \in Ordinal /\ b \in Ordinal /\ x.cand \in Table
  BY <1>1, <1>2 DEF Ordinal, RebuildType
<1>5. /\ d \in Table /\ Partial!Overwrite(x.cand, block) = d
      /\ block \in Splits(Cardinality(DOMAIN x.cand), x.next, b)
  BY <1>3, <1>4, PassTable
<1>6. x.pc = "passing"
  BY DEF Partial!RebuildPass, Partial!At
<1>7. IsNumbered(x.cand) /\ Prefix(staging, x.cand)
  BY <1>6 DEF WorkInv, WorkOK, WorkingPc
<1>8. IsNumbered(d) /\ Prefix(x.cand, d)
  BY <1>5, <1>7, PassNumbered
<1>9. staging' = d
  <2>1. Prefix(staging, d)
    BY <1>7, <1>8, PrefixTrans
  <2>2. Partial!Save(d)
    BY <1>3, <1>5
  <2> QED
    BY <1>5, <2>1, <2>2, SaveLeaves
<1>10. /\ rebuild'[r].cand = d /\ rebuild'[r].pc = "passing"
       /\ \A q \in Partial!Run \ {r} : rebuild'[q] = rebuild[q]
  BY <1>1, <1>3, <1>5, <1>6 DEF PTypeInv, RebuildType
<1>11. WorkOK(r)'
  BY <1>8, <1>9, <1>10 DEF WorkOK, Prefix
<1> QED
  BY <1>6, <1>8, <1>9, <1>10, <1>11, WorkBy DEF WorkingPc

LEMMA MergedNumbered ==
  ASSUME PTypeInv, NEW r \in Partial!Run, IsNumbered(rebuild[r].cand)
  PROVE  /\ Partial!Merged(r) \in Table
         /\ IsNumbered(Partial!Merged(r))
         /\ Prefix(rebuild[r].cand, Partial!Merged(r))
         /\ Partial!Merged(r) =
              Overwrite(rebuild[r].cand, Partial!Renumber(rebuild[r].snap.tail,
                                                          Cardinality(DOMAIN rebuild[r].cand)))
<1> DEFINE c == rebuild[r].cand
           u == Partial!Renumber(rebuild[r].snap.tail, Cardinality(DOMAIN c))
<1>1. c \in Table /\ rebuild[r].snap.tail \in Table
  BY DEF PTypeInv, RebuildType, SnapRange
<1>2. PICK n \in Nat : Numbered(c, n)
  BY DEF IsNumbered
<1>3. Cardinality(DOMAIN c) = n
  BY <1>2, NumberedCount
<1>4. PICK m \in Nat : IsTable(u) /\ DOMAIN u = n..(n + m - 1)
  BY <1>1, <1>3, RenumberIsTable, TableIsTable
<1>5. Partial!Merged(r) = Overwrite(c, u)
  BY PartialTables, PartialCardinality DEF Partial!Merged
<1>6. Overwrite(c, u) \in Table
  BY <1>1, <1>4, OverwriteIsTable, TableIsTable
<1> HIDE DEF c, u
<1>7. Numbered(Overwrite(c, u), n + m) /\ Prefix(c, Overwrite(c, u))
  BY <1>2, <1>4, NumberedOn
<1>8. IsNumbered(Overwrite(c, u))
  BY <1>7 DEF IsNumbered
<1> QED
  BY <1>5, <1>6, <1>7, <1>8 DEF c, u

LEMMA MergeWork ==
  ASSUME PTypeInv, WorkInv, RebuildsInTurn, NEW r \in Partial!Run, Partial!Merge(r)
  PROVE  WorkInv'
<1>1. rebuild[r].pc = "passing"
  BY DEF Partial!Merge, Partial!At
<1>2. IsNumbered(rebuild[r].cand) /\ Prefix(staging, rebuild[r].cand)
  BY <1>1 DEF WorkInv, WorkOK, WorkingPc
<1>3. CASE Partial!Goto(r, "ending") /\ staging' = staging
  <2>1. \A q \in Partial!Run : PStays(q)
    BY <1>3, PGotoStays DEF WorkingPc
  <2> QED
    BY <1>3, <2>1, WorkKept
<1>4. CASE /\ Partial!Contiguous(Partial!Merged(r)) /\ Partial!Save(Partial!Merged(r))
           /\ Partial!Goto(r, "promoting")
  <2>1. Partial!Merged(r) \in Table /\ IsNumbered(Partial!Merged(r))
    BY <1>2, MergedNumbered
  <2>2. Prefix(staging, Partial!Merged(r))
    BY <1>2, MergedNumbered, PrefixTrans
  <2>3. staging' = Partial!Merged(r)
    BY <1>4, <2>1, <2>2, SaveLeaves
  <2>4. Cover(Partial!Merged(r))
    BY <1>4, <2>1, NumberedCover, TableIsTable, PartialTables
  <2>5. /\ rebuild'[r].pc = "promoting" /\ rebuild'[r].cand = rebuild[r].cand
        /\ \A q \in Partial!Run \ {r} : rebuild'[q] = rebuild[q]
    BY <1>4 DEF Partial!Goto, PTypeInv, RebuildType
  <2>6. WorkOK(r)'
    BY <1>2, <2>3, <2>4, <2>5 DEF WorkOK
  <2> QED
    BY <1>1, <2>1, <2>3, <2>5, <2>6, WorkBy DEF WorkingPc
<1> QED
  BY <1>3, <1>4 DEF Partial!Merge

\* The saving of what is already there.
LEMMA SaveWork ==
  ASSUME PTypeInv, WorkInv, RebuildsInTurn, NEW r \in Partial!Run,
         Partial!Seed(r) \/ Partial!SaveCandidates(r)
  PROVE  WorkInv'
<1>1. rebuild[r].pc \in {"snapped", "saving"}
  BY DEF Partial!Seed, Partial!SaveCandidates, Partial!At
<1>2. IsNumbered(rebuild[r].cand) /\ Prefix(staging, rebuild[r].cand)
  BY <1>1 DEF WorkInv, WorkOK, WorkingPc
<1>3. rebuild[r].cand \in Table
  BY DEF PTypeInv, RebuildType
<1>4. staging' = rebuild[r].cand
  BY <1>2, <1>3, SaveLeaves DEF Partial!Seed, Partial!SaveCandidates
<1>5. PICK pc \in {"seeding", "promoting"} :
        /\ Partial!Goto(r, pc)
        /\ pc = "promoting" => rebuild[r].pc = "saving"
  BY DEF Partial!Seed, Partial!SaveCandidates, Partial!At
<1>6. /\ rebuild'[r].pc = pc /\ rebuild'[r].cand = rebuild[r].cand
      /\ \A q \in Partial!Run \ {r} : rebuild'[q] = rebuild[q]
  BY <1>5 DEF Partial!Goto, PTypeInv, RebuildType
<1>7. pc = "promoting" => Cover(staging')
  BY <1>1, <1>4, <1>5 DEF WorkInv, WorkOK, WorkingPc
<1>8. WorkOK(r)'
  BY <1>2, <1>4, <1>5, <1>6, <1>7 DEF WorkOK, Prefix
<1> QED
  BY <1>1, <1>2, <1>4, <1>6, <1>8, WorkBy DEF WorkingPc

LEMMA FullLoopEndsWork ==
  ASSUME PTypeInv, WorkInv, RebuildsInTurn, NEW r \in Partial!Run, Partial!FullLoopEnds(r)
  PROVE  WorkInv'
<1>1. rebuild[r].pc = "passing"
  BY DEF Partial!FullLoopEnds, Partial!At
<1>2. CASE Partial!Goto(r, "ending") /\ Partial!Clear
  <2>1. \A q \in Partial!Run : PStays(q)
    BY <1>2, PGotoStays DEF WorkingPc
  <2>2. staging' = NoRows
    BY <1>2, PartialTables DEF Partial!Clear
  <2> QED
    BY <2>1, <2>2, WorkKept
<1>3. CASE Partial!Goto(r, "saving") /\ Partial!Contiguous(rebuild[r].cand) /\ staging' = staging
  <2>1. WorkOK(r) /\ rebuild[r].cand \in Table
    BY <1>1 DEF WorkInv, WorkingPc, PTypeInv, RebuildType
  <2>2. Cover(rebuild[r].cand)
    BY <1>3, <2>1, NumberedCover, TableIsTable, PartialTables DEF WorkOK
  <2>3. /\ rebuild'[r].pc = "saving" /\ rebuild'[r].cand = rebuild[r].cand
        /\ \A q \in Partial!Run \ {r} : rebuild'[q] = rebuild[q]
    BY <1>3 DEF Partial!Goto, PTypeInv, RebuildType
  <2>4. WorkOK(r)'
    BY <1>1, <1>3, <2>1, <2>2, <2>3 DEF WorkOK
  <2> QED
    BY <1>1, <1>3, <2>3, <2>4, WorkBy DEF WorkingPc, WorkInv
<1> QED
  BY <1>2, <1>3 DEF Partial!FullLoopEnds

LEMMA PStepWork ==
  PTypeInv /\ WorkInv /\ RebuildsInTurn /\ [Partial!Next]_(Partial!vars) => WorkInv'
<1> SUFFICES ASSUME PTypeInv, WorkInv, RebuildsInTurn, [Partial!Next]_(Partial!vars)
             PROVE  WorkInv'
  OBVIOUS
<1>0. Partial!NoRows = NoRows
  BY PartialTables
<1>u. UNCHANGED rebuild => \A q \in Partial!Run : PStays(q)
  BY DEF PStays
<1>1. ASSUME NEW r \in Partial!Run,
             \/ Partial!Start(r) \/ Partial!NothingToRebuild(r) \/ Partial!Refuse(r)
             \/ Partial!ClearRange(r) \/ Partial!Fails(r) \/ Partial!Promote(r)
      PROVE  WorkInv'
  <2>1. PICK pc \in {"started", "ending", "refused", "clearing"} : Partial!Goto(r, pc)
    <3>1. CASE Partial!Promote(r)
      <4>1. \E pc \in {"ending", "clearing"} : Partial!Goto(r, pc)
        BY <3>1 DEF Partial!Promote
      <4> QED
        BY <4>1
    <3> QED
      BY <1>1, <3>1 DEF Partial!Start, Partial!NothingToRebuild, Partial!Refuse, Partial!ClearRange,
         Partial!Fails
  <2>2. staging' \in {staging, NoRows}
    BY <1>0, <1>1 DEF Partial!Start, Partial!NothingToRebuild, Partial!Refuse, Partial!ClearRange,
       Partial!Fails, Partial!Promote
  <2>3. \A q \in Partial!Run : PStays(q)
    BY <2>1, PGotoStays DEF WorkingPc
  <2> QED
    BY <2>2, <2>3, WorkKept
<1>2. ASSUME NEW r \in Partial!Run, Partial!Resume(r) \/ Partial!SetRange(r) PROVE WorkInv'
  <2>1. rebuild[r].pc \in WorkingPc \ {"promoting"} /\ Partial!Goto(r, "passing") /\ staging' = staging
    BY <1>2 DEF Partial!Resume, Partial!SetRange, Partial!At, WorkingPc
  <2>2. \A q \in Partial!Run : PStays(q)
    BY <2>1, PGotoStays
  <2> QED
    BY <2>1, <2>2, WorkKept
<1>3. ASSUME NEW r \in Partial!Run, Partial!End(r) \/ Partial!Crash(r) PROVE WorkInv'
  <2>1. rebuild' = [rebuild EXCEPT ![r] = Partial!IdleRun] /\ staging' \in {staging, NoRows}
    BY <1>0, <1>3 DEF Partial!End, Partial!Crash, Partial!Clear
  <2>2. Partial!IdleRun.pc \notin WorkingPc
    BY DEF Partial!IdleRun, Partial!RunAt, WorkingPc
  <2>3. \A q \in Partial!Run : PStays(q)
    BY <2>1, <2>2, PStaysOne
  <2> QED
    BY <2>1, <2>3, WorkKept
<1>4. CASE Partial!Append \/ Partial!Discard \/ Partial!Expire \/ UNCHANGED Partial!vars
  <2>1. UNCHANGED rebuild /\ staging' \in {staging, NoRows}
    BY <1>0, <1>4 DEF Partial!Append, Partial!Discard, Partial!Clear, Partial!Expire, Partial!vars
  <2> QED
    BY <1>u, <2>1, WorkKept
<1>5. ASSUME NEW r \in Partial!Run, Partial!PartialStep(r) \/ Partial!FullStep(r) PROVE WorkInv'
  BY <1>1, <1>2, <1>5, ReadRangeWork, ReadStagingWork, MergeWork, SaveWork, FullLoopEndsWork
     DEF Partial!PartialStep, Partial!FullStep
<1> QED
  BY <1>1, <1>3, <1>4, <1>5, RebuildPassWork DEF Partial!Next

-----------------------------------------------------------------------------
(* The compartments of a session with rebuilds of a range.                 *)

LEMMA AppendGrows == Partial!Append => Grown
  BY PartialTables DEF Partial!Append, Grown

LEMMA PStepRows ==
  PTypeInv /\ WorkInv /\ [Partial!Next]_(Partial!vars)
    => \/ rows' = rows
       \/ Grown
       \/ Cover(staging) /\ Replaced
<1> SUFFICES ASSUME PTypeInv, WorkInv, Partial!Next, rows' # rows
             PROVE  Grown \/ (Cover(staging) /\ Replaced)
  BY DEF Partial!vars
<1>1. ASSUME NEW r \in Partial!Run, Partial!Promote(r) PROVE Cover(staging) /\ Replaced
  <2>1. rebuild[r].pc = "promoting" /\ Replaced
    BY <1>1, PartialTables DEF Partial!Promote, Partial!At, Replaced
  <2> QED
    BY <2>1 DEF WorkInv, WorkOK, WorkingPc
<1>2. ASSUME NEW r \in Partial!Run,
             \/ Partial!Start(r) \/ Partial!PartialStep(r) \/ Partial!FullStep(r)
             \/ Partial!RebuildPass(r) \/ Partial!Fails(r) \/ Partial!End(r) \/ Partial!Crash(r)
      PROVE  FALSE
  <2>1. CASE Partial!PartialStep(r)
    BY <2>1 DEF Partial!PartialStep, Partial!NothingToRebuild, Partial!Refuse, Partial!ReadRange,
       Partial!Resume, Partial!Seed, Partial!SetRange, Partial!Merge, Partial!ClearRange
  <2>2. CASE Partial!FullStep(r)
    BY <2>2 DEF Partial!FullStep, Partial!ReadStaging, Partial!FullLoopEnds, Partial!SaveCandidates
  <2>3. CASE \/ Partial!Start(r) \/ Partial!RebuildPass(r) \/ Partial!Fails(r)
             \/ Partial!End(r) \/ Partial!Crash(r)
    BY <2>3 DEF Partial!Start, Partial!RebuildPass, Partial!Fails, Partial!End, Partial!Crash
  <2> QED
    BY <1>2, <2>1, <2>2, <2>3
<1>3. CASE Partial!Discard \/ Partial!Expire
  BY <1>3 DEF Partial!Discard, Partial!Clear, Partial!Expire
<1> QED
  BY <1>1, <1>2, <1>3, AppendGrows DEF Partial!Next

PHistInv == Cover(rows) /\ WorkInv

LEMMA PInitHistInv == Partial!Init => PHistInv
<1> SUFFICES ASSUME Partial!Init PROVE PHistInv
  OBVIOUS
<1>1. rows = NoRows /\ staging = NoRows
  BY PartialTables DEF Partial!Init
<1>2. \A r \in Partial!Run : rebuild[r].pc \notin WorkingPc
  BY DEF Partial!Init, Partial!IdleRun, Partial!RunAt, WorkingPc
<1> QED
  BY <1>1, <1>2, NoRowsCover, NoRowsNumbered DEF PHistInv, WorkInv

LEMMA PStepHistInv ==
  PTypeInv /\ PHistInv /\ RebuildsInTurn /\ [Partial!Next]_(Partial!vars) => PHistInv'
<1> SUFFICES ASSUME PTypeInv, PHistInv, RebuildsInTurn, [Partial!Next]_(Partial!vars)
             PROVE  PHistInv'
  OBVIOUS
<1>1. WorkInv'
  BY PStepWork DEF PHistInv
<1>2. Cover(rows')
  <2>1. CASE rows' = rows
    BY <2>1 DEF PHistInv
  <2>2. CASE Grown
    BY <2>2, CoverGrows, TableIsTable DEF Grown, PHistInv, PTypeInv
  <2>3. CASE Cover(staging) /\ Replaced
    BY <2>3 DEF Replaced
  <2> QED
    BY <2>1, <2>2, <2>3, PStepRows DEF PHistInv
<1> QED
  BY <1>1, <1>2 DEF PHistInv

LEMMA AlwaysPHistInv == Partial!Spec /\ []RebuildsInTurn => [](PTypeInv /\ PHistInv)
  BY AlwaysPTypeInv, PInitHistInv, PStepHistInv, PTL DEF Partial!Spec

\* The abstract history is the one that CompartmentRuns implements.
LEMMA SameHistory == Partial!History!Next <=> History!Next
<1>1. /\ Partial!History!NoRows = History!NoRows
      /\ \A t : /\ Partial!History!NextOrdinal(t) = History!NextOrdinal(t)
                /\ Partial!History!NextSeq(t) = History!NextSeq(t)
                /\ Partial!History!Contiguous(t) <=> History!Contiguous(t)
                /\ \A u : Partial!History!Overwrite(t, u) = History!Overwrite(t, u)
  BY DEF Partial!History!NoRows, History!NoRows, Partial!History!NextOrdinal, History!NextOrdinal,
         Partial!History!NextSeq, History!NextSeq, Partial!History!LastSeq, History!LastSeq,
         Partial!History!Contiguous, History!Contiguous, Partial!History!PrevSeq, History!PrevSeq,
         Partial!History!Overwrite, History!Overwrite
<1>2. \A q, a, b : Partial!History!Splits(q, a, b) = History!Splits(q, a, b)
  BY DEF Partial!History!Splits, History!Splits, Partial!History!Chain, History!Chain
<1>3. Partial!History!Publish <=> History!Publish
  BY <1>1, <1>2 DEF Partial!History!Publish, History!Publish
<1>4. Partial!History!Rebuild <=> History!Rebuild
  BY <1>1 DEF Partial!History!Rebuild, History!Rebuild
<1> QED
  BY <1>3, <1>4 DEF Partial!History!Next, History!Next

LEMMA PStepHistory ==
  PTypeInv /\ PTypeInv' /\ PHistInv /\ [Partial!Next]_(Partial!vars) => [Partial!History!Next]_rows
<1> SUFFICES ASSUME PTypeInv, PTypeInv', PHistInv, [Partial!Next]_(Partial!vars), rows' # rows
             PROVE  Partial!History!Next
  OBVIOUS
<1>1. CASE Grown
  BY <1>1, GrownPublishes, SameHistory DEF History!Next
<1>2. CASE Cover(staging) /\ Replaced
  <2>1. IsTable(rows') /\ Cover(rows') /\ rows' # NoRows
    BY <1>2, TableIsTable DEF Replaced, PTypeInv
  <2> QED
    BY <2>1, CoverRebuilds, SameHistory DEF History!Next
<1> QED
  BY <1>1, <1>2, PStepRows DEF PHistInv

\* Rebuilds of a range and full rebuilds that work on the staging table in turn
\* change a session's compartments as the abstract history allows, whatever
\* they resume from, and whichever crashes and lost leases come between.
THEOREM RebuildsImplementHistory == Partial!Spec /\ []RebuildsInTurn => Partial!HistorySpec
<1>1. Partial!Init => Partial!History!Init
  BY DEF Partial!Init, Partial!NoRows, Partial!History!Init, Partial!History!NoRows
<1> QED
  BY <1>1, PStepHistory, AlwaysPHistInv, AlwaysPTypeInv, PTL
     DEF Partial!HistorySpec, Partial!History!Spec, Partial!Spec

-----------------------------------------------------------------------------
(* Snapping.                                                               *)

\* In a cover, a compartment ends before a later one starts.
LEMMA CoverOrder ==
  ASSUME NEW t, IsTable(t), Cover(t)
  PROVE  \A i, j \in DOMAIN t : i < j => t[i].e < t[j].s
<1> DEFINE S == {j \in DOMAIN t : \E i \in DOMAIN t : i < j /\ ~ (t[i].e < t[j].s)}
<1>1. PICK n \in Nat : DOMAIN t = 0..(n - 1)
  BY DEF Cover, Numbered
<1>2. \A i \in DOMAIN t : t[i].s \in Nat /\ t[i].e \in Nat /\ t[i].s <= t[i].e
  BY DEF IsTable, Cell, Ordinal, Cover, Linked
<1>3. \A i \in DOMAIN t : i # 0 => i - 1 \in DOMAIN t /\ t[i].s = t[i - 1].e + 1
  BY <1>1 DEF Cover, Linked
<1>4. SUFFICES ASSUME S # {} PROVE FALSE
  OBVIOUS
<1>5. PICK j \in S : \A k \in S : j <= k
  <2>1. S \subseteq Nat
    BY <1>1
  <2> QED
    BY <1>4, <2>1, LeastNumber
<1>6. PICK i \in DOMAIN t : i < j /\ ~ (t[i].e < t[j].s)
  BY <1>5
<1>7. j # 0 /\ j - 1 \in DOMAIN t /\ t[j].s = t[j - 1].e + 1
  BY <1>1, <1>3, <1>5, <1>6
<1>8. CASE i = j - 1
  BY <1>2, <1>6, <1>7, <1>8
<1>9. CASE i # j - 1
  <2>1. i < j - 1 /\ j - 1 \notin S
    BY <1>1, <1>5, <1>6, <1>9
  <2>2. t[i].e < t[j - 1].s
    BY <1>7, <2>1
  <2> QED
    BY <1>2, <1>6, <1>7, <2>2
<1> QED
  BY <1>8, <1>9

\* What a snap takes is what it touches: the rows from the first to the last.
LEMMA SnapRows ==
  ASSUME NEW t, IsTable(t), Cover(t), NEW a \in Ordinal, NEW b \in Ordinal, a <= b,
         Partial!CanSnap(t, a, b)
  PROVE  LET f == Partial!FirstTouched(t, a)
             l == Partial!LastTouched(t, b)
         IN /\ f \in DOMAIN t /\ l \in DOMAIN t /\ f <= l
            /\ \A i \in DOMAIN t : /\ i < f <=> t[i].e < a
                                   /\ i > l <=> t[i].s > b
<1> DEFINE f == Partial!FirstTouched(t, a)
           l == Partial!LastTouched(t, b)
<1>1. f \in DOMAIN t /\ t[f].e >= a /\ \A j \in DOMAIN t : t[j].e >= a => f <= j
  BY FirstRow DEF Partial!CanSnap
<1>2. l \in DOMAIN t /\ t[l].s <= b /\ \A j \in DOMAIN t : t[j].s <= b => j <= l
  BY LastRow DEF Partial!CanSnap
<1>3. f <= l
  BY DEF Partial!CanSnap
<1>4. \A i \in DOMAIN t : i \in Nat /\ t[i].s \in Nat /\ t[i].e \in Nat /\ t[i].s <= t[i].e
  BY DEF IsTable, Cell, Ordinal, Cover, Linked
<1>5. \A i, j \in DOMAIN t : i < j => t[i].e < t[j].s
  BY CoverOrder
<1> HIDE DEF f, l
<1>6. ASSUME NEW i \in DOMAIN t PROVE (i < f <=> t[i].e < a) /\ (i > l <=> t[i].s > b)
  <2>1. i < f => ~ (t[i].e >= a)
    BY <1>1, <1>4
  <2>2. i >= f => t[i].e >= t[f].e
    BY <1>1, <1>4, <1>5
  <2>3. i > l => ~ (t[i].s <= b)
    BY <1>2, <1>4
  <2>4. i <= l => t[i].s <= t[l].s
    BY <1>2, <1>4, <1>5
  <2> QED
    BY <1>1, <1>2, <1>4, <2>1, <2>2, <2>3, <2>4 DEF Ordinal
<1> QED
  BY <1>1, <1>2, <1>3, <1>6 DEF f, l

\* Messages between two rows of a cover are in a row between them.
LEMMA CoverFills ==
  ASSUME NEW t, IsTable(t), Cover(t), NEW f \in DOMAIN t, NEW l \in DOMAIN t, f <= l,
         NEW x \in t[f].s..t[l].e
  PROVE  \E i \in f..l : i \in DOMAIN t /\ x \in t[i].s..t[i].e
<1>1. PICK n \in Nat : DOMAIN t = 0..(n - 1)
  BY DEF Cover, Numbered
<1>2. \A i \in DOMAIN t : t[i].s \in Nat /\ t[i].e \in Nat /\ t[i].s <= t[i].e
  BY DEF IsTable, Cell, Ordinal, Cover, Linked
<1> DEFINE S == {i \in f..l : t[i].s <= x}
<1>3. S \subseteq Nat /\ f \in S /\ \A i \in S : i <= l
  BY <1>1, <1>2
<1>4. PICK i \in S : \A j \in S : j <= i
  <2>1. l \in Nat
    BY <1>1
  <2> QED
    BY <1>3, <2>1, GreatestNumber
<1>5. CASE i = l
  BY <1>1, <1>2, <1>3, <1>4, <1>5
<1>6. CASE i # l
  <2>1. i + 1 \in f..l /\ i + 1 \in DOMAIN t /\ i \in DOMAIN t /\ i \in Nat
    BY <1>1, <1>3, <1>4, <1>6
  <2>2. i + 1 \notin S
    BY <1>4, <2>1
  <2>3. t[i + 1].s = t[i].e + 1
    BY <2>1 DEF Cover, Linked
  <2>4. x < t[i + 1].s
    BY <1>2, <2>1, <2>2
  <2> QED
    BY <1>2, <1>3, <1>4, <2>1, <2>3, <2>4
<1> QED
  BY <1>5, <1>6

LEMMA CoverIsSnapped ==
  ASSUME IsTable(rows), Cover(rows)
  PROVE  Partial!SnapIsTightest
<1> SUFFICES ASSUME NEW a \in Ordinal, NEW b \in Ordinal, a <= b
             PROVE  LET touched == {c \in Partial!Cells(rows) : c.s <= b /\ c.e >= a}
                        snap == Partial!Snap(rows, a, b)
                    IN /\ Partial!CanSnap(rows, a, b) <=> touched # {}
                       /\ touched # {} =>
                            /\ snap.range.s..snap.range.e = UNION {c.s..c.e : c \in touched}
                            /\ Partial!Cells(snap.prior) = {c \in Partial!Cells(rows) : c.e < a}
                            /\ Partial!Cells(snap.tail) = {c \in Partial!Cells(rows) : c.s > b}
  BY DEF Partial!SnapIsTightest, Partial!Ordinal, Ordinal
<1> DEFINE touched == {c \in Partial!Cells(rows) : c.s <= b /\ c.e >= a}
           snap == Partial!Snap(rows, a, b)
           f == Partial!FirstTouched(rows, a)
           l == Partial!LastTouched(rows, b)
<1>0. Partial!Cells(rows) = {rows[i] : i \in DOMAIN rows}
  BY DEF Partial!Cells
<1>1. \A i \in DOMAIN rows : /\ i \in Nat /\ rows[i].s \in Nat /\ rows[i].e \in Nat
                             /\ rows[i].s <= rows[i].e
  BY DEF IsTable, Cell, Ordinal, Cover, Linked
<1>2. \A i, j \in DOMAIN rows : i < j => rows[i].e < rows[j].s
  BY CoverOrder
<1>3. ASSUME touched # {} PROVE Partial!CanSnap(rows, a, b)
  <2>1. PICK i \in DOMAIN rows : rows[i].s <= b /\ rows[i].e >= a
    BY <1>0, <1>3
  <2>2. f \in DOMAIN rows /\ f <= i
    BY <2>1, FirstRow
  <2>3. l \in DOMAIN rows /\ i <= l
    BY <2>1, LastRow
  <2>4. f <= l
    BY <1>1, <2>1, <2>2, <2>3
  <2> QED
    BY <2>1, <2>4 DEF Partial!CanSnap
<1>4. ASSUME Partial!CanSnap(rows, a, b)
      PROVE  /\ touched # {}
             /\ snap.range.s..snap.range.e = UNION {c.s..c.e : c \in touched}
             /\ Partial!Cells(snap.prior) = {c \in Partial!Cells(rows) : c.e < a}
             /\ Partial!Cells(snap.tail) = {c \in Partial!Cells(rows) : c.s > b}
  <2>1. /\ f \in DOMAIN rows /\ l \in DOMAIN rows /\ f <= l
        /\ \A i \in DOMAIN rows : /\ i < f <=> rows[i].e < a
                                  /\ i > l <=> rows[i].s > b
    BY <1>4, SnapRows
  <2> HIDE DEF f, l
  <2>2. /\ snap.range.s = rows[f].s /\ snap.range.e = rows[l].e
        /\ snap.prior = Partial!Part(rows, {i \in DOMAIN rows : i < f})
        /\ snap.tail = Partial!Part(rows, {i \in DOMAIN rows : i > l})
    BY DEF Partial!Snap, f, l
  <2>3. \A i \in DOMAIN rows : i \in f..l <=> rows[i].s <= b /\ rows[i].e >= a
    BY <1>1, <2>1 DEF Ordinal
  <2>4. touched # {}
    BY <1>0, <1>1, <2>1, <2>3
  <2>5. ASSUME NEW x \in rows[f].s..rows[l].e PROVE \E c \in touched : x \in c.s..c.e
    <3>1. PICK i \in f..l : i \in DOMAIN rows /\ x \in rows[i].s..rows[i].e
      BY <2>1, CoverFills
    <3>2. rows[i] \in touched
      BY <1>0, <2>3, <3>1
    <3> QED
      BY <3>1, <3>2
  <2>6. ASSUME NEW c \in touched, NEW x \in c.s..c.e PROVE x \in rows[f].s..rows[l].e
    <3>1. PICK i \in DOMAIN rows : c = rows[i] /\ i \in f..l
      BY <1>0, <2>3
    <3>2. rows[f].s <= rows[i].s /\ rows[i].e <= rows[l].e
      BY <1>1, <1>2, <2>1, <3>1
    <3> QED
      BY <1>1, <2>1, <3>1, <3>2
  <2>7. rows[f].s..rows[l].e = UNION {c.s..c.e : c \in touched}
    <3> HIDE DEF touched
    <3> QED
      BY <2>5, <2>6
  <2>8. Partial!Cells(snap.prior) = {c \in Partial!Cells(rows) : c.e < a}
    BY <2>1, <2>2 DEF Partial!Cells, Partial!Part
  <2>9. Partial!Cells(snap.tail) = {c \in Partial!Cells(rows) : c.s > b}
    BY <2>1, <2>2 DEF Partial!Cells, Partial!Part
  <2> QED
    BY <2>2, <2>4, <2>7, <2>8, <2>9
<1> QED
  BY <1>3, <1>4

\* As long as rebuilds work in turn, a range snaps to whole compartments,
\* loses none and takes none without need, whatever history the session has
\* got to.
THEOREM SnapsOutward == Partial!Spec /\ []RebuildsInTurn => []Partial!SnapIsTightest
<1>1. PTypeInv /\ PHistInv => Partial!SnapIsTightest
  BY CoverIsSnapped, TableIsTable DEF PTypeInv, PHistInv
<1> QED
  BY <1>1, AlwaysPHistInv, PTL

-----------------------------------------------------------------------------
(* What a rebuild of a range keeps.  Without full rebuilds, whatever is    *)
(* staged before the range it belongs to is what the session has there;    *)
(* and what a run has snapped stays a part of the session's compartments.  *)

NoFullRebuild == \A r \in FullRun : rebuild[r].pc = "idle"

\* The rows of t that end before message a are the session's.
Keeps(t, a) == \A i \in DOMAIN t : t[i].e < a => i \in DOMAIN rows /\ t[i] = rows[i]

\* The snap is of the rows p..l among the first k.
SnapOf(snap, p, l, k) ==
  /\ p <= l /\ l < k /\ 0..(k - 1) \subseteq DOMAIN rows
  /\ snap.range = [s |-> rows[p].s, e |-> rows[l].e]
  /\ snap.prior = Partial!Part(rows, 0..(p - 1))
  /\ snap.tail = Partial!Part(rows, (l + 1)..(k - 1))

MergedIs(r) ==
  /\ staging = Partial!Merged(r)
  /\ Partial!CoversRange(Partial!Built(r), rebuild[r].snap.range)

FromScratch(r) == rebuild[r].pc = "seeding" \/ (rebuild[r].pc = "snapped" /\ ~rebuild[r].resumed)
UnderWay(r) == rebuild[r].pc = "passing" \/ (rebuild[r].pc = "snapped" /\ rebuild[r].resumed)

KeepOK(r) ==
  /\ \E p, l, k \in Nat : SnapOf(rebuild[r].snap, p, l, k)
  /\ Keeps(rebuild[r].cand, rebuild[r].snap.range.s)
  /\ FromScratch(r) => Prefix(rebuild[r].cand, rows)
  /\ UnderWay(r) => range \in {rebuild[r].snap.range, Partial!NoRange}
  /\ rebuild[r].next >= rebuild[r].snap.range.s
  /\ rebuild[r].pc # "saving"
  /\ rebuild[r].pc = "promoting" => staging = NoRows \/ MergedIs(r)
KeepInv ==
  /\ Keeps(staging, range.s)
  /\ \A r \in Partial!Run : rebuild[r].pc \in WorkingPc => KeepOK(r)

\* All of it lasts while the session's compartments only grow.
LEMMA KeepsLasts ==
  ASSUME NEW t, NEW a, Keeps(t, a), Prefix(rows, rows')
  PROVE  \A i \in DOMAIN t : t[i].e < a => i \in DOMAIN rows' /\ t[i] = rows'[i]
  BY DEF Keeps, Prefix

LEMMA PartLasts ==
  ASSUME NEW I, I \subseteq DOMAIN rows, Prefix(rows, rows')
  PROVE  Partial!Part(rows', I) = Partial!Part(rows, I)
<1>1. DOMAIN rows' \cap I = I /\ DOMAIN rows \cap I = I /\ \A i \in I : rows'[i] = rows[i]
  BY DEF Prefix
<1> QED
  BY <1>1 DEF Partial!Part

\* What a run has keeps being so when it works on with the same rows in hand.
Same(r) ==
  /\ rebuild[r].pc \in WorkingPc
  /\ rebuild'[r].snap = rebuild[r].snap /\ rebuild'[r].cand = rebuild[r].cand
  /\ rebuild'[r].next = rebuild[r].next /\ rebuild'[r].resumed = rebuild[r].resumed

LEMMA SameKeeps ==
  ASSUME NEW r \in Partial!Run, Same(r), KeepOK(r), Prefix(rows, rows')
  PROVE  /\ \E p, l, k \in Nat :
              /\ p <= l /\ l < k /\ 0..(k - 1) \subseteq DOMAIN rows'
              /\ rebuild'[r].snap.range = [s |-> rows'[p].s, e |-> rows'[l].e]
              /\ rebuild'[r].snap.prior = Partial!Part(rows', 0..(p - 1))
              /\ rebuild'[r].snap.tail = Partial!Part(rows', (l + 1)..(k - 1))
         /\ \A i \in DOMAIN rebuild'[r].cand :
              rebuild'[r].cand[i].e < rebuild'[r].snap.range.s =>
                i \in DOMAIN rows' /\ rebuild'[r].cand[i] = rows'[i]
         /\ rebuild'[r].next >= rebuild'[r].snap.range.s
         /\ FromScratch(r) => Prefix(rebuild'[r].cand, rows')
<1>1. PICK p, l, k \in Nat : SnapOf(rebuild[r].snap, p, l, k)
  BY DEF KeepOK
<1>2. /\ p <= l /\ l < k /\ 0..(k - 1) \subseteq DOMAIN rows'
      /\ rebuild[r].snap.range = [s |-> rows'[p].s, e |-> rows'[l].e]
      /\ rebuild[r].snap.prior = Partial!Part(rows', 0..(p - 1))
      /\ rebuild[r].snap.tail = Partial!Part(rows', (l + 1)..(k - 1))
  <2> DEFINE snap == rebuild[r].snap
  <2>1. 0..(p - 1) \subseteq DOMAIN rows /\ (l + 1)..(k - 1) \subseteq DOMAIN rows
    BY <1>1 DEF SnapOf
  <2>2. p \in DOMAIN rows /\ l \in DOMAIN rows
    BY <1>1 DEF SnapOf
  <2>3. rows'[p] = rows[p] /\ rows'[l] = rows[l] /\ 0..(k - 1) \subseteq DOMAIN rows'
    BY <1>1, <2>2 DEF Prefix, SnapOf
  <2> QED
    BY <1>1, <2>1, <2>3, PartLasts DEF SnapOf
<1>3. \A i \in DOMAIN rebuild[r].cand :
        rebuild[r].cand[i].e < rebuild[r].snap.range.s =>
          i \in DOMAIN rows' /\ rebuild[r].cand[i] = rows'[i]
  BY KeepsLasts DEF KeepOK
<1>4. FromScratch(r) => Prefix(rebuild[r].cand, rows')
  BY PrefixTrans DEF KeepOK
<1> QED
  BY <1>2, <1>3, <1>4 DEF Same, KeepOK

\* The step leaves a run where it works, or makes it a run that does not.
KStays(r) ==
  rebuild'[r].pc \in WorkingPc =>
    /\ Same(r)
    /\ FromScratch(r)' => FromScratch(r)
    /\ UnderWay(r)' => UnderWay(r)
    /\ rebuild'[r].pc \in {"saving", "promoting"} => rebuild'[r].pc = rebuild[r].pc

LEMMA KeepKept ==
  ASSUME KeepInv, Prefix(rows, rows'),
         staging' = NoRows \/ staging' = staging,
         range' = range \/ range' = Partial!NoRange,
         IsTable(staging'),
         \A r \in Partial!Run : KStays(r)
  PROVE  KeepInv'
<1>1. Keeps(staging, range.s)'
  <2>1. CASE staging' = NoRows
    BY <2>1, NoRowsIsTable DEF Keeps
  <2>2. CASE staging' = staging /\ range' = range
    BY <2>2, KeepsLasts DEF KeepInv, Keeps
  <2>3. CASE range' = Partial!NoRange
    <3>1. \A i \in DOMAIN staging' : ~ (staging'[i].e < 0)
      BY DEF IsTable, Cell, Ordinal
    <3> QED
      BY <2>3, <3>1 DEF Keeps, Partial!NoRange
  <2> QED
    BY <2>1, <2>2, <2>3
<1>2. ASSUME NEW r \in Partial!Run, rebuild'[r].pc \in WorkingPc PROVE KeepOK(r)'
  <2>1. Same(r) /\ KeepOK(r)
    BY <1>2 DEF KStays, KeepInv, Same
  <2>2. /\ (\E p, l, k \in Nat : SnapOf(rebuild[r].snap, p, l, k))'
        /\ Keeps(rebuild[r].cand, rebuild[r].snap.range.s)'
        /\ rebuild'[r].next >= rebuild'[r].snap.range.s
        /\ FromScratch(r)' => Prefix(rebuild'[r].cand, rows')
    BY <1>2, <2>1, SameKeeps DEF SnapOf, Keeps, KStays
  <2>3. UnderWay(r)' => range' \in {rebuild'[r].snap.range, Partial!NoRange}
    BY <1>2, <2>1 DEF KStays, KeepOK, Same
  <2>4. rebuild'[r].pc = "promoting" => staging' = NoRows \/ MergedIs(r)'
    <3> SUFFICES ASSUME rebuild'[r].pc = "promoting", staging' = staging, staging # NoRows
                 PROVE  MergedIs(r)'
      OBVIOUS
    <3>1. MergedIs(r)
      BY <1>2, <2>1 DEF KStays, KeepOK
    <3>2. rebuild'[r].cand = rebuild[r].cand /\ rebuild'[r].snap = rebuild[r].snap
      BY <2>1 DEF Same
    <3>3. Partial!Merged(r)' = Partial!Merged(r) /\ Partial!Built(r)' = Partial!Built(r)
      BY <3>2 DEF Partial!Merged, Partial!Built
    <3>4. Partial!CoversRange(Partial!Built(r)', rebuild'[r].snap.range)
      BY <3>1, <3>2, <3>3 DEF MergedIs
    <3> QED
      BY <3>1, <3>3, <3>4 DEF MergedIs
  <2> QED
    BY <1>2, <2>1, <2>2, <2>3, <2>4 DEF KeepOK, KStays
<1> QED
  BY <1>1, <1>2 DEF KeepInv

\* A run that writes is the only one that works.
LEMMA KeepBy ==
  ASSUME RebuildsInTurn, NEW r \in Partial!Run, rebuild[r].pc \in WorkingPc,
         \A q \in Partial!Run \ {r} : rebuild'[q] = rebuild[q],
         Keeps(staging, range.s)', rebuild'[r].pc \in WorkingPc => KeepOK(r)'
  PROVE  KeepInv'
<1>1. \A q \in Partial!Run \ {r} : rebuild'[q].pc \notin WorkingPc
  BY DEF RebuildsInTurn
<1> QED
  BY <1>1 DEF KeepInv

\* Moving on changes nothing else of a run.
LEMMA GotoSame ==
  ASSUME PTypeInv, NEW r \in Partial!Run, NEW pc, Partial!Goto(r, pc)
  PROVE  /\ rebuild'[r].pc = pc
         /\ rebuild[r].pc \in WorkingPc => Same(r)
         /\ \A q \in Partial!Run \ {r} : rebuild'[q] = rebuild[q]
<1>1. rebuild[r] \in RebuildType
  BY DEF PTypeInv
<1>2. rebuild' = [rebuild EXCEPT ![r] = [rebuild[r] EXCEPT !.pc = pc]]
  BY DEF Partial!Goto
<1> QED
  BY <1>1, <1>2 DEF PTypeInv, RebuildType, Same

LEMMA KUnmoved ==
  ASSUME NEW r \in Partial!Run, rebuild'[r] = rebuild[r]
  PROVE  KStays(r)
  BY DEF KStays, Same, FromScratch, UnderWay

LEMMA KLeaves ==
  ASSUME NEW r \in Partial!Run, rebuild'[r].pc \notin WorkingPc,
         \A q \in Partial!Run \ {r} : rebuild'[q] = rebuild[q]
  PROVE  \A q \in Partial!Run : KStays(q)
  BY KUnmoved DEF KStays

\* Rows that a snap finds before its range keep their numbers.
LEMMA PriorIsKept ==
  ASSUME IsTable(rows), NEW p \in Nat, 0..(p - 1) \subseteq DOMAIN rows
  PROVE  LET prior == Partial!Part(rows, 0..(p - 1))
             u == Partial!Renumber(prior, 0)
         IN DOMAIN u = 0..(p - 1) /\ Prefix(u, rows)
<1> DEFINE prior == Partial!Part(rows, 0..(p - 1))
           u == Partial!Renumber(prior, 0)
<1>1. /\ IsTable(prior) /\ DOMAIN prior = 0..(p - 1)
      /\ \A i \in 0..(p - 1) : prior[i] = rows[i]
  <2>1. DOMAIN rows \cap 0..(p - 1) = 0..(p - 1)
    OBVIOUS
  <2> QED
    BY <2>1, PartIsTable
<1> HIDE DEF prior
<1>2. Cardinality(DOMAIN prior) = p
  BY <1>1, NumberedCount DEF Numbered
<1>3. DOMAIN u = 0..(p - 1)
  BY <1>1, <1>2, RenumberIsTable
<1>4. \A i \in 0..(p - 1) : u[i] = prior[i]
  <2>1. \A i \in 0..(0 + p - 0 - 1) : u[i] = prior[0 + i - 0]
    BY <1>1, RenumberShifts
  <2> QED
    BY <2>1
<1>5. \A i \in DOMAIN u : i \in DOMAIN rows /\ u[i] = rows[i]
  BY <1>1, <1>3, <1>4
<1> QED
  BY <1>3, <1>5 DEF Prefix, prior

\* A snap is of the rows it touches.
LEMMA SnapIsOf ==
  ASSUME IsTable(rows), Cover(rows), NEW a \in Ordinal, NEW b \in Ordinal, a <= b,
         Partial!CanSnap(rows, a, b)
  PROVE  \E p, l, k \in Nat : SnapOf(Partial!Snap(rows, a, b), p, l, k)
<1> DEFINE f == Partial!FirstTouched(rows, a)
           l == Partial!LastTouched(rows, b)
<1>1. f \in DOMAIN rows /\ l \in DOMAIN rows /\ f <= l
  BY SnapRows
<1>2. PICK n \in Nat : DOMAIN rows = 0..(n - 1)
  BY DEF Cover, Numbered
<1>3. Partial!Snap(rows, a, b) = [range |-> [s |-> rows[f].s, e |-> rows[l].e],
                                  prior |-> Partial!Part(rows, {i \in DOMAIN rows : i < f}),
                                  tail |-> Partial!Part(rows, {i \in DOMAIN rows : i > l})]
  BY DEF Partial!Snap
<1> HIDE DEF f, l
<1>4. f \in Nat /\ l \in Nat /\ l < n
  BY <1>1, <1>2
<1>5. {i \in DOMAIN rows : i < f} = 0..(f - 1) /\ {i \in DOMAIN rows : i > l} = (l + 1)..(n - 1)
  BY <1>1, <1>2, <1>4
<1>6. SnapOf(Partial!Snap(rows, a, b), f, l, n)
  <2>1. 0..(n - 1) \subseteq DOMAIN rows
    BY <1>2
  <2> DEFINE snap == Partial!Snap(rows, a, b)
  <2>2. /\ snap.range = [s |-> rows[f].s, e |-> rows[l].e]
        /\ snap.prior = Partial!Part(rows, 0..(f - 1))
        /\ snap.tail = Partial!Part(rows, (l + 1)..(n - 1))
    <3>1. snap = [range |-> [s |-> rows[f].s, e |-> rows[l].e],
                  prior |-> Partial!Part(rows, 0..(f - 1)),
                  tail |-> Partial!Part(rows, (l + 1)..(n - 1))]
      BY <1>3, <1>5, Zenon
    <3> HIDE DEF snap
    <3> QED
      BY <3>1
  <2> QED
    BY <1>1, <1>4, <2>1, <2>2 DEF SnapOf
<1> QED
  BY <1>4, <1>6

LEMMA ReadRangeKeeps ==
  ASSUME PTypeInv, PHistInv, KeepInv, NEW r \in Partial!Run, Partial!ReadRange(r)
  PROVE  KeepInv'
<1>1. PICK a, b \in Ordinal :
        /\ Partial!CanSnap(rows, a, b)
        /\ staging # NoRows => range = Partial!Snap(rows, a, b).range
        /\ rebuild' = [rebuild EXCEPT ![r] =
             [pc |-> "snapped", snap |-> Partial!Snap(rows, a, b), resumed |-> staging # NoRows,
              cand |-> IF staging # NoRows THEN staging
                       ELSE Partial!Renumber(Partial!Snap(rows, a, b).prior, 0),
              next |-> IF /\ staging # NoRows
                          /\ Partial!LastStaged(staging) >= Partial!Snap(rows, a, b).range.s
                       THEN Partial!NextOrdinal(staging) ELSE Partial!Snap(rows, a, b).range.s,
              passed |-> staging # NoRows /\ passes]]
  <2>1. Partial!NoRows = NoRows
    BY PartialTables
  <2> QED
    BY <2>1 DEF Partial!ReadRange, Partial!Ordinal, Ordinal
<1> DEFINE snap == Partial!Snap(rows, a, b)
           cand == IF staging # NoRows THEN staging ELSE Partial!Renumber(snap.prior, 0)
           next == IF staging # NoRows /\ Partial!LastStaged(staging) >= snap.range.s
                   THEN Partial!NextOrdinal(staging) ELSE snap.range.s
<1>2. IsTable(rows) /\ Cover(rows) /\ IsTable(staging)
  BY TableIsTable DEF PTypeInv, PHistInv
<1>3. a <= b
  BY <1>1 DEF Partial!CanSnap
<1>4. PICK p, l, k \in Nat : SnapOf(snap, p, l, k)
  BY <1>1, <1>2, <1>3, SnapIsOf
<1>5. snap.range.s \in Ordinal
  BY <1>1, SnapTypes DEF PTypeInv
<1>6. staging = NoRows => Prefix(cand, rows)
  <2>1. snap.prior = Partial!Part(rows, 0..(p - 1)) /\ 0..(p - 1) \subseteq DOMAIN rows
    BY <1>4 DEF SnapOf
  <2>2. Prefix(Partial!Renumber(snap.prior, 0), rows)
    BY <1>2, <2>1, PriorIsKept
  <2> QED
    BY <2>2
<1>7. Keeps(cand, snap.range.s)
  <2>1. CASE staging = NoRows
    BY <1>6, <2>1 DEF Keeps, Prefix
  <2>2. CASE staging # NoRows
    BY <1>1, <2>2 DEF KeepInv
  <2> QED
    BY <2>1, <2>2
<1>8. next >= snap.range.s
  <2>1. Partial!NextOrdinal(staging) \in 1..(MaxMsg + 1)
    BY <1>2, NextOrdinalProps, PartialTables
  <2>2. Partial!LastStaged(staging) = Partial!NextOrdinal(staging) - 1
    BY DEF Partial!LastStaged
  <2> QED
    BY <1>5, <2>1, <2>2 DEF Ordinal
<1>9. /\ rebuild'[r].pc = "snapped" /\ rebuild'[r].snap = snap /\ rebuild'[r].cand = cand
      /\ rebuild'[r].next = next /\ rebuild'[r].resumed = (staging # NoRows)
      /\ \A q \in Partial!Run \ {r} : rebuild'[q] = rebuild[q]
  BY <1>1 DEF PTypeInv
<1>10. UNCHANGED <<rows, staging, range>>
  BY DEF Partial!ReadRange
<1>11. staging # NoRows => range = snap.range
  BY <1>1
<1> HIDE DEF snap, cand, next
<1>12. KeepOK(r)'
  <2>1. (\E x, y, z \in Nat : SnapOf(rebuild[r].snap, x, y, z))'
    BY <1>4, <1>9, <1>10 DEF SnapOf
  <2>2. Keeps(rebuild[r].cand, rebuild[r].snap.range.s)'
    BY <1>7, <1>9, <1>10 DEF Keeps
  <2>3. /\ FromScratch(r)' => Prefix(rebuild'[r].cand, rows')
        /\ UnderWay(r)' => range' = rebuild'[r].snap.range
    BY <1>6, <1>9, <1>10, <1>11 DEF FromScratch, UnderWay
  <2> QED
    BY <1>8, <1>9, <2>1, <2>2, <2>3 DEF KeepOK
<1>13. ASSUME NEW q \in Partial!Run \ {r}, rebuild'[q].pc \in WorkingPc PROVE KeepOK(q)'
  <2>1. KeepOK(q) /\ rebuild'[q] = rebuild[q]
    BY <1>9, <1>13 DEF KeepInv
  <2>2. (\E x, y, z \in Nat : SnapOf(rebuild[q].snap, x, y, z))'
    <3>1. PICK x \in Nat, y \in Nat, z \in Nat : SnapOf(rebuild[q].snap, x, y, z)
      BY <2>1 DEF KeepOK
    <3>2. SnapOf(rebuild[q].snap, x, y, z)'
      BY <1>10, <2>1, <3>1 DEF SnapOf
    <3> QED
      BY <3>2
  <2>3. MergedIs(q) => MergedIs(q)'
    BY <1>10, <2>1 DEF MergedIs, Partial!Merged, Partial!Built
  <2> QED
    BY <1>10, <2>1, <2>2, <2>3 DEF KeepOK, Keeps, FromScratch, UnderWay
<1> QED
  BY <1>10, <1>12, <1>13 DEF KeepInv, Keeps

LEMMA SetRangeKeeps ==
  ASSUME PTypeInv, WorkInv, KeepInv, RebuildsInTurn, NEW r \in Partial!Run,
         Partial!Seed(r) \/ Partial!SetRange(r)
  PROVE  KeepInv'
<1>1. rebuild[r].pc \in {"snapped", "seeding"} /\ FromScratch(r)
  BY DEF Partial!Seed, Partial!SetRange, Partial!At, FromScratch
<1>2. KeepOK(r) /\ WorkOK(r) /\ rebuild[r].cand \in Table
  BY <1>1 DEF KeepInv, WorkInv, WorkingPc, PTypeInv, RebuildType
<1>3. PICK pc \in {"seeding", "passing"} : Partial!Goto(r, pc) /\ (pc = "passing" => Partial!SetRange(r))
  BY DEF Partial!Seed, Partial!SetRange
<1>4. rebuild'[r].pc = pc /\ Same(r) /\ \A q \in Partial!Run \ {r} : rebuild'[q] = rebuild[q]
  BY <1>1, <1>3, GotoSame DEF WorkingPc
<1>5. rows' = rows
  BY DEF Partial!Seed, Partial!SetRange
<1>6. Prefix(staging, rebuild[r].cand) /\ Prefix(rebuild[r].cand, rows)
      /\ Keeps(rebuild[r].cand, rebuild[r].snap.range.s)
  BY <1>1, <1>2 DEF WorkOK, KeepOK
<1>7. Prefix(staging', rebuild[r].cand)
  <2>1. CASE Partial!Seed(r)
    <3>1. staging' = rebuild[r].cand
      BY <1>2, <1>6, <2>1, SaveLeaves DEF Partial!Seed
    <3> QED
      BY <3>1 DEF Prefix
  <2>2. CASE Partial!SetRange(r)
    BY <1>6, <2>2 DEF Partial!SetRange
  <2> QED
    BY <2>1, <2>2
<1>8. Keeps(staging, range.s)'
  BY <1>5, <1>6, <1>7 DEF Keeps, Prefix
<1>9. pc = "passing" => range' = rebuild[r].snap.range
  BY <1>3 DEF Partial!SetRange
<1>10. KeepOK(r)'
  <2>1. (\E x, y, z \in Nat : SnapOf(rebuild[r].snap, x, y, z))'
    BY <1>2, <1>4, <1>5 DEF KeepOK, SnapOf, Same
  <2>2. /\ FromScratch(r)' => Prefix(rebuild'[r].cand, rows')
        /\ UnderWay(r)' => range' = rebuild'[r].snap.range
    BY <1>3, <1>4, <1>5, <1>6, <1>9 DEF FromScratch, UnderWay, Same
  <2>3. Keeps(rebuild[r].cand, rebuild[r].snap.range.s)'
    BY <1>4, <1>5, <1>6 DEF Keeps, Same
  <2> QED
    BY <1>2, <1>3, <1>4, <2>1, <2>2, <2>3 DEF KeepOK, Same
<1> QED
  BY <1>1, <1>4, <1>8, <1>10, KeepBy DEF WorkingPc

\* What a pass built does not end before the range.
LEMMA BlockEnds ==
  ASSUME NEW q \in Nat, NEW a \in Ordinal, NEW b \in Ordinal, NEW block \in Splits(q, a, b)
  PROVE  \A i \in DOMAIN block : block[i].e \in Nat /\ block[i].e >= a
<1>1. PICK n \in 1..MaxCells : block \in { g \in [q..(q + n - 1) -> [s : a..b, e : a..b]] :
                                           Chain(g, q, q + n - 1, a, b) }
  BY DEF Splits
<1>2. \A i \in DOMAIN block : block[i] \in [s : a..b, e : a..b]
  BY <1>1
<1> QED
  BY <1>2 DEF Ordinal

LEMMA RebuildPassKeeps ==
  ASSUME PTypeInv, WorkInv, KeepInv, RebuildsInTurn, NEW r \in Partial!Run, Partial!RebuildPass(r)
  PROVE  KeepInv'
<1> DEFINE x == rebuild[r]
<1>1. x \in RebuildType /\ x.snap.range.e \in 0..MaxMsg /\ x.snap.range.s \in 0..MaxMsg
  BY DEF PTypeInv, RebuildType, SnapRange, MsgRange
<1>2. PICK b \in x.next..x.snap.range.e :
        \E block \in Partial!Splits(Partial!Cardinality(DOMAIN x.cand), x.next, b) :
          LET cand == Partial!Overwrite(x.cand, block)
          IN /\ rebuild' = [rebuild EXCEPT ![r].cand = cand, ![r].next = b + 1, ![r].passed = TRUE]
             /\ Partial!Save(cand)
             /\ passes' = TRUE
  BY DEF Partial!RebuildPass
<1>3. PICK block \in Partial!Splits(Partial!Cardinality(DOMAIN x.cand), x.next, b) :
          LET cand == Partial!Overwrite(x.cand, block)
          IN /\ rebuild' = [rebuild EXCEPT ![r].cand = cand, ![r].next = b + 1, ![r].passed = TRUE]
             /\ Partial!Save(cand)
             /\ passes' = TRUE
  BY <1>2
<1> DEFINE d == Overwrite(x.cand, block)
<1>4. x.next \in Ordinal /\ b \in Ordinal /\ x.cand \in Table /\ b + 1 >= x.next
  BY <1>1, <1>2 DEF Ordinal, RebuildType
<1>5. /\ d \in Table /\ Partial!Overwrite(x.cand, block) = d
      /\ block \in Splits(Cardinality(DOMAIN x.cand), x.next, b)
      /\ Cardinality(DOMAIN x.cand) \in Nat
  BY <1>3, <1>4, PassTable
<1>6. x.pc = "passing"
  BY DEF Partial!RebuildPass, Partial!At
<1>7. WorkOK(r) /\ KeepOK(r)
  BY <1>6 DEF WorkInv, KeepInv, WorkingPc
<1>8. IsNumbered(x.cand) /\ Prefix(staging, x.cand)
  BY <1>6, <1>7 DEF WorkOK
<1>9. staging' = d
  <2>1. Prefix(x.cand, d)
    BY <1>5, <1>8, PassNumbered
  <2>2. Prefix(staging, d)
    BY <1>8, <2>1, PrefixTrans
  <2>3. Partial!Save(d)
    BY <1>3, <1>5
  <2> QED
    BY <1>5, <2>2, <2>3, SaveLeaves
<1>10. rows' = rows /\ range' = range
  BY DEF Partial!RebuildPass
<1>11. Keeps(d, x.snap.range.s)
  <2>1. \A i \in DOMAIN block : block[i].e \in Nat /\ block[i].e >= x.next
    BY <1>4, <1>5, BlockEnds
  <2>2. x.next >= x.snap.range.s /\ Keeps(x.cand, x.snap.range.s)
    BY <1>7 DEF KeepOK
  <2>3. ASSUME NEW i \in DOMAIN d, d[i].e < x.snap.range.s
        PROVE  i \in DOMAIN rows /\ d[i] = rows[i]
    <3>1. i \notin DOMAIN block
      <4> SUFFICES ASSUME i \in DOMAIN block PROVE FALSE
        OBVIOUS
      <4>1. d[i] = block[i]
        BY DEF Overwrite
      <4>2. block[i].e \in Nat /\ block[i].e >= x.next
        BY <2>1
      <4> QED
        BY <1>1, <1>4, <2>2, <2>3, <4>1, <4>2 DEF Ordinal
    <3>2. i \in DOMAIN x.cand /\ d[i] = x.cand[i]
      BY <3>1 DEF Overwrite
    <3> QED
      BY <2>2, <2>3, <3>2 DEF Keeps
  <2> HIDE DEF d
  <2> QED
    BY <2>3 DEF Keeps
<1> HIDE DEF d
<1>12. /\ rebuild'[r].cand = d /\ rebuild'[r].pc = "passing" /\ rebuild'[r].snap = x.snap
       /\ rebuild'[r].next = b + 1
       /\ \A q \in Partial!Run \ {r} : rebuild'[q] = rebuild[q]
  BY <1>1, <1>3, <1>5, <1>6 DEF PTypeInv, RebuildType
<1>13. range \in {x.snap.range, Partial!NoRange}
  BY <1>6, <1>7 DEF KeepOK, UnderWay
<1>14. Keeps(staging, range.s)'
  <2>1. CASE range = x.snap.range
    BY <1>9, <1>10, <1>11, <2>1 DEF Keeps
  <2>2. CASE range = Partial!NoRange
    <3>1. \A i \in DOMAIN d : ~ (d[i].e < 0)
      BY <1>5, TableIsTable DEF IsTable, Cell, Ordinal
    <3> QED
      BY <1>9, <1>10, <2>2, <3>1 DEF Keeps, Partial!NoRange
  <2> QED
    BY <1>13, <2>1, <2>2
<1>15. KeepOK(r)'
  <2>1. (\E y, z, w \in Nat : SnapOf(rebuild[r].snap, y, z, w))'
    <3>1. PICK y, z, w \in Nat : SnapOf(x.snap, y, z, w)
      BY <1>7 DEF KeepOK
    <3> HIDE DEF x
    <3>2. SnapOf(rebuild[r].snap, y, z, w)'
      BY <1>10, <1>12, <3>1 DEF SnapOf
    <3> QED
      BY <3>2
  <2>2. Keeps(rebuild[r].cand, rebuild[r].snap.range.s)'
    BY <1>10, <1>11, <1>12 DEF Keeps
  <2>3. rebuild'[r].next >= rebuild'[r].snap.range.s
    BY <1>1, <1>4, <1>7, <1>12 DEF KeepOK, Ordinal
  <2> QED
    BY <1>10, <1>12, <1>13, <2>1, <2>2, <2>3 DEF KeepOK, FromScratch
<1> QED
  BY <1>6, <1>12, <1>14, <1>15, KeepBy DEF WorkingPc

\* The rows behind the range that a merge appends.
LEMMA TailRows ==
  ASSUME IsTable(rows), NEW l \in Nat, NEW k \in Nat, l < k, 0..(k - 1) \subseteq DOMAIN rows,
         NEW n \in Nat, NEW u, u = Partial!Renumber(Partial!Part(rows, (l + 1)..(k - 1)), n)
  PROVE  /\ DOMAIN u = n..(n + k - l - 2)
         /\ \A i \in DOMAIN u : l + 1 + i - n \in (l + 1)..(k - 1) /\ u[i] = rows[l + 1 + i - n]
<1> DEFINE tail == Partial!Part(rows, (l + 1)..(k - 1))
<1>1. DOMAIN rows \cap (l + 1)..(k - 1) = (l + 1)..(k - 1)
  OBVIOUS
<1>2. IsTable(tail) /\ DOMAIN tail = (l + 1)..(k - 1) /\ \A i \in DOMAIN tail : tail[i] = rows[i]
  BY <1>1, PartIsTable
<1>3. u = Partial!Renumber(tail, n)
  OBVIOUS
<1> HIDE DEF tail
<1>4. /\ Cardinality(DOMAIN tail) = k - (l + 1)
      /\ \A i \in n..(n + k - (l + 1) - 1) : u[i] = tail[(l + 1) + i - n]
  <2>1. l + 1 \in Nat /\ l + 1 <= k
    OBVIOUS
  <2> QED
    BY <1>2, <1>3, <2>1, RenumberShifts
<1>5. DOMAIN u = n..(n + Cardinality(DOMAIN tail) - 1)
  BY <1>2, <1>3, RenumberIsTable
<1>6. DOMAIN u = n..(n + k - l - 2)
  BY <1>4, <1>5
<1>7. ASSUME NEW i \in DOMAIN u
      PROVE  l + 1 + i - n \in (l + 1)..(k - 1) /\ u[i] = rows[l + 1 + i - n]
  <2>1. i \in n..(n + k - (l + 1) - 1) /\ (l + 1) + i - n \in DOMAIN tail
    BY <1>2, <1>6
  <2> QED
    BY <1>2, <1>4, <2>1
<1> QED
  BY <1>6, <1>7

\* A row behind the range does not end before it.
LEMMA TailIsBehind ==
  ASSUME IsTable(rows), Cover(rows), NEW p \in DOMAIN rows, NEW l \in DOMAIN rows, p <= l,
         NEW j \in DOMAIN rows, l < j
  PROVE  rows[j].s > rows[l].e /\ ~ (rows[j].e < rows[p].s)
<1>1. \A i \in DOMAIN rows : /\ i \in Nat /\ rows[i].s \in Nat /\ rows[i].e \in Nat
                             /\ rows[i].s <= rows[i].e
  BY DEF IsTable, Cell, Ordinal, Cover, Linked
<1>2. \A x, y \in DOMAIN rows : x < y => rows[x].e < rows[y].s
  BY CoverOrder
<1> QED
  BY <1>1, <1>2

LEMMA MergeKeeps ==
  ASSUME PTypeInv, PHistInv, KeepInv, RebuildsInTurn, NEW r \in Partial!Run, Partial!Merge(r)
  PROVE  KeepInv'
<1> DEFINE x == rebuild[r]
           M == Partial!Merged(r)
<1>1. x.pc = "passing" /\ rows' = rows /\ range' = range
  BY DEF Partial!Merge, Partial!At
<1>2. WorkOK(r) /\ KeepOK(r) /\ IsTable(rows) /\ Cover(rows) /\ x.cand \in Table
  BY <1>1, TableIsTable DEF KeepInv, PHistInv, WorkInv, WorkingPc, PTypeInv, RebuildType
<1>3. IsNumbered(x.cand) /\ Prefix(staging, x.cand)
  BY <1>1, <1>2 DEF WorkOK
<1>4. CASE Partial!Goto(r, "ending") /\ staging' = staging
  <2>1. \A q \in Partial!Run : KStays(q)
    BY <1>4, GotoSame, KLeaves DEF WorkingPc
  <2>2. Prefix(rows, rows') /\ IsTable(staging')
    BY <1>1, <1>4, TableIsTable DEF Prefix, PTypeInv
  <2> QED
    BY <1>1, <1>4, <2>1, <2>2, KeepKept
<1>5. CASE /\ Partial!CoversRange(Partial!Built(r), x.snap.range)
           /\ Partial!Save(M)
           /\ Partial!Goto(r, "promoting")
  <2>1. /\ M \in Table /\ Prefix(x.cand, M)
        /\ M = Overwrite(x.cand, Partial!Renumber(x.snap.tail, Cardinality(DOMAIN x.cand)))
    BY <1>3, MergedNumbered
  <2>2. staging' = M
    BY <1>3, <1>5, <2>1, PrefixTrans, SaveLeaves
  <2>3. PICK p, l, k \in Nat : SnapOf(x.snap, p, l, k)
    BY <1>2 DEF KeepOK
  <2>4. Keeps(M, x.snap.range.s)
    <3> DEFINE n == Cardinality(DOMAIN x.cand)
               u == Partial!Renumber(x.snap.tail, n)
    <3>1. n \in Nat
      BY <1>2, RowsAreFinite, TableIsTable
    <3>2. \A i \in DOMAIN u : l + 1 + i - n \in (l + 1)..(k - 1) /\ u[i] = rows[l + 1 + i - n]
      BY <1>2, <2>3, <3>1, TailRows DEF SnapOf
    <3>3. p \in DOMAIN rows /\ l \in DOMAIN rows /\ x.snap.range.s = rows[p].s
          /\ (l + 1)..(k - 1) \subseteq DOMAIN rows /\ p <= l
      BY <2>3 DEF SnapOf
    <3> HIDE DEF u, n, M, x
    <3>4. ASSUME NEW i \in DOMAIN M, M[i].e < x.snap.range.s
          PROVE  i \in DOMAIN rows /\ M[i] = rows[i]
      <4>1. i \notin DOMAIN u
        <5> SUFFICES ASSUME i \in DOMAIN u PROVE FALSE
          OBVIOUS
        <5>1. M[i] = u[i]
          BY <2>1 DEF Overwrite, u, n
        <5> DEFINE j == l + 1 + i - n
        <5>2. j \in DOMAIN rows /\ l < j /\ M[i] = rows[j]
          BY <3>2, <3>3, <5>1
        <5> HIDE DEF j
        <5> QED
          BY <1>2, <3>3, <3>4, <5>2, TailIsBehind
      <4>2. i \in DOMAIN x.cand /\ M[i] = x.cand[i]
        BY <2>1, <4>1 DEF Overwrite, u, n
      <4> QED
        BY <1>2, <3>4, <4>2 DEF KeepOK, Keeps, x
    <3> QED
      BY <3>4 DEF Keeps
  <2>5. range \in {x.snap.range, Partial!NoRange}
    BY <1>1, <1>2 DEF KeepOK, UnderWay
  <2>6. Keeps(staging, range.s)'
    <3>1. CASE range = x.snap.range
      BY <1>1, <2>2, <2>4, <3>1 DEF Keeps
    <3>2. CASE range = Partial!NoRange
      <4>1. \A i \in DOMAIN M : ~ (M[i].e < 0)
        BY <2>1, TableIsTable DEF IsTable, Cell, Ordinal
      <4> QED
        BY <1>1, <2>2, <3>2, <4>1 DEF Keeps, Partial!NoRange
    <3> QED
      BY <2>5, <3>1, <3>2
  <2>7. rebuild'[r].pc = "promoting" /\ Same(r) /\ \A q \in Partial!Run \ {r} : rebuild'[q] = rebuild[q]
    BY <1>1, <1>5, GotoSame DEF WorkingPc
  <2>8. KeepOK(r)'
    <3>1. SnapOf(rebuild[r].snap, p, l, k)'
      BY <1>1, <2>3, <2>7 DEF SnapOf, Same
    <3>2. Keeps(rebuild[r].cand, rebuild[r].snap.range.s)'
      BY <1>1, <1>2, <2>7 DEF KeepOK, Keeps, Same
    <3>3. Partial!Merged(r)' = M /\ Partial!Built(r)' = Partial!Built(r)
      BY <2>7 DEF Partial!Merged, Partial!Built, Same
    <3>4. Partial!CoversRange(Partial!Built(r)', rebuild'[r].snap.range)
      BY <1>5, <2>7, <3>3 DEF Same
    <3>5. MergedIs(r)'
      BY <2>2, <3>3, <3>4 DEF MergedIs
    <3> QED
      BY <1>2, <2>7, <3>1, <3>2, <3>5 DEF KeepOK, FromScratch, UnderWay, Same
  <2> QED
    BY <1>1, <2>6, <2>7, <2>8, KeepBy DEF WorkingPc
<1> QED
  BY <1>4, <1>5 DEF Partial!Merge

LEMMA PromoteKeeps ==
  ASSUME PTypeInv, KeepInv, RebuildsInTurn, NEW r \in Partial!Run, Partial!Promote(r)
  PROVE  KeepInv'
<1>1. rebuild[r].pc = "promoting"
  BY DEF Partial!Promote, Partial!At
<1>2. PICK pc \in {"clearing", "ending"} : Partial!Goto(r, pc)
  BY DEF Partial!Promote
<1>3. rebuild'[r].pc \notin WorkingPc /\ \A q \in Partial!Run \ {r} : rebuild'[q] = rebuild[q]
  BY <1>2, GotoSame DEF WorkingPc
<1>4. CASE staging' = NoRows
  <2>1. Keeps(staging, range.s)'
    BY <1>4, NoRowsIsTable DEF Keeps
  <2> QED
    BY <1>1, <1>3, <2>1, KeepBy DEF WorkingPc
<1>5. CASE rows' = rows /\ staging' = staging
  <2>1. Prefix(rows, rows') /\ IsTable(staging') /\ range' = range
    BY <1>5, TableIsTable DEF Prefix, PTypeInv, Partial!Promote
  <2> QED
    BY <1>3, <1>5, <2>1, KLeaves, KeepKept
<1> QED
  BY <1>4, <1>5, PartialTables DEF Partial!Promote

\* The steps that leave a run's rows in its hands alone, or put them down.
LEMMA QuietKeeps ==
  ASSUME PTypeInv, PTypeInv', PHistInv, KeepInv, NEW r \in Partial!Run,
         \/ Partial!Start(r) \/ Partial!NothingToRebuild(r) \/ Partial!Refuse(r)
         \/ Partial!Resume(r) \/ Partial!ClearRange(r) \/ Partial!Fails(r)
         \/ Partial!End(r) \/ Partial!Crash(r)
  PROVE  KeepInv'
<1>1. /\ rows' = rows /\ staging' \in {staging, NoRows}
      /\ range' \in {range, Partial!NoRange}
  BY PartialTables DEF Partial!Start, Partial!NothingToRebuild, Partial!Refuse, Partial!Resume,
     Partial!ClearRange, Partial!Fails, Partial!End, Partial!Crash, Partial!Clear
<1>2. Prefix(rows, rows') /\ IsTable(staging')
  BY <1>1, TableIsTable DEF Prefix, PTypeInv
<1>3. CASE Partial!Resume(r)
  <2>1. Partial!Goto(r, "passing") /\ UnderWay(r)
    BY <1>3 DEF Partial!Resume, Partial!At, UnderWay
  <2>2. rebuild[r].pc \in WorkingPc
    BY <2>1 DEF UnderWay, WorkingPc
  <2>3. rebuild'[r].pc = "passing" /\ Same(r) /\ \A q \in Partial!Run \ {r} : rebuild'[q] = rebuild[q]
    BY <2>1, <2>2, GotoSame
  <2>4. KStays(r)
    BY <2>1, <2>3 DEF KStays, FromScratch
  <2>5. \A q \in Partial!Run : KStays(q)
    BY <2>3, <2>4, KUnmoved
  <2> QED
    BY <1>1, <1>2, <2>5, KeepKept
<1>4. CASE /\ rebuild'[r].pc \notin WorkingPc
           /\ \A q \in Partial!Run \ {r} : rebuild'[q] = rebuild[q]
  BY <1>1, <1>2, <1>4, KLeaves, KeepKept
<1>5. CASE Partial!End(r) \/ Partial!Crash(r)
  <2>1. rebuild' = [rebuild EXCEPT ![r] = Partial!IdleRun]
    BY <1>5 DEF Partial!End, Partial!Crash
  <2>2. Partial!IdleRun.pc \notin WorkingPc
    BY DEF Partial!IdleRun, Partial!RunAt, WorkingPc
  <2> QED
    BY <1>4, <2>1, <2>2 DEF PTypeInv
<1>6. CASE \E pc \in {"started", "ending", "refused"} : Partial!Goto(r, pc)
  BY <1>4, <1>6, GotoSame DEF WorkingPc
<1> QED
  BY <1>3, <1>5, <1>6 DEF Partial!Start, Partial!NothingToRebuild, Partial!Refuse, Partial!ClearRange,
     Partial!Fails

LEMMA PStepKeep ==
  PTypeInv /\ PTypeInv' /\ PHistInv /\ KeepInv /\ RebuildsInTurn /\ NoFullRebuild
    /\ [Partial!Next]_(Partial!vars) => KeepInv'
<1> SUFFICES ASSUME PTypeInv, PTypeInv', PHistInv, KeepInv, RebuildsInTurn, NoFullRebuild,
                    [Partial!Next]_(Partial!vars)
             PROVE  KeepInv'
  OBVIOUS
<1>1. CASE Partial!Append \/ Partial!Discard \/ Partial!Expire \/ UNCHANGED Partial!vars
  <2>1. /\ rebuild' = rebuild /\ staging' \in {staging, NoRows}
        /\ range' \in {range, Partial!NoRange}
    BY <1>1, PartialTables DEF Partial!Append, Partial!Discard, Partial!Clear, Partial!Expire, Partial!vars
  <2>2. Prefix(rows, rows')
    <3>1. CASE Partial!Append
      <4>1. PICK b : \E block \in Splits(NextSeq(rows), NextOrdinal(rows), b) :
                       rows' = Overwrite(rows, block)
        BY <3>1, AppendGrows DEF Grown
      <4> QED
        BY <4>1, CoverGrows, TableIsTable DEF Prefix, PTypeInv, PHistInv
    <3>2. CASE rows' = rows
      BY <3>2 DEF Prefix
    <3> QED
      BY <1>1, <3>1, <3>2 DEF Partial!Discard, Partial!Clear, Partial!Expire, Partial!vars
  <2>3. IsTable(staging')
    BY TableIsTable DEF PTypeInv
  <2>4. \A q \in Partial!Run : KStays(q)
    BY <2>1, KUnmoved
  <2> QED
    BY <2>1, <2>2, <2>3, <2>4, KeepKept
<1>2. ASSUME NEW r \in Partial!Run, Partial!FullStep(r) PROVE FALSE
  <2>1. CASE r \in FullRun
    BY <1>2, <2>1 DEF NoFullRebuild, Partial!FullStep, Partial!ReadStaging, Partial!FullLoopEnds,
       Partial!SaveCandidates, Partial!At
  <2>2. CASE Partial!SaveCandidates(r)
    <3>1. rebuild[r].pc = "saving"
      BY <2>2 DEF Partial!SaveCandidates, Partial!At
    <3> QED
      BY <3>1 DEF KeepInv, KeepOK, WorkingPc
  <2> QED
    BY <1>2, <2>1, <2>2 DEF Partial!FullStep, Partial!ReadStaging, Partial!FullLoopEnds
<1>3. ASSUME NEW r \in Partial!Run, Partial!PartialStep(r) PROVE KeepInv'
  BY <1>3, QuietKeeps, ReadRangeKeeps, SetRangeKeeps, MergeKeeps DEF Partial!PartialStep, PHistInv
<1>4. ASSUME NEW r \in Partial!Run,
             \/ Partial!Start(r) \/ Partial!RebuildPass(r) \/ Partial!Promote(r)
             \/ Partial!Fails(r) \/ Partial!End(r) \/ Partial!Crash(r)
      PROVE  KeepInv'
  BY <1>4, QuietKeeps, RebuildPassKeeps, PromoteKeeps DEF PHistInv
<1> QED
  BY <1>1, <1>2, <1>3, <1>4 DEF Partial!Next

LEMMA PInitKeep == Partial!Init => KeepInv
<1> SUFFICES ASSUME Partial!Init PROVE KeepInv
  OBVIOUS
<1>1. staging = NoRows
  BY PartialTables DEF Partial!Init
<1>2. \A r \in Partial!Run : rebuild[r].pc \notin WorkingPc
  BY DEF Partial!Init, Partial!IdleRun, Partial!RunAt, WorkingPc
<1> QED
  BY <1>1, <1>2, NoRowsIsTable DEF KeepInv, Keeps

LEMMA AlwaysKeep ==
  Partial!Spec /\ []RebuildsInTurn /\ []NoFullRebuild => [](PTypeInv /\ PHistInv /\ KeepInv)
  BY AlwaysPTypeInv, AlwaysPHistInv, PInitKeep, PStepKeep, PTL DEF Partial!Spec

\* What a merged table consists of: the rows before the range, the rows built
\* for the range, up to n, and the rows behind it that the run has seen.
MergedOf(p, l, k, n) ==
  /\ p < n /\ DOMAIN staging = 0..(n + k - l - 2)
  /\ \A i \in 0..(p - 1) : staging[i] = rows[i]
  /\ \A i \in p..(n - 1) : staging[i].s >= rows[p].s /\ staging[i].e <= rows[l].e
  /\ \A i \in n..(n + k - l - 2) :
       l + 1 + i - n \in (l + 1)..(k - 1) /\ staging[i] = rows[l + 1 + i - n]

LEMMA MergedRows ==
  ASSUME PTypeInv, Cover(rows), NEW r \in Partial!Run, WorkOK(r), KeepOK(r), MergedIs(r),
         Cover(staging), NEW p \in Nat, NEW l \in Nat, NEW k \in Nat, SnapOf(rebuild[r].snap, p, l, k)
  PROVE  \E n \in Nat : MergedOf(p, l, k, n)
<1> DEFINE c == rebuild[r].cand
           snap == rebuild[r].snap
           n == Cardinality(DOMAIN c)
           u == Partial!Renumber(snap.tail, n)
           built == Partial!Built(r)
<1>1. IsTable(rows) /\ IsTable(staging) /\ IsTable(c)
  BY TableIsTable DEF PTypeInv, RebuildType
<1>2. IsNumbered(c)
  BY DEF WorkOK
<1>3. /\ Prefix(c, staging) /\ staging = Overwrite(c, u)
      /\ Partial!CoversRange(built, snap.range)
  BY <1>2, MergedNumbered DEF MergedIs
<1>4. n \in Nat /\ DOMAIN c = 0..(n - 1)
  BY <1>2, NumberedCount DEF IsNumbered, Numbered
<1>5. /\ p <= l /\ l < k /\ 0..(k - 1) \subseteq DOMAIN rows
      /\ snap.range.s = rows[p].s /\ snap.range.e = rows[l].e
      /\ snap.prior = Partial!Part(rows, 0..(p - 1))
      /\ snap.tail = Partial!Part(rows, (l + 1)..(k - 1))
  BY DEF SnapOf
<1>6. /\ DOMAIN u = n..(n + k - l - 2)
      /\ \A i \in DOMAIN u : l + 1 + i - n \in (l + 1)..(k - 1) /\ u[i] = rows[l + 1 + i - n]
  <2>1. u = Partial!Renumber(Partial!Part(rows, (l + 1)..(k - 1)), n)
    BY <1>5, Zenon
  <2>2. l < k /\ 0..(k - 1) \subseteq DOMAIN rows
    BY <1>5
  <2> HIDE DEF u, n
  <2> QED
    BY <1>1, <1>4, <2>1, <2>2, TailRows
<1>7. Partial!Cardinality(DOMAIN snap.prior) = p
  <2>1. DOMAIN rows \cap 0..(p - 1) = 0..(p - 1)
    BY <1>5
  <2>2. DOMAIN snap.prior = 0..(p - 1)
    BY <1>1, <1>5, <2>1, PartIsTable
  <2> QED
    BY <2>2, NumberedCount, PartialCardinality DEF Numbered
<1>8. /\ IsTable(built) /\ DOMAIN built = DOMAIN c \cap {i \in Nat : i >= p}
      /\ \A i \in DOMAIN built : built[i] = c[i]
  <2> DEFINE I == {i \in Nat : i >= p}
  <2>1. built = Partial!Part(c, I)
    BY <1>7 DEF Partial!Built
  <2> HIDE DEF built, c, I
  <2>2. /\ IsTable(Partial!Part(c, I)) /\ DOMAIN Partial!Part(c, I) = DOMAIN c \cap I
        /\ \A i \in DOMAIN c \cap I : Partial!Part(c, I)[i] = c[i]
    <3>1. IsTable(c)
      BY <1>1
    <3> QED
      BY <3>1, PartIsTable
  <2> QED
    BY <2>1, <2>2 DEF I
<1>9. Keeps(c, snap.range.s)
  BY DEF KeepOK
<1> HIDE DEF c, snap, n, u, built
<1>10. DOMAIN built # {}
  BY <1>3 DEF Partial!CoversRange
<1>11. p < n /\ DOMAIN built = p..(n - 1)
  BY <1>4, <1>8, <1>10
<1>12. staging[p].s = rows[p].s
  <2>1. p \in DOMAIN built /\ \A j \in DOMAIN built : p <= j
    BY <1>11, <1>4
  <2>2. built[p].s = snap.range.s
    BY <1>3, <2>1 DEF Partial!CoversRange
  <2>3. built[p] = c[p] /\ staging[p] = c[p]
    BY <1>3, <1>8, <2>1 DEF Prefix
  <2> QED
    BY <1>5, <2>2, <2>3
<1>13. staging[n - 1].e = rows[l].e
  <2>1. n - 1 \in DOMAIN built /\ \A j \in DOMAIN built : j <= n - 1
    BY <1>11, <1>4
  <2>2. LastSeq(built) = n - 1
    BY <1>8, <2>1, LastSeqUnique
  <2>3. NextOrdinal(built) = built[n - 1].e + 1
    BY <1>10, <2>2 DEF NextOrdinal
  <2>4. NextOrdinal(built) - 1 = snap.range.e
    BY <1>3, PartialTables DEF Partial!CoversRange, Partial!LastStaged
  <2>5. built[n - 1].e \in Nat
    BY <1>8, <2>1 DEF IsTable, Cell, Ordinal
  <2>6. built[n - 1] = c[n - 1] /\ staging[n - 1] = c[n - 1]
    BY <1>3, <1>8, <2>1 DEF Prefix
  <2>7. built[n - 1].e = snap.range.e
    BY <2>3, <2>4, <2>5
  <2> QED
    BY <1>5, <2>6, <2>7
<1>14. DOMAIN staging = 0..(n + k - l - 2)
  <2>1. DOMAIN staging = 0..(n - 1) \cup n..(n + k - l - 2)
    BY <1>3, <1>4, <1>6 DEF Overwrite
  <2> QED
    BY <1>4, <1>5, <2>1
<1>15. /\ \A i \in DOMAIN staging : /\ staging[i].s \in Nat /\ staging[i].e \in Nat
                                    /\ staging[i].s <= staging[i].e
       /\ \A i, j \in DOMAIN staging : i < j => staging[i].e < staging[j].s
  BY <1>1, CoverOrder DEF Cover, Linked, IsTable, Cell, Ordinal
<1>16. p \in DOMAIN staging /\ n - 1 \in DOMAIN staging /\ 0..(n - 1) \subseteq DOMAIN staging
  BY <1>4, <1>5, <1>11, <1>14
<1>17. ASSUME NEW i \in 0..(p - 1) PROVE staging[i] = rows[i]
  <2>1. i \in DOMAIN c /\ i \in DOMAIN staging /\ i < p
    BY <1>4, <1>11, <1>16
  <2>2. staging[i] = c[i]
    BY <1>3, <2>1 DEF Prefix
  <2>3. staging[i].e < snap.range.s
    BY <1>5, <1>12, <1>15, <1>16, <2>1
  <2> QED
    BY <1>9, <2>1, <2>2, <2>3 DEF Keeps
<1>18. ASSUME NEW i \in p..(n - 1)
       PROVE  staging[i].s >= rows[p].s /\ staging[i].e <= rows[l].e
  <2>1. i \in DOMAIN staging /\ (i = p \/ p < i) /\ (i = n - 1 \/ i < n - 1)
    BY <1>4, <1>11, <1>16
  <2>2. staging[i].s >= staging[p].s
    BY <1>15, <1>16, <2>1
  <2>3. staging[i].e <= staging[n - 1].e
    BY <1>15, <1>16, <2>1
  <2> QED
    BY <1>12, <1>13, <2>2, <2>3
<1>19. ASSUME NEW i \in n..(n + k - l - 2)
       PROVE  l + 1 + i - n \in (l + 1)..(k - 1) /\ staging[i] = rows[l + 1 + i - n]
  BY <1>3, <1>6 DEF Overwrite
<1>20. MergedOf(p, l, k, n)
  BY <1>11, <1>14, <1>17, <1>18, <1>19 DEF MergedOf
<1> QED
  BY <1>4, <1>20

\* The last message a run has seen a compartment of.
LEMMA SeenIs ==
  ASSUME PTypeInv, Cover(rows), NEW r \in Partial!Run, NEW p \in Nat, NEW l \in Nat, NEW k \in Nat,
         SnapOf(rebuild[r].snap, p, l, k)
  PROVE  Partial!Seen(r) = rows[k - 1].e
<1> DEFINE tail == rebuild[r].snap.tail
<1>1. IsTable(rows)
  BY TableIsTable DEF PTypeInv
<1>2. /\ l < k /\ 0..(k - 1) \subseteq DOMAIN rows /\ rebuild[r].snap.range.e = rows[l].e
      /\ tail = Partial!Part(rows, (l + 1)..(k - 1))
  BY DEF SnapOf
<1>3. DOMAIN rows \cap (l + 1)..(k - 1) = (l + 1)..(k - 1)
  BY <1>2
<1>4. DOMAIN tail = (l + 1)..(k - 1) /\ \A i \in DOMAIN tail : tail[i] = rows[i]
  <2>1. LET t == Partial!Part(rows, (l + 1)..(k - 1))
        IN DOMAIN t = (l + 1)..(k - 1) /\ \A i \in DOMAIN t : t[i] = rows[i]
    BY <1>1, <1>3, PartIsTable
  <2> HIDE DEF tail
  <2> QED
    BY <1>2, <2>1
<1>5. Partial!Seen(r) = IF tail = NoRows THEN rows[l].e ELSE LastEnd(tail)
  BY <1>2, PartialTables DEF Partial!Seen
<1>6. CASE tail = NoRows
  <2>1. (l + 1)..(k - 1) = {}
    BY <1>4, <1>6, NoRowsIsTable
  <2>2. l = k - 1
    <3>1. ~ (l + 1 <= k - 1)
      BY <2>1
    <3> QED
      BY <1>2, <3>1
  <2> QED
    BY <1>5, <1>6, <2>2
<1>7. CASE tail # NoRows
  <2>1. DOMAIN tail # {}
    <3> SUFFICES ASSUME DOMAIN tail = {} PROVE FALSE
      OBVIOUS
    <3>1. tail = [i \in {} |-> rows[i]]
      BY <1>2, <1>3, <1>4 DEF Partial!Part
    <3>2. tail = NoRows
      BY <3>1 DEF NoRows
    <3> QED
      BY <1>7, <3>2
  <2> HIDE DEF tail
  <2>2. /\ \A i \in DOMAIN rows : /\ i \in Nat /\ rows[i].s \in Nat /\ rows[i].e \in Nat
                                  /\ rows[i].s <= rows[i].e
        /\ \A i, j \in DOMAIN rows : i < j => rows[i].e < rows[j].s
    BY <1>1, CoverOrder DEF Cover, Linked, IsTable, Cell, Ordinal
  <2>3. k - 1 \in DOMAIN tail /\ DOMAIN tail \subseteq DOMAIN rows
    BY <1>2, <1>4, <2>1
  <2>4. \A j \in DOMAIN tail : j <= k - 1
    BY <1>4
  <2>5. ASSUME NEW j \in DOMAIN tail PROVE tail[j].e <= tail[k - 1].e
    <3>1. j \in DOMAIN rows /\ k - 1 \in DOMAIN rows /\ (j = k - 1 \/ j < k - 1)
      BY <2>2, <2>3, <2>4
    <3>2. rows[j].e <= rows[k - 1].e
      BY <2>2, <3>1
    <3> QED
      BY <1>4, <2>3, <3>2
  <2> DEFINE i == CHOOSE i \in DOMAIN tail : \A j \in DOMAIN tail : tail[j].e <= tail[i].e
  <2>6. i \in DOMAIN tail /\ \A j \in DOMAIN tail : tail[j].e <= tail[i].e
    BY <2>3, <2>5
  <2>7. LastEnd(tail) = tail[i].e
    BY <2>1 DEF LastEnd
  <2> HIDE DEF i
  <2>8. tail[i].e = tail[k - 1].e
    BY <1>4, <2>2, <2>3, <2>5, <2>6
  <2> QED
    BY <1>4, <1>5, <1>7, <2>3, <2>7, <2>8
<1> QED
  BY <1>6, <1>7

\* The promotion of a merged table leaves what is outside the range.
LEMMA PromotedOutside ==
  ASSUME PTypeInv, Cover(rows), NEW r \in Partial!Run, WorkOK(r), KeepOK(r), MergedIs(r),
         Cover(staging)
  PROVE  Partial!Outside(staging, r) = {c \in Partial!Outside(rows, r) : c.e <= Partial!Seen(r)}
<1>1. PICK p, l, k \in Nat : SnapOf(rebuild[r].snap, p, l, k)
  BY DEF KeepOK
<1>0. PICK n \in Nat : MergedOf(p, l, k, n)
  BY <1>1, MergedRows
<1>2. /\ p < n /\ DOMAIN staging = 0..(n + k - l - 2)
      /\ \A i \in 0..(p - 1) : staging[i] = rows[i]
      /\ \A i \in p..(n - 1) : staging[i].s >= rows[p].s /\ staging[i].e <= rows[l].e
      /\ \A i \in n..(n + k - l - 2) :
           l + 1 + i - n \in (l + 1)..(k - 1) /\ staging[i] = rows[l + 1 + i - n]
  BY <1>0 DEF MergedOf
<1>3. Partial!Seen(r) = rows[k - 1].e
  BY <1>1, SeenIs
<1>4. /\ p <= l /\ l < k /\ 0..(k - 1) \subseteq DOMAIN rows
      /\ rebuild[r].snap.range.s = rows[p].s /\ rebuild[r].snap.range.e = rows[l].e
  BY <1>1 DEF SnapOf
<1>5. /\ \A i \in DOMAIN rows : /\ i \in Nat /\ rows[i].s \in Nat /\ rows[i].e \in Nat
                                /\ rows[i].s <= rows[i].e
      /\ \A i \in DOMAIN staging : /\ staging[i].s \in Nat /\ staging[i].e \in Nat
                                   /\ staging[i].s <= staging[i].e
      /\ \A i, j \in DOMAIN rows : i < j => rows[i].e < rows[j].s
  BY TableIsTable, CoverOrder DEF PTypeInv, Cover, Linked, IsTable, Cell, Ordinal
<1> DEFINE Out(c) == c.e < rows[p].s \/ c.s > rows[l].e
<1>6. /\ Partial!Outside(staging, r) = {c \in Partial!Cells(staging) : Out(c)}
      /\ Partial!Outside(rows, r) = {c \in Partial!Cells(rows) : Out(c)}
  BY <1>4 DEF Partial!Outside
<1>7. p \in DOMAIN rows /\ l \in DOMAIN rows /\ k - 1 \in DOMAIN rows
  BY <1>4
<1>8. ASSUME NEW i \in DOMAIN staging, Out(staging[i])
      PROVE  \E j \in DOMAIN rows : staging[i] = rows[j] /\ rows[j].e <= rows[k - 1].e
  <2>1. i \in 0..(p - 1) \/ i \in p..(n - 1) \/ i \in n..(n + k - l - 2)
    BY <1>2
  <2>2. i \notin p..(n - 1)
    BY <1>2, <1>5, <1>7, <1>8
  <2>3. PICK j \in 0..(k - 1) : staging[i] = rows[j]
    <3>1. CASE i \in 0..(p - 1)
      <4>1. i \in 0..(k - 1)
        BY <1>4, <3>1
      <4> QED
        BY <1>2, <3>1, <4>1
    <3>2. CASE i \in n..(n + k - l - 2)
      <4>1. l + 1 + i - n \in 0..(k - 1)
        BY <1>2, <3>2
      <4> QED
        BY <1>2, <3>2, <4>1
    <3> QED
      BY <2>1, <2>2, <3>1, <3>2
  <2>4. j \in DOMAIN rows /\ (j = k - 1 \/ j < k - 1)
    BY <1>4
  <2>5. rows[j].e <= rows[k - 1].e
    BY <1>5, <1>7, <2>4
  <2> QED
    BY <2>3, <2>4, <2>5
<1>9. ASSUME NEW j \in DOMAIN rows, Out(rows[j]), rows[j].e <= rows[k - 1].e
      PROVE  \E i \in DOMAIN staging : staging[i] = rows[j]
  <2>1. j \in Nat /\ j <= k - 1
    BY <1>5, <1>7, <1>9
  <2>2. j < p \/ l < j
    <3>1. ~ (p < j) \/ rows[p].s <= rows[j].e
      BY <1>5, <1>7
    <3>2. ~ (j < l) \/ rows[j].s <= rows[l].e
      BY <1>5, <1>7
    <3>3. j = p => rows[p].s <= rows[j].e
      BY <1>5, <1>7
    <3>4. j = l => rows[j].s <= rows[l].e
      BY <1>5, <1>7
    <3> QED
      BY <1>5, <1>7, <1>9, <2>1, <3>1, <3>2, <3>3, <3>4
  <2>3. CASE j < p
    <3>1. j \in 0..(p - 1) /\ j \in DOMAIN staging
      BY <1>2, <1>4, <2>1, <2>3
    <3> QED
      BY <1>2, <3>1
  <2>4. CASE l < j
    <3> DEFINE i == n + j - l - 1
    <3>1. i \in n..(n + k - l - 2) /\ i \in DOMAIN staging /\ l + 1 + i - n = j
      BY <1>2, <2>1, <2>4
    <3> HIDE DEF i
    <3> QED
      BY <1>2, <3>1
  <2> QED
    BY <2>2, <2>3, <2>4
<1>10. /\ Partial!Cells(staging) = {staging[i] : i \in DOMAIN staging}
       /\ Partial!Cells(rows) = {rows[i] : i \in DOMAIN rows}
  BY DEF Partial!Cells
<1> HIDE DEF Out
<1>11. ASSUME NEW c \in Partial!Cells(staging), Out(c)
       PROVE  c \in Partial!Cells(rows) /\ c.e <= rows[k - 1].e
  BY <1>8, <1>10, <1>11
<1>12. ASSUME NEW c \in Partial!Cells(rows), Out(c), c.e <= rows[k - 1].e
       PROVE  c \in Partial!Cells(staging)
  BY <1>9, <1>10, <1>12
<1> QED
  BY <1>3, <1>6, <1>11, <1>12

LEMMA PStepOutside ==
  PTypeInv /\ PHistInv /\ KeepInv /\ RebuildsInTurn /\ [Partial!Next]_(Partial!vars)
    => [Partial!OutsideKept]_(Partial!vars)
<1> SUFFICES ASSUME PTypeInv, PHistInv, KeepInv, RebuildsInTurn, Partial!Next,
                    NEW r \in PartialRun, Partial!At(r, "promoting"), rows' # rows, staging' # staging
             PROVE  Partial!Outside(rows', r) = {c \in Partial!Outside(rows, r) : c.e <= Partial!Seen(r)}
  BY DEF Partial!OutsideKept, Partial!vars
<1>1. r \in Partial!Run /\ rebuild[r].pc = "promoting" /\ rebuild[r].pc \in WorkingPc
  BY DEF Partial!Run, Partial!At, WorkingPc
<1>2. PICK q \in Partial!Run : Partial!Promote(q)
  <2>1. Partial!Append => staging' = staging
    BY DEF Partial!Append
  <2>2. Partial!Discard \/ Partial!Expire => rows' = rows
    BY DEF Partial!Discard, Partial!Clear, Partial!Expire
  <2>3. \A q \in Partial!Run : Partial!PartialStep(q) \/ Partial!FullStep(q) => rows' = rows
    BY DEF Partial!PartialStep, Partial!NothingToRebuild, Partial!Refuse, Partial!ReadRange,
       Partial!Resume, Partial!Seed, Partial!SetRange, Partial!Merge, Partial!ClearRange,
       Partial!FullStep, Partial!ReadStaging, Partial!FullLoopEnds, Partial!SaveCandidates
  <2>4. \A q \in Partial!Run :
          (\/ Partial!Start(q) \/ Partial!RebuildPass(q) \/ Partial!Fails(q)
           \/ Partial!End(q) \/ Partial!Crash(q)) => rows' = rows
    BY DEF Partial!Start, Partial!RebuildPass, Partial!Fails, Partial!End, Partial!Crash
  <2>5. ~ Partial!Append /\ ~ Partial!Discard /\ ~ Partial!Expire
    BY <2>1, <2>2
  <2>6. PICK q \in Partial!Run :
          \/ Partial!Start(q) \/ Partial!PartialStep(q) \/ Partial!FullStep(q)
          \/ Partial!RebuildPass(q) \/ Partial!Promote(q) \/ Partial!Fails(q)
          \/ Partial!End(q) \/ Partial!Crash(q)
    BY <2>5 DEF Partial!Next
  <2> QED
    BY <2>3, <2>4, <2>6
<1>3. rows' = staging /\ staging # NoRows
  BY <1>2, PartialTables DEF Partial!Promote
<1>4. WorkOK(r) /\ KeepOK(r) /\ Cover(rows) /\ Cover(staging)
  BY <1>1 DEF PHistInv, WorkInv, WorkOK, KeepInv
<1>5. MergedIs(r)
  BY <1>1, <1>3, <1>4 DEF KeepOK
<1>6. Partial!Outside(rows', r) = Partial!Outside(staging, r)
  BY <1>3
<1> QED
  BY <1>1, <1>4, <1>5, <1>6, PromotedOutside

\* When a rebuild of a range goes live, the session keeps every compartment
\* outside the range that the run has seen, and gets no other there: after any
\* number of resumptions, crashes and lost leases, as long as rebuilds of ranges
\* work on the staging table in turn and no full rebuild comes between.
THEOREM OutsideStays ==
  Partial!Spec /\ []RebuildsInTurn /\ []NoFullRebuild => [][Partial!OutsideKept]_(Partial!vars)
  BY AlwaysKeep, PStepOutside, PTL DEF Partial!Spec

\* Who works has the lease, when no run outlives its lease.
HolderWorks == \A r \in Partial!Run : rebuild[r].pc # "idle" => holder = r

LEMMA PStepHeld ==
  ASSUME None \notin PartialRun \cup FullRun, ~ MayLoseLease
  PROVE  PTypeInv /\ HolderWorks /\ [Partial!Next]_(Partial!vars) => HolderWorks'
<1> SUFFICES ASSUME PTypeInv, HolderWorks, [Partial!Next]_(Partial!vars) PROVE HolderWorks'
  OBVIOUS
<1>1. Partial!IdleRun.pc = "idle" /\ None \notin Partial!Run
  BY DEF Partial!IdleRun, Partial!RunAt, Partial!Run
<1>2. ASSUME NEW r \in Partial!Run, Partial!Start(r) PROVE HolderWorks'
  <2>1. holder = None /\ holder' = r /\ \A q \in Partial!Run \ {r} : rebuild'[q] = rebuild[q]
    BY <1>2 DEF Partial!Start, Partial!Goto, PTypeInv
  <2> QED
    BY <1>1, <2>1 DEF HolderWorks
<1>3. ASSUME NEW r \in Partial!Run,
             \/ Partial!PartialStep(r) \/ Partial!FullStep(r) \/ Partial!RebuildPass(r)
             \/ Partial!Promote(r) \/ Partial!Fails(r)
      PROVE  HolderWorks'
  <2>1. rebuild[r].pc # "idle" /\ holder' = holder
    <3>1. CASE Partial!PartialStep(r)
      BY <3>1 DEF Partial!PartialStep, Partial!NothingToRebuild, Partial!Refuse, Partial!ReadRange,
         Partial!Resume, Partial!Seed, Partial!SetRange, Partial!Merge, Partial!ClearRange, Partial!At
    <3>2. CASE Partial!FullStep(r)
      BY <3>2 DEF Partial!FullStep, Partial!ReadStaging, Partial!FullLoopEnds,
         Partial!SaveCandidates, Partial!At
    <3>3. CASE Partial!RebuildPass(r) \/ Partial!Promote(r) \/ Partial!Fails(r)
      BY <3>3 DEF Partial!RebuildPass, Partial!Promote, Partial!Fails, Partial!At
    <3> QED
      BY <1>3, <3>1, <3>2, <3>3
  <2>2. \E x : rebuild' = [rebuild EXCEPT ![r] = x]
    <3>1. CASE Partial!PartialStep(r)
      BY <3>1 DEF Partial!PartialStep, Partial!NothingToRebuild, Partial!Refuse, Partial!ReadRange,
         Partial!Resume, Partial!Seed, Partial!SetRange, Partial!Merge, Partial!ClearRange, Partial!Goto
    <3>2. CASE Partial!FullStep(r)
      <4>1. CASE Partial!ReadStaging(r)
        BY <4>1 DEF Partial!ReadStaging
      <4> QED
        BY <3>2, <4>1 DEF Partial!FullStep, Partial!FullLoopEnds, Partial!SaveCandidates, Partial!Goto
    <3>3. CASE Partial!RebuildPass(r) \/ Partial!Promote(r) \/ Partial!Fails(r)
      BY <3>3 DEF Partial!RebuildPass, Partial!Promote, Partial!Fails, Partial!Goto
    <3> QED
      BY <1>3, <3>1, <3>2, <3>3
  <2>3. \A q \in Partial!Run \ {r} : rebuild'[q] = rebuild[q]
    BY <2>2 DEF PTypeInv
  <2> QED
    BY <2>1, <2>3 DEF HolderWorks
<1>4. ASSUME NEW r \in Partial!Run, Partial!End(r) \/ Partial!Crash(r) PROVE HolderWorks'
  <2>1. /\ rebuild'[r].pc = "idle" /\ \A q \in Partial!Run \ {r} : rebuild'[q] = rebuild[q]
        /\ holder # r => holder' = holder
    BY <1>1, <1>4 DEF Partial!End, Partial!Crash, PTypeInv
  <2> QED
    BY <2>1 DEF HolderWorks
<1>5. CASE Partial!Expire
  <2>1. rebuild' = rebuild /\ holder \in Partial!Run /\ rebuild[holder].pc = "idle"
    BY <1>1, <1>5 DEF Partial!Expire, PTypeInv
  <2> QED
    BY <2>1 DEF HolderWorks
<1>6. CASE Partial!Append \/ Partial!Discard \/ UNCHANGED Partial!vars
  BY <1>6 DEF Partial!Append, Partial!Discard, Partial!vars, HolderWorks
<1> QED
  BY <1>2, <1>3, <1>4, <1>5, <1>6 DEF Partial!Next

LEMMA HeldInTurn == HolderWorks => RebuildsInTurn
  BY DEF HolderWorks, RebuildsInTurn, WorkingPc

\* When no rebuild outlives its lease, whatever crashes, the lease makes them
\* work on the staging table in turn.
THEOREM LeaseTakesTurns ==
  ASSUME None \notin PartialRun \cup FullRun, ~ MayLoseLease
  PROVE  Partial!Spec => []RebuildsInTurn
<1>1. Partial!Init => HolderWorks
  BY DEF Partial!Init, Partial!IdleRun, Partial!RunAt, HolderWorks
<1>2. PTypeInv /\ HolderWorks /\ [Partial!Next]_(Partial!vars) => HolderWorks'
  BY PStepHeld
<1> QED
  BY <1>1, <1>2, AlwaysPTypeInv, HeldInTurn, PTL DEF Partial!Spec
=============================================================================
