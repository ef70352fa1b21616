--------------------------- MODULE DropQueue_proofs ---------------------------
(***************************************************************************)
(* Theorems about DropQueue, for any number of processes, contents and     *)
(* failures: what was once sent in a reduced form is replayed in that form.*)
(*                                                                         *)
(* The invariant ties three things together for every content that is not  *)
(* spoiled: the form it was last sent in, the form it has in each pass     *)
(* under way, and what its row says.  A pass is looked at through the form *)
(* it would send if it ended now (Final).                                  *)
(***************************************************************************)
EXTENDS DropQueue, TLAPS

PassRecord == [pc : {"none", "decide", "apply", "load", "clean", "reclaim", "end"},
               have : SUBSET Tag, not : SUBSET tool, held : SUBSET tool,
               active : SUBSET Tag, ops : SUBSET Tag, form : [Tag -> Form],
               marked : SUBSET tool, kept : SUBSET Tag]

\* The row of t says that it is dropped, and replays it in form f.
Stored(t, f) == status[t] = "dropped" /\ Replayed(t) = f

\* What was sent reduced is stored in that form.
ShownIsStored ==
  \A t \in Tag : shown[t] # "whole" => t \in present /\ (t \in spoiled \/ Stored(t, shown[t]))

\* What a pass is about to send reduced is stored in that form, and what had been sent
\* reduced before it began is sent reduced again.
FormIsStored(P) ==
  /\ P.have \subseteq present \cup hidden /\ P.kept \subseteq P.have
  /\ \A t \in P.have \ (hidden \cup spoiled) :
       /\ Final(P)[t] # "whole" => Stored(t, Final(P)[t])
       /\ t \in P.kept => Final(P)[t] # "whole"

DropInv == TypeOK /\ tool \subseteq Tag /\ ShownIsStored /\ \A p \in Proc : FormIsStored(pass[p])

-----------------------------------------------------------------------------
(* Forms and records.                                                      *)

LEMMA PassTypes ==
  ASSUME DropInv
  PROVE  /\ pass \in [Proc -> PassRecord]
         /\ \A p \in Proc : pass[p] \in PassRecord /\ FormIsStored(pass[p])
         /\ tool \subseteq Tag /\ running \subseteq tool /\ held \subseteq tool
         /\ recent \subseteq tool /\ present \subseteq Tag /\ hidden \subseteq Tag
         /\ queue \subseteq Tag /\ spoiled \subseteq Tag
  BY DEF DropInv, TypeOK, PassRecord

LEMMA NoPassIs ==
  /\ NoPass \in PassRecord
  /\ NoPass.pc = "none" /\ NoPass.marked = {} /\ FormIsStored(NoPass)
<1>1. AllWhole \in [Tag -> Form]
  BY DEF AllWhole, Form
<1> QED
  BY <1>1 DEF NoPass, PassRecord, FormIsStored

LEMMA FinalIs ==
  ASSUME NEW P \in PassRecord, NEW t \in Tag
  PROVE  /\ Final(P)[t] = IF t \in P.marked THEN "full" ELSE P.form[t]
         /\ Final(P)[t] \in Form
  BY DEF Final, PassRecord, Form, Reduced

\* The forms a transaction may give: a text is removed, whole and at once.
Forms == {f \in [Tag -> Reduced] : \A t \in Tag \ tool : f[t] = "full"}

LEMMA FormNowIs ==
  ASSUME DropInv
  PROVE  FormNow \in Forms
  BY PassTypes DEF FormNow, Forms, Reduced

\* What Q is to P when the contents of S have been given the forms f.
Changed(P, S, f, Q) ==
  /\ Q \in PassRecord
  /\ Q.pc = P.pc /\ Q.have = P.have /\ Q.kept = P.kept
  /\ \A t \in Tag \ S : Final(Q)[t] = Final(P)[t]
  /\ \A t \in S : t \notin P.marked => Final(Q)[t] = f[t]
  /\ \A t \in Tag : Final(P)[t] # "whole" => Final(Q)[t] # "whole"

LEMMA ChangeIs ==
  ASSUME NEW P \in PassRecord, NEW S \in SUBSET Tag, NEW f \in [Tag -> Reduced]
  PROVE  Changed(P, S, f, Change(P, S, f))
<1> DEFINE form == [t \in Tag |-> IF t \in S /\ (f[t] # "full" \/ t \notin tool)
                                  THEN f[t] ELSE P.form[t]]
           marked == P.marked \cup {t \in S \cap tool : f[t] = "full"}
           Q == Change(P, S, f)
<1>1. Q = [pc |-> P.pc, have |-> P.have, not |-> P.not, held |-> P.held,
           active |-> P.active, ops |-> P.ops, form |-> form, marked |-> marked,
           kept |-> P.kept]
  <2>1. Q = [P EXCEPT !.form = form, !.marked = marked]
    BY DEF Change
  <2> HIDE DEF form, marked
  <2> QED
    BY <2>1 DEF PassRecord
<1>2. form \in [Tag -> Form] /\ marked \in SUBSET tool
  BY DEF PassRecord, Form
<1> HIDE DEF form, marked, Q
<1>3. Q \in PassRecord
  BY <1>1, <1>2 DEF PassRecord
<1>4. Q.form = form /\ Q.marked = marked
  BY <1>1
<1>5. \A t \in Tag : Final(Q)[t] = IF t \in marked THEN "full" ELSE form[t]
  BY <1>3, <1>4, FinalIs
<1>6. \A t \in Tag \ S : Final(Q)[t] = Final(P)[t] /\ Q.form[t] = P.form[t]
  BY <1>4, <1>5, FinalIs DEF form, marked
<1>7. ASSUME NEW t \in S, t \notin P.marked
      PROVE  Final(Q)[t] = f[t]
  BY <1>5, <1>7 DEF form, marked
<1>8. \A t \in Tag : Final(P)[t] # "whole" => Final(Q)[t] # "whole"
  <2>1. ASSUME NEW t \in P.marked, t \in Tag PROVE Final(Q)[t] = "full"
    BY <1>5, <2>1 DEF marked
  <2>2. \A t \in S : f[t] # "whole"
    BY DEF Reduced
  <2> QED
    BY <1>6, <1>7, <2>1, <2>2
<1> QED
  BY <1>1, <1>3, <1>6, <1>7, <1>8 DEF Changed, Q

LEMMA DroppedIs ==
  ASSUME DropInv, NEW S \in SUBSET Tag, NEW f \in Forms, Dropped(S, f), tool' = tool
  PROVE  /\ status' \in [Tag -> {"active", "dropped", "compacted"}]
         /\ mode' \in [Tag -> Reduced]
         /\ \A t \in S : Stored(t, f[t])'
         /\ \A t \in Tag \ S : \A x : Stored(t, x) => Stored(t, x)'
<1>1. /\ status' \in [Tag -> {"active", "dropped", "compacted"}]
      /\ mode' \in [Tag -> Reduced]
  BY DEF Dropped, Forms, DropInv, TypeOK
<1>2. ASSUME NEW t \in S PROVE Stored(t, f[t])'
  BY <1>2 DEF Dropped, Forms, Stored, Replayed
<1>3. ASSUME NEW t \in Tag \ S, NEW x, Stored(t, x) PROVE Stored(t, x)'
  BY <1>3 DEF Dropped, Stored, Replayed
<1> QED
  BY <1>1, <1>2, <1>3

-----------------------------------------------------------------------------
(* How the invariant is kept.                                              *)

\* One pass goes on, and the table, the session and what was sent stay.
LEMMA PassKeeps ==
  ASSUME DropInv, NEW p \in Proc, NEW P \in PassRecord, Goes(p, P), FormIsStored(P),
         UNCHANGED <<table, host, shown, spoiled>>, failures' \in 0..MaxFailures
  PROVE  DropInv'
<1>1. /\ pass' \in [Proc -> PassRecord] /\ pass'[p] = P
      /\ \A q \in Proc : q # p => pass'[q] = pass[q]
  BY PassTypes DEF Goes
<1>2. TypeOK' /\ (tool \subseteq Tag)'
  BY <1>1 DEF DropInv, TypeOK, PassRecord, table, host, ages
<1>3. ShownIsStored'
  BY DEF DropInv, ShownIsStored, Stored, Replayed, table, host
<1>4. \A q \in Proc : FormIsStored(pass'[q])
  BY <1>1 DEF DropInv
<1>5. \A q \in Proc : FormIsStored(pass[q])'
  BY <1>4 DEF FormIsStored, Stored, Replayed, Final, table, host
<1> QED
  BY <1>2, <1>3, <1>5 DEF DropInv

\* The pass is the same but for its place and for what it has loaded.
LEMMA SameForm ==
  ASSUME DropInv, NEW p \in Proc, NEW P \in PassRecord,
         P.have = pass[p].have, P.kept = pass[p].kept, P.form = pass[p].form,
         P.marked = pass[p].marked
  PROVE  FormIsStored(P)
<1>1. Final(P) = Final(pass[p])
  BY DEF Final
<1> QED
  BY <1>1, PassTypes DEF FormIsStored

\* One transaction drops the contents of S in the forms f.  Whoever has taken up
\* another form of one of them has it spoiled.
LEMMA ReducesKeeps ==
  ASSUME DropInv, NEW p \in Proc, NEW S \in SUBSET Tag, NEW f \in Forms, Dropped(S, f),
         NEW Q \in PassRecord, Goes(p, Q),
         Q.have = pass[p].have, Q.kept = pass[p].kept,
         \A t \in Tag \ S : Final(Q)[t] = Final(pass[p])[t],
         \A t \in S \cap Q.have : t \in hidden \cup spoiled' \/ Final(Q)[t] = f[t],
         \A t \in Tag : Final(pass[p])[t] # "whole" => Final(Q)[t] # "whole",
         \A t \in S \ (hidden \cup spoiled') :
           /\ shown[t] \in {"whole", f[t]}
           /\ \A q \in Proc \ {p} : t \in pass[q].have => Final(pass[q])[t] \in {"whole", f[t]},
         queue' \subseteq queue, spoiled \subseteq spoiled', spoiled' \subseteq Tag,
         UNCHANGED <<host, shown, failures>>
  PROVE  DropInv'
<1>1. /\ pass' \in [Proc -> PassRecord] /\ pass'[p] = Q
      /\ \A q \in Proc : q # p => pass'[q] = pass[q]
  BY PassTypes DEF Goes
<1>2. /\ status' \in [Tag -> {"active", "dropped", "compacted"}]
      /\ mode' \in [Tag -> Reduced]
      /\ \A t \in S : Stored(t, f[t])'
      /\ \A t \in Tag \ S : \A x : Stored(t, x) => Stored(t, x)'
  BY DroppedIs DEF host
<1>3. TypeOK' /\ (tool \subseteq Tag)'
  BY <1>1, <1>2 DEF DropInv, TypeOK, PassRecord, host, ages
<1>4. ShownIsStored'
  <2> SUFFICES ASSUME NEW t \in Tag, shown[t] # "whole"
               PROVE  t \in present /\ (t \in spoiled' \/ Stored(t, shown[t])')
    BY DEF ShownIsStored, host, Stored, Replayed
  <2>1. t \in present /\ (t \in spoiled \/ Stored(t, shown[t])) /\ t \notin hidden
    BY DEF DropInv, ShownIsStored, TypeOK
  <2>2. CASE t \in S
    BY <1>2, <2>1, <2>2
  <2>3. CASE t \notin S
    BY <1>2, <2>1, <2>3
  <2> QED
    BY <2>2, <2>3
<1>5. ASSUME NEW q \in Proc PROVE FormIsStored(pass[q])'
  <2> DEFINE P == pass'[q]
  <2>1. /\ P \in PassRecord /\ P.have = pass[q].have /\ P.kept = pass[q].kept
        /\ \A t \in Tag : Final(pass[q])[t] # "whole" => Final(P)[t] # "whole"
        /\ \A t \in Tag \ S : Final(P)[t] = Final(pass[q])[t]
        /\ \A t \in (S \cap P.have) \ (hidden \cup spoiled') : Final(P)[t] \in {"whole", f[t]}
    BY <1>1
  <2>2. FormIsStored(pass[q])
    BY PassTypes
  <2>3. P.have \subseteq present \cup hidden /\ P.kept \subseteq P.have
    BY <2>1, <2>2 DEF FormIsStored
  <2>4. P.have \subseteq Tag
    BY <2>1 DEF PassRecord
  <2>5. ASSUME NEW t \in P.have \ (hidden \cup spoiled')
        PROVE  /\ \A x : x = Final(P)[t] /\ x # "whole" => Stored(t, x)'
               /\ t \in P.kept => Final(P)[t] # "whole"
    <3>0. t \in Tag /\ t \notin spoiled
      BY <2>4, <2>5
    <3>1. /\ Final(pass[q])[t] # "whole" => Stored(t, Final(pass[q])[t])
          /\ t \in P.kept => Final(pass[q])[t] # "whole"
      BY <2>1, <2>2, <2>5, <3>0 DEF FormIsStored
    <3>2. t \in P.kept => Final(P)[t] # "whole"
      BY <2>1, <3>0, <3>1
    <3>3. ASSUME NEW x, x = Final(P)[t], x # "whole" PROVE Stored(t, x)'
      <4>1. CASE t \in S
        <5>1. x = f[t]
          BY <2>1, <2>5, <3>3, <4>1
        <5> QED
          BY <1>2, <4>1, <5>1
      <4>2. CASE t \notin S
        <5>1. x = Final(pass[q])[t]
          BY <2>1, <3>0, <3>3, <4>2
        <5>2. Stored(t, x)
          BY <3>1, <3>3, <5>1
        <5> QED
          BY <1>2, <3>0, <4>2, <5>2
      <4> QED
        BY <4>1, <4>2
    <3> QED
      BY <3>2, <3>3
  <2> QED
    BY <2>3, <2>5 DEF FormIsStored, host, Final, Stored, Replayed
<1> QED
  BY <1>3, <1>4, <1>5 DEF DropInv

-----------------------------------------------------------------------------
(* The actions: the host and what is asked for.                            *)

LEMMA InitDropInv == Init => DropInv
<1> SUFFICES ASSUME Init PROVE DropInv
  OBVIOUS
<1>1. \A p \in Proc : pass[p] \in PassRecord /\ FormIsStored(pass[p])
  BY NoPassIs DEF Init
<1>2. TypeOK
  BY <1>1, DropAssumption DEF Init, TypeOK, PassRecord, AllWhole, Form, Reduced
<1>3. tool \subseteq Tag /\ ShownIsStored
  BY DropAssumption DEF Init, ShownIsStored, AllWhole
<1> QED
  BY <1>1, <1>2, <1>3 DEF DropInv

\* The host and the requests touch no pass, and no row of a content that was sent
\* reduced.
LEMMA OutsideKeeps ==
  ASSUME DropInv, TypeOK', UNCHANGED <<tool, mode, pass, shown, spoiled>>,
         present \subseteq present', hidden' = hidden,
         \A t \in Tag : status[t] = "dropped" => status'[t] = "dropped"
  PROVE  DropInv'
<1>1. \A t \in Tag : \A x : Stored(t, x) => Stored(t, x)'
  BY DEF Stored, Replayed
<1>2. ShownIsStored'
  BY <1>1 DEF DropInv, ShownIsStored
<1>3. ASSUME NEW p \in Proc PROVE FormIsStored(pass[p])'
  <2>1. FormIsStored(pass[p]) /\ pass[p].have \subseteq Tag
    BY PassTypes DEF PassRecord
  <2> QED
    BY <1>1, <2>1 DEF FormIsStored, Final
<1> QED
  BY <1>2, <1>3 DEF DropInv

LEMMA HostKeeps ==
  ASSUME DropInv, Add \/ Completes \/ Displaced \/ Ask \/ AskThrough \/ Flush
  PROVE  DropInv'
<1>1. CASE Add
  <2>1. PICK t \in Tag \ (present \cup hidden) :
          /\ present' = present \cup {t}
          /\ running' = running \cup ({t} \cap tool)
          /\ held' = held \cup ({t} \cap tool) /\ recent' = recent \cup ({t} \cap tool)
    BY <1>1 DEF Add
  <2>2. TypeOK'
    BY <1>1, <2>1 DEF Add, DropInv, TypeOK, table, notes
  <2> QED
    BY <1>1, <2>1, <2>2, OutsideKeeps DEF Add, table, notes
<1>2. CASE Completes \/ Displaced
  <2>1. TypeOK'
    BY <1>2 DEF Completes, Displaced, DropInv, TypeOK, table, ages, notes
  <2> QED
    BY <1>2, <2>1, OutsideKeeps DEF Completes, Displaced, table, ages, notes
<1>3. CASE Ask \/ AskThrough
  <2>1. TypeOK'
    BY <1>3 DEF Ask, AskThrough, Active, DropInv, TypeOK, host, ages, notes
  <2> QED
    BY <1>3, <2>1, OutsideKeeps DEF Ask, AskThrough, host, notes
<1>4. CASE Flush
  <2>1. TypeOK'
    BY <1>4 DEF Flush, DropInv, TypeOK, host, ages, notes
  <2>2. \A t \in Tag : status[t] = "dropped" => status'[t] = "dropped"
    BY <1>4 DEF Flush
  <2> QED
    BY <1>4, <2>1, <2>2, OutsideKeeps DEF Flush, host, notes
<1> QED
  BY <1>1, <1>2, <1>3, <1>4

\* Once the host has compacted the session nothing that was sent is in it.
LEMMA CompactKeeps ==
  ASSUME DropInv, Compact
  PROVE  DropInv'
<1>1. TypeOK'
  BY DEF Compact, AllWhole, Form, DropInv, TypeOK, ages
<1>2. ShownIsStored'
  BY DEF Compact, AllWhole, ShownIsStored
<1>3. \A p \in Proc : FormIsStored(pass[p])'
  BY PassTypes DEF Compact, FormIsStored, ages
<1> QED
  BY <1>1, <1>2, <1>3 DEF DropInv, Compact

-----------------------------------------------------------------------------
(* The actions: a pass.                                                    *)

LEMMA LoadedIs ==
  ASSUME DropInv, NEW have, have \subseteq present
  PROVE  /\ Loaded(have) \in PassRecord
         /\ Loaded(have).pc = "decide" /\ Loaded(have).have = have
         /\ Loaded(have).kept = {t \in have : shown[t] # "whole"}
         /\ Loaded(have).form = AllWhole /\ Loaded(have).marked = {}
<1> DEFINE active == Active \cap have
           kept == {t \in have : shown[t] # "whole"}
           P == [NoPass EXCEPT !.pc = "decide", !.have = have, !.not = running,
                               !.active = active, !.kept = kept]
<1>1. Loaded(have) = P
  BY DEF Loaded
<1>2. have \subseteq Tag /\ active \subseteq Tag /\ kept \subseteq Tag /\ running \subseteq tool
  BY PassTypes
<1> HIDE DEF active, kept
<1>3. /\ P \in PassRecord /\ P.pc = "decide" /\ P.have = have /\ P.kept = kept
      /\ P.form = AllWhole /\ P.marked = {}
  BY <1>2, NoPassIs DEF NoPass, PassRecord
<1> QED
  BY <1>1, <1>3 DEF kept

\* What is replayed is shown as it is stored, and everything that was sent reduced is
\* dropped.
LEMMA ReplayedIs ==
  ASSUME DropInv, NEW have, have \subseteq present
  PROVE  /\ Flushed(have) \subseteq Tag
         /\ \A t \in Tag : Replayed(t) \in Reduced
         /\ \A t \in Flushed(have) : Stored(t, Replayed(t))
         /\ \A t \in have \ spoiled : shown[t] # "whole" => t \in Flushed(have)
<1>1. Flushed(have) \subseteq Tag /\ \A t \in Flushed(have) : Stored(t, Replayed(t))
  BY PassTypes DEF Flushed, Stored
<1>2. \A t \in Tag : Replayed(t) \in Reduced
  BY DEF DropInv, TypeOK, Replayed, Reduced
<1>3. \A t \in have \ spoiled : shown[t] # "whole" => t \in Flushed(have)
  BY PassTypes DEF DropInv, ShownIsStored, Stored, Flushed
<1> QED
  BY <1>1, <1>2, <1>3

\* A pass that shows what it has in the stored forms keeps the invariant.
LEMMA ReplayKeeps ==
  ASSUME DropInv, NEW p \in Proc, NEW P \in PassRecord, Goes(p, P),
         P.have \subseteq present, P.kept = {t \in P.have : shown[t] # "whole"},
         \A t \in Tag : Final(P)[t] = IF t \in Flushed(P.have) THEN Replayed(t) ELSE "whole",
         UNCHANGED <<table, host, shown, spoiled>>, failures' \in 0..MaxFailures
  PROVE  DropInv'
<1>1. /\ \A t \in Tag : Replayed(t) # "whole"
      /\ \A t \in Flushed(P.have) : Stored(t, Replayed(t))
      /\ \A t \in P.have \ spoiled : shown[t] # "whole" => t \in Flushed(P.have)
  BY ReplayedIs DEF Reduced
<1>2. P.have \subseteq Tag
  BY DEF PassRecord
<1>3. FormIsStored(P)
  BY <1>1, <1>2 DEF FormIsStored
<1> QED
  BY <1>3, PassKeeps

LEMMA BeginKeeps ==
  ASSUME DropInv, NEW p \in Proc, Begin(p)
  PROVE  DropInv'
<1> DEFINE have == present \ running
           L == Loaded(have)
           form == [t \in Tag |-> IF t \in Flushed(have) THEN Replayed(t) ELSE "whole"]
           P == [L EXCEPT !.form = form]
<1>1. Goes(p, P)
  BY Zenon DEF Begin
<1>2. /\ L \in PassRecord /\ L.have = have /\ L.marked = {}
      /\ L.kept = {t \in have : shown[t] # "whole"}
  BY LoadedIs
<1>3. form \in [Tag -> Form]
  BY ReplayedIs DEF Form
<1> HIDE DEF L, form, have
<1>4. /\ P \in PassRecord /\ P.have = have /\ P.kept = L.kept /\ P.form = form
      /\ P.marked = {}
  BY <1>2, <1>3 DEF PassRecord
<1> HIDE DEF P
<1>5. \A t \in Tag : Final(P)[t] = form[t]
  BY <1>4, FinalIs
<1>6. UNCHANGED <<table, host, shown, spoiled>> /\ failures' \in 0..MaxFailures
  BY DEF Begin, notes, DropInv, TypeOK
<1> QED
  BY <1>1, <1>2, <1>4, <1>5, <1>6, ReplayKeeps DEF form, have

\* What a replay that throws has come to is shown, or marked, in the stored form; the
\* rest is none of the pass's.
LEMMA ReplayFailsKeeps ==
  ASSUME DropInv, NEW p \in Proc, ReplayFails(p)
  PROVE  DropInv' /\ pass'[p].pc = "decide"
<1> DEFINE all == present \ running
<1>1. PICK S \in SUBSET Flushed(all) :
        Goes(p, Change(Loaded(all \ S), Flushed(all \ S), [t \in Tag |-> Replayed(t)]))
  BY Zenon DEF ReplayFails
<1> DEFINE have == all \ S
           L == Loaded(have)
           F == Flushed(have)
           f == [t \in Tag |-> Replayed(t)]
           P == Change(L, F, f)
<1>2. /\ L \in PassRecord /\ L.pc = "decide" /\ L.have = have
      /\ L.kept = {t \in have : shown[t] # "whole"}
      /\ L.form = AllWhole /\ L.marked = {}
  BY LoadedIs
<1>3. F \in SUBSET Tag /\ f \in [Tag -> Reduced]
  BY ReplayedIs
<1>4. \A t \in Tag : f[t] = Replayed(t)
  OBVIOUS
<1>5. Goes(p, P)
  BY <1>1
<1>h. have \subseteq present /\ F = Flushed(have)
  OBVIOUS
<1> HIDE DEF have, L, F, f
<1>6. Changed(L, F, f, P)
  BY <1>2, <1>3, ChangeIs
<1> HIDE DEF P
<1>7. P \in PassRecord /\ P.pc = "decide" /\ P.have = have /\ P.kept = L.kept
  BY <1>2, <1>6 DEF Changed
<1>8. \A t \in Tag : Final(L)[t] = "whole"
  BY <1>2, FinalIs DEF AllWhole
<1>9. \A t \in Tag : Final(P)[t] = IF t \in F THEN Replayed(t) ELSE "whole"
  BY <1>2, <1>4, <1>6, <1>8 DEF Changed
<1>10. UNCHANGED <<table, host, shown, spoiled>> /\ failures' \in 0..MaxFailures
  BY DropAssumption DEF ReplayFails, DropInv, TypeOK
<1>11. pass'[p] = P
  BY <1>5, PassTypes DEF Goes
<1> QED
  BY <1>2, <1>5, <1>h, <1>7, <1>9, <1>10, <1>11, ReplayKeeps

\* A pass without targets shows nothing reduced, and has nothing.
LEMMA UntaggedKeeps ==
  ASSUME DropInv, NEW p \in Proc, Untagged(p)
  PROVE  DropInv' /\ pass'[p].pc = "decide"
<1> DEFINE P == [NoPass EXCEPT !.pc = "decide"]
<1>1. P \in PassRecord /\ P.pc = "decide" /\ P.have = {} /\ P.kept = {}
  BY NoPassIs DEF NoPass, PassRecord
<1>2. FormIsStored(P)
  BY <1>1 DEF FormIsStored
<1>3. Goes(p, P)
  BY DEF Untagged
<1> HIDE DEF P
<1>4. UNCHANGED <<table, host, shown, spoiled>> /\ failures' \in 0..MaxFailures
  BY DropAssumption DEF Untagged, DropInv, TypeOK
<1>5. pass'[p] = P
  BY <1>3, PassTypes DEF Goes
<1> QED
  BY <1>1, <1>2, <1>3, <1>4, <1>5, PassKeeps

\* The steps of a pass that read, and those that end it without a prompt.
LEMMA ReadsKeep ==
  ASSUME DropInv, NEW p \in Proc,
         Defers(p) \/ Executes(p) \/ OnlyCleans(p) \/ Load(p) \/ Cleaned(p) \/ Crash(p)
  PROVE  DropInv'
<1>0. UNCHANGED <<table, host, shown, spoiled>> /\ failures' \in 0..MaxFailures
  BY DropAssumption DEF Defers, Executes, OnlyCleans, Load, Cleaned, Crash, notes, DropInv, TypeOK
<1>1. CASE Crash(p)
  BY <1>0, <1>1, NoPassIs, PassKeeps DEF Crash
<1>2. ASSUME NEW P \in PassRecord, Goes(p, P), P.have = pass[p].have, P.kept = pass[p].kept,
             P.form = pass[p].form, P.marked = pass[p].marked
      PROVE  DropInv'
  BY <1>0, <1>2, SameForm, PassKeeps
<1>3. pass[p] \in PassRecord /\ queue \subseteq Tag /\ held \subseteq tool
  BY PassTypes
<1>4. CASE Defers(p)
  <2> DEFINE P == [pass[p] EXCEPT !.pc = "end", !.active = {}, !.not = {}]
  <2>1. P \in PassRecord /\ P.have = pass[p].have /\ P.kept = pass[p].kept
        /\ P.form = pass[p].form /\ P.marked = pass[p].marked
    BY <1>3 DEF PassRecord
  <2> QED
    BY <1>2, <1>4, <2>1 DEF Defers
<1>5. CASE Executes(p)
  <2> DEFINE P == [pass[p] EXCEPT !.pc = "apply", !.ops = queue, !.held = held, !.active = {}]
  <2>1. P \in PassRecord /\ P.have = pass[p].have /\ P.kept = pass[p].kept
        /\ P.form = pass[p].form /\ P.marked = pass[p].marked
    BY <1>3 DEF PassRecord
  <2> QED
    BY <1>2, <1>5, <2>1 DEF Executes
<1>6. CASE OnlyCleans(p)
  <2> DEFINE P == [pass[p] EXCEPT !.pc = "clean", !.held = held, !.not = {}]
  <2>1. P \in PassRecord /\ P.have = pass[p].have /\ P.kept = pass[p].kept
        /\ P.form = pass[p].form /\ P.marked = pass[p].marked
    BY <1>3 DEF PassRecord
  <2> QED
    BY <1>2, <1>6, <2>1 DEF OnlyCleans
<1>7. CASE Load(p)
  <2> DEFINE P == [pass[p] EXCEPT !.pc = "clean", !.active = Active \cap pass[p].have]
  <2>1. P \in PassRecord /\ P.have = pass[p].have /\ P.kept = pass[p].kept
        /\ P.form = pass[p].form /\ P.marked = pass[p].marked
    BY <1>3 DEF PassRecord
  <2> QED
    BY <1>2, <1>7, <2>1 DEF Load
<1>8. CASE Cleaned(p)
  <2> DEFINE P == [pass[p] EXCEPT !.pc = "reclaim", !.active = {}]
  <2>1. P \in PassRecord /\ P.have = pass[p].have /\ P.kept = pass[p].kept
        /\ P.form = pass[p].form /\ P.marked = pass[p].marked
    BY <1>3 DEF PassRecord
  <2> QED
    BY <1>2, <1>8, <2>1 DEF Cleaned
<1> QED
  BY <1>1, <1>4, <1>5, <1>6, <1>7, <1>8

\* What is active has not been sent reduced, and no pass is about to.
LEMMA ActiveIsWhole ==
  ASSUME DropInv, NEW t \in Tag \ (hidden \cup spoiled), status[t] = "active"
  PROVE  /\ shown[t] = "whole"
         /\ \A q \in Proc : t \in pass[q].have => Final(pass[q])[t] = "whole"
                                                  /\ t \notin pass[q].marked
<1>1. shown[t] = "whole"
  BY DEF DropInv, ShownIsStored, Stored
<1>2. ASSUME NEW q \in Proc, t \in pass[q].have
      PROVE  Final(pass[q])[t] = "whole" /\ t \notin pass[q].marked
  <2>1. pass[q] \in PassRecord /\ FormIsStored(pass[q])
    BY PassTypes
  <2>2. Final(pass[q])[t] = "whole"
    BY <1>2, <2>1 DEF FormIsStored, Stored
  <2> QED
    BY <2>1, <2>2, FinalIs
<1> QED
  BY <1>1, <1>2

LEMMA ApplyKeeps ==
  ASSUME DropInv, NEW p \in Proc, Apply(p)
  PROVE  DropInv'
<1> DEFINE P == pass[p]
           S == Applicable(P)
           T == S \cap P.have
           C == Change(P, T, FormNow)
<1>0. P \in PassRecord /\ FormNow \in Forms /\ S \subseteq Tag /\ FormNow \in [Tag -> Reduced]
      /\ T \in SUBSET Tag /\ C = Change(P, T, FormNow)
  BY PassTypes, FormNowIs DEF PassRecord, Applicable, Forms
<1>1. PICK next \in {"load", "reclaim"} :
        Goes(p, [C EXCEPT !.pc = next, !.not = {}, !.ops = @ \ Answered(P)])
  BY DEF Apply
<1> DEFINE Q == [C EXCEPT !.pc = next, !.not = {}, !.ops = @ \ Answered(P)]
<1> HIDE DEF C
<1>2. /\ C \in PassRecord /\ C.have = P.have /\ C.kept = P.kept
      /\ \A t \in Tag \ T : Final(C)[t] = Final(P)[t]
      /\ \A t \in T : t \notin P.marked => Final(C)[t] = FormNow[t]
      /\ \A t \in Tag : Final(P)[t] # "whole" => Final(C)[t] # "whole"
  <2> HIDE DEF T, S, P
  <2>1. Changed(P, T, FormNow, C)
    BY <1>0, ChangeIs
  <2> QED
    BY <2>1 DEF Changed
<1>3. Q \in PassRecord /\ Q.have = P.have /\ Q.kept = P.kept /\ Q.form = C.form
      /\ Q.marked = C.marked
  BY <1>2 DEF PassRecord
<1>4. Final(Q) = Final(C)
  BY <1>3 DEF Final
<1> HIDE DEF Q
<1>5. Goes(p, Q) /\ Dropped(S, FormNow) /\ UNCHANGED <<host, shown, spoiled, failures>>
      /\ queue' \subseteq queue
  BY <1>1 DEF Apply, Q, notes
<1>6. ASSUME NEW t \in S, t \notin hidden \cup spoiled
      PROVE  /\ shown[t] = "whole"
             /\ \A q \in Proc : t \in pass[q].have => Final(pass[q])[t] = "whole"
                                                      /\ t \notin pass[q].marked
  BY <1>0, <1>6, ActiveIsWhole DEF Applicable, StillActive
<1>7. \A t \in S \cap Q.have : t \in hidden \cup spoiled' \/ Final(Q)[t] = FormNow[t]
  BY <1>2, <1>3, <1>4, <1>5, <1>6
<1>8. \A t \in Tag \ S : Final(Q)[t] = Final(P)[t]
  BY <1>2, <1>4
<1>9. spoiled' \subseteq Tag /\ spoiled \subseteq spoiled'
  BY <1>5, PassTypes
<1>10. \A t \in S \ (hidden \cup spoiled') :
         /\ shown[t] \in {"whole", FormNow[t]}
         /\ \A q \in Proc \ {p} : t \in pass[q].have => Final(pass[q])[t] \in {"whole", FormNow[t]}
  BY <1>5, <1>6
<1>11. \A t \in Tag : Final(P)[t] # "whole" => Final(Q)[t] # "whole"
  BY <1>2, <1>4
<1> HIDE DEF S, T
<1> QED
  BY <1>0, <1>3, <1>5, <1>7, <1>8, <1>9, <1>10, <1>11, ReducesKeeps

\* One content gets the form m, for a tool call any, for a text none but "full".
LEMMA OneKeeps ==
  ASSUME DropInv, NEW p \in Proc, NEW t \in Tag, NEW m \in Reduced, t \in tool \/ m = "full",
         LET f == [u \in Tag |-> m]
         IN Dropped({t}, f) /\ Goes(p, Change(pass[p], {t}, f)),
         t \in pass[p].have => t \in hidden \cup spoiled' \/ t \notin pass[p].marked,
         t \notin hidden \cup spoiled' =>
           /\ shown[t] \in {"whole", m}
           /\ \A q \in Proc \ {p} : t \in pass[q].have => Final(pass[q])[t] \in {"whole", m},
         queue' = queue, spoiled \subseteq spoiled', spoiled' \subseteq Tag,
         UNCHANGED <<host, shown, failures>>
  PROVE  DropInv'
<1> DEFINE P == pass[p]
           f == [u \in Tag |-> m]
           g == [u \in Tag |-> IF u = t THEN m ELSE "full"]
           Q == Change(P, {t}, f)
<1>0. P \in PassRecord /\ g \in Forms /\ f \in [Tag -> Reduced] /\ g[t] = m /\ f[t] = m
      /\ Q = Change(P, {t}, f) /\ {t} \in SUBSET Tag
  BY PassTypes DEF Forms, Reduced
<1>1. Dropped({t}, g)
  BY DEF Dropped
<1>2. /\ Q \in PassRecord /\ Q.have = P.have /\ Q.kept = P.kept
      /\ \A u \in Tag \ {t} : Final(Q)[u] = Final(P)[u]
      /\ t \notin P.marked => Final(Q)[t] = m
      /\ \A u \in Tag : Final(P)[u] # "whole" => Final(Q)[u] # "whole"
  <2> HIDE DEF Q, P, f, g
  <2>1. Changed(P, {t}, f, Q)
    BY <1>0, ChangeIs
  <2> QED
    BY <1>0, <2>1 DEF Changed
<1>3. \A u \in {t} \cap Q.have : u \in hidden \cup spoiled' \/ Final(Q)[u] = g[u]
  BY <1>0, <1>2
<1>4. \A u \in {t} \ (hidden \cup spoiled') :
        /\ shown[u] \in {"whole", g[u]}
        /\ \A q \in Proc \ {p} : u \in pass[q].have => Final(pass[q])[u] \in {"whole", g[u]}
  BY <1>0
<1>5. Goes(p, Q) /\ queue' \subseteq queue
  OBVIOUS
<1> DEFINE T == {t}
<1> HIDE DEF Q, g
<1>6. T \in SUBSET Tag /\ Dropped(T, g) /\ \A u \in Tag \ T : Final(Q)[u] = Final(pass[p])[u]
  BY <1>0, <1>1, <1>2
<1>7. \A u \in T \cap Q.have : u \in hidden \cup spoiled' \/ Final(Q)[u] = g[u]
  BY <1>3
<1>8. \A u \in T \ (hidden \cup spoiled') :
        /\ shown[u] \in {"whole", g[u]}
        /\ \A q \in Proc \ {p} : u \in pass[q].have => Final(pass[q])[u] \in {"whole", g[u]}
  BY <1>4
<1>9. g \in Forms /\ Q \in PassRecord /\ Q.have = pass[p].have /\ Q.kept = pass[p].kept
  BY <1>0, <1>2
<1>10. \A u \in Tag : Final(pass[p])[u] # "whole" => Final(Q)[u] # "whole"
  BY <1>2
<1> HIDE DEF T, P
<1> QED
  BY <1>5, <1>6, <1>7, <1>8, <1>9, <1>10, ReducesKeeps

\* A clean-up goes by the tags as loaded: another pass may have dropped the content
\* since, in another form.
LEMMA CleanKeeps ==
  ASSUME DropInv, NEW p \in Proc, Clean(p)
  PROVE  DropInv'
<1>1. PICK m \in {"full", "skeleton"} : \E t \in Cleanable(pass[p], m) :
       /\ Dropped({t}, [u \in Tag |-> m])
       /\ Goes(p, Change(pass[p], {t}, [u \in Tag |-> m]))
       /\ spoiled' = IF TakenUp(p, t, m) THEN spoiled \cup {t} ELSE spoiled
  BY DEF Clean
<1>2. PICK t \in Cleanable(pass[p], m) :
       /\ Dropped({t}, [u \in Tag |-> m])
       /\ Goes(p, Change(pass[p], {t}, [u \in Tag |-> m]))
       /\ spoiled' = IF TakenUp(p, t, m) THEN spoiled \cup {t} ELSE spoiled
  BY <1>1
<1>3. t \in Tag /\ t \notin pass[p].marked /\ (t \in tool \/ m = "full") /\ m \in Reduced
  BY PassTypes DEF Cleanable, PassRecord, Reduced
<1>4. t \notin spoiled' =>
           /\ shown[t] \in {"whole", m}
           /\ \A q \in Proc \ {p} : Final(pass[q])[t] \in {"whole", m}
  BY <1>2 DEF TakenUp
<1>5. spoiled \subseteq spoiled' /\ spoiled' \subseteq Tag /\ queue' = queue
      /\ UNCHANGED <<host, shown, failures>>
  BY <1>2, <1>3, PassTypes DEF Clean
<1> QED
  BY <1>2, <1>3, <1>4, <1>5, OneKeeps

LEMMA ReclaimKeeps ==
  ASSUME DropInv, NEW p \in Proc, Reclaim(p)
  PROVE  DropInv'
<1>1. PICK m \in Reduced : \E t \in Reclaimable(pass[p], m) :
       /\ Dropped({t}, [u \in Tag |-> m])
       /\ Goes(p, Change(pass[p], {t}, [u \in Tag |-> m]))
  BY DEF Reclaim
<1>2. PICK t \in Reclaimable(pass[p], m) :
       /\ Dropped({t}, [u \in Tag |-> m])
       /\ Goes(p, Change(pass[p], {t}, [u \in Tag |-> m]))
  BY <1>1
<1>3. t \in Tag /\ t \in tool /\ status[t] = "active"
  BY PassTypes DEF Reclaimable, StillActive
<1>4. UNCHANGED <<queue, host, shown, spoiled, failures>> /\ spoiled \subseteq Tag
  BY PassTypes DEF Reclaim, notes
<1>5. t \notin hidden \cup spoiled =>
           /\ shown[t] = "whole"
           /\ \A q \in Proc : t \in pass[q].have => Final(pass[q])[t] = "whole"
                                                    /\ t \notin pass[q].marked
  BY <1>3, ActiveIsWhole
<1> QED
  BY <1>2, <1>3, <1>4, <1>5, OneKeeps

\* What is sent is stored.
LEMMA SentKeeps ==
  ASSUME DropInv, NEW p \in Proc, Sent(p)
  PROVE  DropInv'
<1> DEFINE P == pass[p]
<1>0. P \in PassRecord /\ FormIsStored(P)
  BY PassTypes
<1>1. /\ pass' \in [Proc -> PassRecord] /\ pass'[p] = NoPass
      /\ \A q \in Proc : q # p => pass'[q] = pass[q]
  BY PassTypes, NoPassIs DEF Sent, Goes
<1>2. shown' \in [Tag -> Form]
  BY <1>0, FinalIs DEF Sent, DropInv, TypeOK
<1>3. TypeOK'
  BY <1>1, <1>2 DEF Sent, DropInv, TypeOK, PassRecord, table, host, ages
<1>4. ASSUME NEW t \in Tag, shown'[t] # "whole"
      PROVE  t \in present /\ (t \in spoiled \/ Stored(t, shown'[t]))
  <2>1. CASE t \in P.have \ hidden
    <3>1. shown'[t] = Final(P)[t] /\ t \in present
      BY <1>0, <2>1 DEF Sent, FormIsStored
    <3> QED
      BY <1>0, <1>4, <2>1, <3>1 DEF FormIsStored
  <2>2. CASE t \notin P.have \ hidden
    <3>1. shown'[t] = shown[t]
      BY <2>2 DEF Sent
    <3> QED
      BY <1>4, <3>1 DEF DropInv, ShownIsStored
  <2> QED
    BY <2>1, <2>2
<1>5. ShownIsStored'
  BY <1>4 DEF ShownIsStored, Stored, Replayed, Sent, table, host
<1>6. \A q \in Proc : FormIsStored(pass'[q])
  BY <1>1, NoPassIs DEF DropInv
<1>7. \A q \in Proc : FormIsStored(pass[q])'
  BY <1>6 DEF FormIsStored, Stored, Replayed, Final, Sent, table, host
<1> QED
  BY <1>3, <1>5, <1>7 DEF DropInv, Sent, host

\* A transaction that fails leaves the table as it was; the contents whose form it has
\* changed in the prompt are spoiled.
LEMMA FailsKeeps ==
  ASSUME DropInv, NEW p \in Proc, Fails(p)
  PROVE  DropInv'
<1> DEFINE P == pass[p]
<1>1. PICK m \in Reduced, S \in SUBSET P.have :
        LET Q == Broken(P, S, [t \in Tag |-> m])
        IN /\ Goes(p, Q)
           /\ spoiled' = spoiled \cup {t \in Tag : Q.form[t] # P.form[t]}
                                 \cup {t \in P.marked : P.form[t] # "whole"}
  BY DEF Fails
<1> DEFINE f == [t \in Tag |-> m]
           C == Change(P, S, f)
           Q == Broken(P, S, f)
<1>0. P \in PassRecord /\ FormIsStored(P) /\ S \in SUBSET Tag /\ f \in [Tag -> Reduced]
      /\ C = Change(P, S, f)
  BY PassTypes DEF PassRecord
<1>3. /\ C \in PassRecord /\ C.have = P.have /\ C.kept = P.kept
      /\ P.marked \subseteq C.marked
  <2> HIDE DEF f, C
  <2>1. Changed(P, S, f, C)
    BY <1>0, ChangeIs
  <2>2. P.marked \subseteq C.marked
    BY <1>0 DEF Change, PassRecord
  <2> QED
    BY <2>1, <2>2 DEF Changed
<1> DEFINE lost == {t \in C.marked : C.form[t] = "whole"}
<1>4. /\ Q \in PassRecord /\ Q.have = P.have \ lost /\ Q.kept = P.kept \ lost
      /\ Q.form = C.form /\ Q.marked = {}
  <2>1. Q = [C EXCEPT !.pc = "end", !.have = @ \ lost, !.kept = @ \ lost, !.marked = {},
                      !.active = {}, !.not = {}, !.held = {}, !.ops = {}]
    BY DEF Broken
  <2> HIDE DEF C, lost, Q, P
  <2> QED
    BY <1>3, <2>1 DEF PassRecord
<1>5. /\ Goes(p, Q)
      /\ spoiled' = spoiled \cup {t \in Tag : Q.form[t] # P.form[t]}
                            \cup {t \in P.marked : P.form[t] # "whole"}
  BY <1>1
<1>l. \A t \in P.marked : C.form[t] = "whole" => t \in lost
  BY <1>3
<1> HIDE DEF Q, C, lost
<1>6. P.marked \subseteq Tag /\ spoiled' \subseteq Tag /\ spoiled \subseteq spoiled'
  BY <1>0, <1>5, PassTypes DEF PassRecord
<1>7. \A t \in Tag : Final(Q)[t] = Q.form[t]
  BY <1>4, FinalIs
<1>8. ASSUME NEW t \in Q.have \ (hidden \cup spoiled')
      PROVE  /\ Final(Q)[t] # "whole" => Stored(t, Final(Q)[t])
             /\ t \in Q.kept => Final(Q)[t] # "whole"
  <2>0. t \in Tag /\ t \notin spoiled
    BY <1>4, <1>6, <1>8 DEF PassRecord
  <2>1. Q.form[t] = P.form[t] /\ (t \in P.marked => P.form[t] = "whole")
    BY <1>5, <1>8, <2>0
  <2>2. /\ Final(P)[t] # "whole" => Stored(t, Final(P)[t])
        /\ t \in P.kept => Final(P)[t] # "whole"
    BY <1>0, <1>4, <1>8, <2>0 DEF FormIsStored
  <2>3. t \notin P.marked
    BY <1>4, <1>8, <1>l, <2>1
  <2>4. Final(Q)[t] = Final(P)[t]
    BY <1>0, <1>7, <2>0, <2>1, <2>3, FinalIs
  <2> QED
    BY <1>4, <2>2, <2>4
<1>9. /\ pass' \in [Proc -> PassRecord] /\ pass'[p] = Q
      /\ \A q \in Proc : q # p => pass'[q] = pass[q]
  BY <1>4, <1>5, PassTypes DEF Goes
<1>10. UNCHANGED <<table, host, shown>> /\ failures' \in 0..MaxFailures
  BY DropAssumption DEF Fails, DropInv, TypeOK
<1>11. TypeOK' /\ (tool \subseteq Tag)'
  BY <1>6, <1>9, <1>10 DEF DropInv, TypeOK, PassRecord, table, host, ages
<1>12. ShownIsStored'
  BY <1>6, <1>10 DEF DropInv, ShownIsStored, Stored, Replayed, table, host
<1>13. ASSUME NEW q \in Proc PROVE FormIsStored(pass[q])'
  <2>1. \A t \in pass'[q].have \ (hidden \cup spoiled') :
          /\ Final(pass'[q])[t] # "whole" => Stored(t, Final(pass'[q])[t])
          /\ t \in pass'[q].kept => Final(pass'[q])[t] # "whole"
    BY <1>6, <1>8, <1>9, PassTypes DEF FormIsStored
  <2>2. pass'[q].have \subseteq present \cup hidden /\ pass'[q].kept \subseteq pass'[q].have
    BY <1>0, <1>4, <1>9, PassTypes DEF FormIsStored
  <2> QED
    BY <1>10, <2>1, <2>2 DEF FormIsStored, Stored, Replayed, Final, table, host
<1> QED
  BY <1>11, <1>12, <1>13 DEF DropInv

LEMMA StepDropInv == DropInv /\ [Next]_vars => DropInv'
<1> SUFFICES ASSUME DropInv, [Next]_vars PROVE DropInv'
  OBVIOUS
<1>1. ASSUME NEW p \in Proc,
             \/ Begin(p) \/ ReplayFails(p) \/ Untagged(p)
             \/ Step(p) \/ Fails(p) \/ Crash(p)
      PROVE  DropInv'
  BY <1>1, BeginKeeps, ReplayFailsKeeps, UntaggedKeeps, ReadsKeep, ApplyKeeps, CleanKeeps, ReclaimKeeps, SentKeeps, FailsKeeps
     DEF Step
<1>2. CASE UNCHANGED vars
  <2>1. TypeOK'
    BY <1>2 DEF vars, DropInv, TypeOK
  <2> QED
    BY <1>2, <2>1, OutsideKeeps DEF vars
<1> QED
  BY <1>1, <1>2, HostKeeps, CompactKeeps DEF Next

LEMMA AlwaysDropInv == Spec => []DropInv
  BY InitDropInv, StepDropInv, PTL DEF Spec

\* Every variable keeps its type; in particular nothing is asked for that the session
\* does not know, and no text is marked for removal at the end of a pass.
THEOREM DropTypes == Spec => []TypeOK
<1>1. DropInv => TypeOK
  BY DEF DropInv
<1> QED
  BY <1>1, AlwaysDropInv, PTL

-----------------------------------------------------------------------------
(* Forms are kept.                                                         *)

\* A pass ends by sending its prompt or by a crash.
LEMMA EndsBySending ==
  ASSUME DropInv, NEW p \in Proc,
         Begin(p) \/ ReplayFails(p) \/ Untagged(p) \/ Step(p) \/ Fails(p), ~Sent(p)
  PROVE  pass'[p].pc # "none"
<1>1. \A P : Goes(p, P) => pass'[p] = P
  BY PassTypes DEF Goes
<1>2. pass[p] \in PassRecord /\ FormNow \in [Tag -> Reduced]
  BY PassTypes, FormNowIs DEF Forms
<1>3. \A S \in SUBSET Tag, f \in [Tag -> Reduced] :
        Change(pass[p], S, f) \in PassRecord /\ Change(pass[p], S, f).pc = pass[p].pc
  <2>1. \A S \in SUBSET Tag, f \in [Tag -> Reduced] :
          Changed(pass[p], S, f, Change(pass[p], S, f))
    BY <1>2, ChangeIs
  <2> QED
    BY <2>1 DEF Changed
<1>4. CASE Begin(p)
  <2> DEFINE L == Loaded(present \ running)
             form == [t \in Tag |-> IF t \in Flushed(present \ running)
                                    THEN Replayed(t) ELSE "whole"]
  <2>1. Goes(p, [L EXCEPT !.form = form])
    BY <1>4, Zenon DEF Begin
  <2>2. L \in PassRecord /\ L.pc = "decide"
    BY LoadedIs
  <2> HIDE DEF L, form
  <2> QED
    BY <1>1, <2>1, <2>2 DEF PassRecord
<1>9. CASE ReplayFails(p) \/ Untagged(p)
  BY <1>9, ReplayFailsKeeps, UntaggedKeeps
<1>5. CASE Defers(p) \/ Executes(p) \/ OnlyCleans(p) \/ Load(p) \/ Cleaned(p)
  BY <1>1, <1>2, <1>5 DEF Defers, Executes, OnlyCleans, Load, Cleaned, PassRecord
<1>6. CASE Apply(p)
  <2> DEFINE P == pass[p]
             T == Applicable(P) \cap P.have
             C == Change(P, T, FormNow)
  <2>1. PICK next \in {"load", "reclaim"} :
          Goes(p, [C EXCEPT !.pc = next, !.not = {}, !.ops = @ \ Answered(P)])
    BY <1>6 DEF Apply
  <2>2. T \in SUBSET Tag
    BY <1>2 DEF PassRecord
  <2>3. C \in PassRecord
    BY <1>2, <1>3, <2>2
  <2> HIDE DEF C
  <2> QED
    BY <1>1, <2>1, <2>3 DEF PassRecord
<1>7. CASE Clean(p) \/ Reclaim(p)
  <2>1. PICK m \in Reduced, t \in Tag : Goes(p, Change(pass[p], {t}, [u \in Tag |-> m]))
    BY <1>2, <1>7 DEF Clean, Reclaim, Cleanable, Reclaimable, PassRecord, Reduced
  <2>2. pass[p].pc # "none"
    BY <1>7 DEF Clean, Reclaim, In
  <2>3. {t} \in SUBSET Tag /\ [u \in Tag |-> m] \in [Tag -> Reduced]
    OBVIOUS
  <2> QED
    BY <1>1, <1>3, <2>1, <2>2, <2>3
<1>8. CASE Fails(p)
  <2>1. PICK m \in Reduced, S \in SUBSET pass[p].have :
          Goes(p, Broken(pass[p], S, [t \in Tag |-> m]))
    BY <1>8 DEF Fails
  <2> DEFINE C == Change(pass[p], S, [t \in Tag |-> m])
             lost == {t \in C.marked : C.form[t] = "whole"}
  <2>2. Goes(p, [C EXCEPT !.pc = "end", !.have = @ \ lost, !.kept = @ \ lost,
                          !.marked = {}, !.active = {}, !.not = {}, !.held = {}, !.ops = {}])
    BY <2>1 DEF Broken
  <2>3. C \in PassRecord
    BY <1>2, <1>3 DEF PassRecord
  <2> HIDE DEF C, lost
  <2> QED
    BY <1>1, <2>2, <2>3 DEF PassRecord
<1> QED
  BY <1>4, <1>5, <1>6, <1>7, <1>8, <1>9 DEF Step

\* The host and the requests leave the passes alone.
LEMMA OutsideNoPass ==
  Add \/ Completes \/ Displaced \/ Ask \/ AskThrough \/ Flush \/ Compact => pass' = pass
  BY DEF Add, Completes, Displaced, Ask, AskThrough, Flush, Compact

\* A pass that ends sends what was sent reduced before it began in the same form.
LEMMA EndKeepsForm ==
  ASSUME DropInv, [Next]_vars, NEW p \in Proc, NEW t \in Tag,
         t \in pass[p].kept, shown[t] # "whole", ~In(p, "none"), pass'[p].pc = "none"
  PROVE  shown'[t] = shown[t] \/ t \in spoiled'
<1>0. pass[p] \in PassRecord /\ FormIsStored(pass[p])
  BY PassTypes
<1>1. pass' # pass
  BY DEF In
<1>2. CASE Sent(p)
  <2>1. CASE t \in hidden
    BY <1>2, <2>1 DEF Sent
  <2>2. CASE t \notin hidden /\ t \notin spoiled
    <3>1. t \in pass[p].have
      BY <1>0 DEF FormIsStored
    <3>2. Final(pass[p])[t] # "whole"
      BY <1>0, <2>2, <3>1 DEF FormIsStored
    <3>3. Final(pass[p])[t] = Replayed(t)
      BY <1>0, <2>2, <3>1, <3>2 DEF FormIsStored, Stored
    <3>4. shown[t] = Replayed(t)
      BY <2>2 DEF DropInv, ShownIsStored, Stored
    <3> QED
      BY <1>2, <2>2, <3>1, <3>3, <3>4 DEF Sent
  <2> QED
    BY <1>2, <2>1, <2>2 DEF Sent
<1>3. CASE Crash(p)
  BY <1>3 DEF Crash
<1>4. ASSUME NEW q \in Proc, q # p,
             \/ Begin(q) \/ ReplayFails(q) \/ Untagged(q)
             \/ Step(q) \/ Fails(q) \/ Crash(q)
      PROVE  FALSE
  <2>1. \E P : Goes(q, P)
    BY <1>4 DEF Begin, ReplayFails, Untagged, Step, Defers, Executes, OnlyCleans, Apply, Load, Clean, Cleaned,
       Reclaim, Sent, Fails, Crash
  <2>2. pass'[p] = pass[p]
    BY <1>4, <2>1, PassTypes DEF Goes
  <2> QED
    BY <2>2 DEF In
<1>5. CASE (Begin(p) \/ ReplayFails(p) \/ Untagged(p) \/ Step(p) \/ Fails(p)) /\ ~Sent(p)
  BY <1>5, EndsBySending
<1> QED
  BY <1>1, <1>2, <1>3, <1>4, <1>5, OutsideNoPass DEF Next, vars

\* Once a pass has sent a content reduced, every later pass that replays it sends it in
\* the same form, in whichever process, over flushes, crashes, failed transactions, the
\* ageing of tool calls, and the requests between whose walk or replay threw and that
\* sent it whole; the exceptions are the contents noted as spoiled.
THEOREM FormsAreKept == Spec => FormIsKept
<1>1. DropInv /\ [Next]_vars =>
        [\A p \in Proc, t \in Tag :
           /\ t \in pass[p].kept /\ shown[t] # "whole"
           /\ ~In(p, "none") /\ pass'[p].pc = "none"
           => shown'[t] = shown[t] \/ t \in spoiled']_vars
  BY EndKeepsForm
<1> QED
  BY <1>1, AlwaysDropInv, PTL DEF Spec, FormIsKept

-----------------------------------------------------------------------------
(* No request is forgotten.                                                *)

Retired(t) == status[t] # "active"

\* What the host has compacted away was compacted in the table, or dropped before.
HiddenRetired == \A t \in hidden : Retired(t)

\* A request leaves the queue only when its content is dropped or compacted,
\* and that is for good.
RequestsStay ==
  [][\A t \in Tag : /\ t \in queue /\ t \notin queue' => Retired(t)'
                    /\ Retired(t) => Retired(t)']_vars

\* The step makes nothing active, and what it takes from the queue is retired.
Answers == \A t \in Tag : /\ t \in queue /\ t \notin queue' => Retired(t)'
                          /\ Retired(t) => Retired(t)'

LEMMA DroppedRetires ==
  ASSUME DropInv, NEW S, NEW f, Dropped(S, f)
  PROVE  \A t \in Tag : (t \in S => Retired(t)') /\ (Retired(t) => Retired(t)')
<1>1. \A t \in Tag : status'[t] = IF t \in S THEN "dropped" ELSE status[t]
  BY DEF Dropped
<1> QED
  BY <1>1 DEF Retired

LEMMA StepAnswers ==
  DropInv /\ HiddenRetired /\ [Next]_vars => Answers /\ HiddenRetired'
<1> SUFFICES ASSUME DropInv, HiddenRetired, [Next]_vars PROVE Answers /\ HiddenRetired'
  OBVIOUS
<1>t. queue \subseteq present \cup hidden /\ present \subseteq Tag /\ hidden \subseteq Tag
  BY DEF DropInv, TypeOK
<1>a. ASSUME Answers, hidden' = hidden PROVE HiddenRetired'
  BY <1>a, <1>t DEF Answers, HiddenRetired
<1>q. ASSUME queue \subseteq queue', status' = status PROVE Answers
  BY <1>q DEF Answers, Retired
<1>1. CASE Add \/ Completes \/ Displaced \/ Ask \/ AskThrough \/ UNCHANGED vars
  <2>1. queue \subseteq queue' /\ status' = status /\ hidden' = hidden
    BY <1>1 DEF Add, Completes, Displaced, Ask, AskThrough, vars, table, host
  <2> QED
    BY <1>a, <1>q, <2>1
<1>2. CASE Flush
  <2>1. /\ \A t \in Tag : status'[t] = IF t \in queue THEN "dropped" ELSE status[t]
        /\ hidden' = hidden
    BY <1>2 DEF Flush, host
  <2>2. Answers
    BY <2>1 DEF Answers, Retired
  <2> QED
    BY <1>a, <2>1, <2>2
<1>3. CASE Compact
  <2>1. /\ \A t \in Tag : status'[t] = IF t \in present THEN "compacted" ELSE status[t]
        /\ hidden' = hidden \cup present
    BY <1>3 DEF Compact
  <2>2. \A t \in Tag : (t \in present \cup hidden => Retired(t)') /\ (Retired(t) => Retired(t)')
    BY <2>1 DEF Retired, HiddenRetired
  <2> QED
    BY <1>t, <2>1, <2>2 DEF Answers, HiddenRetired
<1>4. ASSUME NEW p \in Proc,
             \/ Begin(p) \/ ReplayFails(p) \/ Untagged(p) \/ Defers(p) \/ Executes(p)
             \/ OnlyCleans(p) \/ Load(p) \/ Cleaned(p) \/ Sent(p) \/ Fails(p) \/ Crash(p)
      PROVE  Answers /\ HiddenRetired'
  <2>1. UNCHANGED table /\ UNCHANGED host
    BY <1>4 DEF Begin, ReplayFails, Untagged, Defers, Executes, OnlyCleans, Load, Cleaned,
       Sent, Fails, Crash
  <2> QED
    BY <1>a, <1>q, <2>1 DEF table, host
<1>5. ASSUME NEW p \in Proc, Apply(p) PROVE Answers /\ HiddenRetired'
  <2> DEFINE S == Applicable(pass[p])
  <2>1. /\ Dropped(S, FormNow) /\ queue' = queue \ Answered(pass[p])
        /\ hidden' = hidden
    BY <1>5 DEF Apply, host
  <2>2. \A t \in Answered(pass[p]) : t \in S \/ Retired(t)
    BY DEF Answered, StillActive, Retired
  <2> HIDE DEF S
  <2>3. \A t \in Tag : (t \in S => Retired(t)') /\ (Retired(t) => Retired(t)')
    BY <2>1, DroppedRetires
  <2>4. Answers
    BY <2>1, <2>2, <2>3 DEF Answers
  <2> QED
    BY <1>a, <2>1, <2>4
<1>6. ASSUME NEW p \in Proc, Clean(p) \/ Reclaim(p) PROVE Answers /\ HiddenRetired'
  <2>1. PICK S, f : Dropped(S, f)
    BY <1>6 DEF Clean, Reclaim
  <2>2. queue' = queue /\ hidden' = hidden
    BY <1>6 DEF Clean, Reclaim, host
  <2>3. Answers
    BY <2>1, <2>2, DroppedRetires DEF Answers
  <2> QED
    BY <1>a, <2>2, <2>3
<1> QED
  BY <1>1, <1>2, <1>3, <1>4, <1>5, <1>6 DEF Next, Step

\* However many passes read the same requests, are held up, fail or die, and
\* whoever flushes or drops on his own account beside them: a request is taken
\* from the queue only when its content is retired, and it stays so.
THEOREM RequestsAreKept == Spec => RequestsStay
<1>1. Init => HiddenRetired
  BY DEF Init, HiddenRetired
<1>2. DropInv /\ HiddenRetired /\ [Next]_vars =>
        /\ \A t \in Tag : /\ t \in queue /\ t \notin queue' => Retired(t)'
                          /\ Retired(t) => Retired(t)'
        /\ HiddenRetired'
  BY StepAnswers DEF Answers
<1> QED
  BY <1>1, <1>2, AlwaysDropInv, PTL DEF Spec, RequestsStay
===============================================================================
