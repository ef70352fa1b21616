------------------------ MODULE Channel2Nudge_proofs ------------------------
(* Theorems about Channel2Nudge, for every value of its constants. *)
EXTENDS Channel2Nudge, TLAPS

RunType == [pc : AttemptPc, proc : Proc \cup {None}, overtaken : BOOLEAN]

USE DEF row, host, history

LEMMA IdleIsARun == IdleAttempt \in RunType
  BY DEF IdleAttempt, RunType, AttemptPc

LEMMA ChangedIsARun ==
  ASSUME NEW q \in RunType, NEW pc \in AttemptPc, NEW o \in BOOLEAN
  PROVE  [q EXCEPT !.pc = pc] \in RunType /\ [q EXCEPT !.overtaken = o] \in RunType
  BY DEF RunType

\* A step of one attempt: what it leaves of the others.
LEMMA OneMoves ==
  ASSUME TypeOK, NEW a \in Attempt, NEW pc \in AttemptPc \ {"idle"}, ~At(a, "idle"), Goto(a, pc)
  PROVE  /\ run' \in [Attempt -> RunType]
         /\ \A b \in Attempt : run'[b].proc = None <=> run'[b].pc = "idle"
         /\ run'[a].pc = pc /\ run'[a].overtaken = run[a].overtaken
         /\ \A b \in Attempt \ {a} : run'[b] = run[b]
  <1>1. run \in [Attempt -> RunType] /\ run[a] \in RunType
    BY DEF TypeOK, RunType
  <1>2. run' = [run EXCEPT ![a] = [run[a] EXCEPT !.pc = pc]]
    BY <1>1 DEF Goto
  <1>3. [run[a] EXCEPT !.pc = pc] \in RunType
    BY <1>1, ChangedIsARun
  <1>4. run'[a] = [run[a] EXCEPT !.pc = pc] /\ \A b \in Attempt \ {a} : run'[b] = run[b]
    BY <1>1, <1>2
  <1>5. run'[a].pc = pc /\ run'[a].overtaken = run[a].overtaken /\ run'[a].proc = run[a].proc
    BY <1>1, <1>4 DEF RunType
  <1>6. run' \in [Attempt -> RunType]
    BY <1>1, <1>2, <1>3
  <1> QED
    BY <1>4, <1>5, <1>6 DEF TypeOK, At

LEMMA OneEnds ==
  ASSUME TypeOK, NEW a \in Attempt, Ends(a)
  PROVE  /\ run' \in [Attempt -> RunType]
         /\ \A b \in Attempt : run'[b].proc = None <=> run'[b].pc = "idle"
         /\ run'[a].pc = "idle"
         /\ \A b \in Attempt \ {a} : run'[b] = run[b]
  <1>1. run \in [Attempt -> RunType]
    BY DEF TypeOK, RunType
  <1>2. run' = [run EXCEPT ![a] = IdleAttempt]
    BY DEF Ends
  <1>3. run' \in [Attempt -> RunType]
    BY <1>1, <1>2, IdleIsARun
  <1>4. run'[a] = IdleAttempt /\ \A b \in Attempt \ {a} : run'[b] = run[b]
    BY <1>1, <1>2
  <1> QED
    BY <1>3, <1>4 DEF IdleAttempt, TypeOK

\* Taking a claim away marks its holder and changes nothing else.
LEMMA ReapingMarks ==
  ASSUME TypeOK, Reaped
  PROVE  /\ run' \in [Attempt -> RunType]
         /\ \A b \in Attempt : run'[b].proc = None <=> run'[b].pc = "idle"
         /\ \A b \in Attempt : /\ run'[b].pc = run[b].pc
                               /\ run'[b].overtaken \/ run'[b] = run[b]
                               /\ token = b /\ run[b].pc \in {"owner", "sending", "accepted"}
                                    => run'[b].overtaken
  <1>1. run \in [Attempt -> RunType]
    BY DEF TypeOK, RunType
  <1>2. SUFFICES ASSUME NEW b \in Attempt
                 PROVE  /\ run'[b] \in RunType
                        /\ run'[b].proc = run[b].proc /\ run'[b].pc = run[b].pc
                        /\ run'[b].overtaken \/ run'[b] = run[b]
                        /\ token = b /\ run[b].pc \in {"owner", "sending", "accepted"}
                             => run'[b].overtaken
    <2>1. run' \in [Attempt -> RunType]
      BY <1>2 DEF Reaped
    <2> QED
      BY <1>2, <2>1 DEF TypeOK
  <1>3. run[b] \in RunType
    BY <1>1
  <1>4. CASE token = b /\ run[b].pc \in {"owner", "sending", "accepted"}
    <2>1. run'[b] = [run[b] EXCEPT !.overtaken = TRUE]
      BY <1>4 DEF Reaped
    <2>2. [run[b] EXCEPT !.overtaken = TRUE] \in RunType
      <3>1. TRUE \in BOOLEAN
        OBVIOUS
      <3> QED
        BY <1>3, <3>1, Zenon DEF RunType
    <2> QED
      BY <1>3, <2>1, <2>2 DEF RunType
  <1>5. CASE ~(token = b /\ run[b].pc \in {"owner", "sending", "accepted"})
    <2>1. run'[b] = run[b]
      BY <1>5 DEF Reaped
    <2> QED
      BY <1>3, <1>5, <2>1
  <1> QED
    BY <1>4, <1>5

-----------------------------------------------------------------------------
(* The inductive invariant.  Whoever is past its look at the claim and was *)
(* not marked holds it; a claim whose holder has not sent finds a cycle    *)
(* without a send; the holder of a claim whose message was accepted has    *)
(* been heard.                                                             *)

Late == {"owner", "sending", "accepted"}
Early == {"seen", "willing", "clearing"}
Waiting == {"claimed", "releasing", "resolving", "checking", "owner"}

\* What a cycle is consumed for.
ConsumedIsHeard == state = "delivered" => heard

Books == /\ OncePerCycle
         /\ ConsumedIsHeard
         /\ \A a \in Attempt :
              /\ run[a].pc \in Late /\ ~run[a].overtaken => token = a
              /\ run[a].pc \in Early => token # a
              /\ token = a /\ run[a].pc \in Waiting => standing = 0
              /\ token = a /\ run[a].pc = "accepted" => heard

RowType == /\ state \in States
           /\ token \in Attempt \cup {None} /\ (token # None <=> state = "claimed")
           /\ age \in 0..Ttl

\* What the statements on the row leave in it.
LEMMA RowStaysTyped ==
  ASSUME TypeOK
  PROVE  /\ RowType
         /\ UNCHANGED row => RowType'
         /\ \A s \in States \ {"claimed"} :
              /\ Set(s) => RowType'
              /\ \A from \in States : Cas(from, s) => RowType'
              /\ \A a \in Attempt : CasClaim(a, s) => RowType'
         /\ \A a \in Attempt : Claim(a) => RowType'
<1>1. RowType
  BY DEF TypeOK, RowType
<1>2. UNCHANGED row => RowType'
  BY <1>1 DEF RowType
<1>3. ASSUME NEW s \in States \ {"claimed"}, Set(s) PROVE RowType'
  BY <1>3, BoundAssumption DEF RowType, Set
<1>4. ASSUME NEW s \in States \ {"claimed"}, NEW from \in States, Cas(from, s) PROVE RowType'
  BY <1>2, <1>3, <1>4 DEF Cas
<1>5. ASSUME NEW s \in States \ {"claimed"}, NEW a \in Attempt, CasClaim(a, s) PROVE RowType'
  BY <1>2, <1>3, <1>5 DEF CasClaim
<1>6. ASSUME NEW a \in Attempt, Claim(a) PROVE RowType'
  <2>1. CASE state = "pending"
    BY <1>6, <2>1, IdAssumption, BoundAssumption DEF Claim, RowType, States
  <2>2. CASE state # "pending"
    BY <1>2, <1>6, <2>2 DEF Claim
  <2> QED
    BY <2>1, <2>2
<1> QED
  BY <1>1, <1>2, <1>3, <1>4, <1>5, <1>6

LEMMA TypesPreserved == TypeOK /\ [Next]_vars => TypeOK'
<1> SUFFICES ASSUME TypeOK, [Next]_vars PROVE TypeOK'
  OBVIOUS
<1> USE DEF RunType
<1>r. run \in [Attempt -> RunType] /\ \A b \in Attempt : run[b].proc = None <=> run[b].pc = "idle"
  BY DEF TypeOK
<1>a. AttemptPc = {"idle", "seen", "willing", "clearing", "claimed", "releasing",
                   "resolving", "checking", "owner", "sending", "accepted", "failed"}
  BY DEF AttemptPc
<1>s. {"empty", "pending", "delivered"} \subseteq States \ {"claimed"} /\ "claimed" \in States
  BY DEF States
<1>u. (UNCHANGED row => RowType') /\ \A a \in Attempt : Claim(a) => RowType'
  BY RowStaysTyped
<1>c. /\ Cas("delivered", "empty") \/ Cas("empty", "pending") \/ Cas("pending", "empty") => RowType'
      /\ Set("empty") => RowType'
      /\ \A a \in Attempt : CasClaim(a, "empty") \/ CasClaim(a, "pending") \/ CasClaim(a, "delivered")
                              => RowType'
  <2>1. \A from \in States, s \in States \ {"claimed"} : Cas(from, s) => RowType'
    BY RowStaysTyped
  <2>2. \A a \in Attempt, s \in States \ {"claimed"} : CasClaim(a, s) => RowType'
    BY RowStaysTyped
  <2>3. \A s \in States \ {"claimed"} : Set(s) => RowType'
    BY RowStaysTyped
  <2>4. Cas("delivered", "empty") \/ Cas("empty", "pending") \/ Cas("pending", "empty") => RowType'
    BY <1>s, <2>1
  <2>5. \A a \in Attempt : CasClaim(a, "empty") \/ CasClaim(a, "pending") \/ CasClaim(a, "delivered")
                              => RowType'
    BY <1>s, <2>2
  <2>6. Set("empty") => RowType'
    BY <1>s, <2>3
  <2> QED
    BY <2>4, <2>5, <2>6
<1>1. ASSUME NEW p \in Proc, Fold(p) PROVE TypeOK'
  BY <1>1, <1>c DEF Fold, Rearm, RowType, TypeOK
<1>2. ASSUME NEW p \in Proc, Measure(p) PROVE TypeOK'
  <2>1. PICK v \in Measured \cup {"none"} :
          /\ view' = [view EXCEPT ![p] = v]
          /\ IF v = "collapsed" THEN Rearm ELSE UNCHANGED <<row, history>>
    BY <1>2 DEF Measure
  <2>2. view' \in [Proc -> View]
    BY <2>1 DEF TypeOK, View
  <2>3. RowType' /\ standing' \in Nat /\ heard' = heard
    <3>1. CASE Rearm
      BY <1>c, <3>1 DEF Rearm, TypeOK
    <3>2. CASE UNCHANGED <<row, history>>
      BY <1>u, <3>2 DEF TypeOK
    <3> QED
      BY <2>1, <3>1, <3>2
  <2> QED
    BY <1>2, <2>2, <2>3 DEF Measure, RowType, TypeOK
<1>3. ASSUME NEW p \in Proc, Arm(p) PROVE TypeOK'
  BY <1>3, <1>c DEF Arm, RowType, TypeOK
<1>4. ASSUME NEW p \in Proc, Reduce(p) PROVE TypeOK'
  BY <1>4 DEF Reduce, TypeOK, View
<1>5. ASSUME NEW p \in Proc, RustPass(p) PROVE TypeOK'
  <2>1. view' \in [Proc -> View]
    BY <1>5 DEF RustPass, TypeOK, View
  <2> QED
    BY <1>5, <1>c, <2>1 DEF RustPass, RowType, TypeOK
<1>6. ASSUME NEW p \in Proc, SwitchOff(p) PROVE TypeOK'
  BY <1>6, BoundAssumption DEF SwitchOff, TypeOK
<1>7. ASSUME NEW p \in Proc, Crash(p) PROVE TypeOK'
  <2>1. /\ run' \in [Attempt -> RunType]
        /\ \A b \in Attempt : run'[b].proc = None <=> run'[b].pc = "idle"
    BY <1>7, <1>r, IdleIsARun DEF Crash, IdleAttempt
  <2>2. view' \in [Proc -> View]
    BY <1>7 DEF Crash, TypeOK, View
  <2> QED
    BY <1>7, <2>1, <2>2, BoundAssumption DEF Crash, TypeOK
<1>8. ASSUME NEW p \in Proc, NEW a \in Attempt, Begin(a, p) PROVE TypeOK'
  <2> DEFINE q == [IdleAttempt EXCEPT !.pc = "seen", !.proc = p]
  <2>1. q \in RunType /\ q.proc = p /\ q.pc = "seen"
    BY <1>a, IdleIsARun DEF IdleAttempt
  <2>2. run' = [run EXCEPT ![a] = q]
    BY <1>8 DEF Begin
  <2> HIDE DEF q
  <2>3. /\ run' \in [Attempt -> RunType]
        /\ \A b \in Attempt : run'[b].proc = None <=> run'[b].pc = "idle"
    BY <2>1, <2>2, <1>r, IdAssumption
  <2> QED
    BY <1>8, <2>3 DEF Begin, TypeOK
<1>9. ASSUME NEW a \in Attempt, Evaluate(a) PROVE TypeOK'
  BY <1>9, <1>a, OneMoves, OneEnds DEF Evaluate, TypeOK, At
<1>10. ASSUME NEW a \in Attempt, ClearIntent(a) PROVE TypeOK'
  BY <1>10, <1>c, OneEnds DEF ClearIntent, RowType, RunType, TypeOK
<1>11. ASSUME NEW a \in Attempt, TryClaim(a) PROVE TypeOK'
  <2>1. CASE state = "pending"
    <3>1. run' \in [Attempt -> RunType] /\ \A b \in Attempt : run'[b].proc = None <=> run'[b].pc = "idle"
      BY <1>11, <2>1, <1>a, OneMoves DEF TryClaim, At
    <3>2. heard' \in BOOLEAN
      BY <1>11, <2>1, Zenon DEF TryClaim
    <3> QED
      BY <1>11, <1>u, <3>1, <3>2 DEF TryClaim, RowType, TypeOK
  <2>2. CASE state # "pending"
    BY <1>11, <1>u, <2>2, OneEnds DEF TryClaim, TypeOK, RowType
  <2> QED
    BY <2>1, <2>2
<1>12. ASSUME NEW a \in Attempt, Recheck(a) PROVE TypeOK'
  BY <1>12, <1>a, OneMoves DEF Recheck, TypeOK, At
<1>13. ASSUME NEW a \in Attempt, ReleaseClaim(a) PROVE TypeOK'
  BY <1>13, <1>c, OneEnds DEF ReleaseClaim, TypeOK, RowType
<1>14. ASSUME NEW a \in Attempt, Resolved(a) PROVE TypeOK'
  BY <1>14, <1>a, OneMoves DEF Resolved, TypeOK, At
<1>15. ASSUME NEW a \in Attempt, CheckClaim(a) PROVE TypeOK'
  BY <1>15, <1>a, OneMoves, OneEnds DEF CheckClaim, TypeOK, At
<1>16. ASSUME NEW a \in Attempt, StartSend(a) PROVE TypeOK'
  BY <1>16, <1>a, OneMoves DEF StartSend, TypeOK, At
<1>17. ASSUME NEW a \in Attempt, Accept(a) PROVE TypeOK'
  <2>1. heard' \in BOOLEAN /\ active' \in BOOLEAN
    BY <1>17, Zenon DEF Accept, TypeOK
  <2> QED
    BY <1>17, <1>a, <2>1, OneMoves DEF Accept, TypeOK, At
<1>18. ASSUME NEW a \in Attempt, SendFails(a) PROVE TypeOK'
  BY <1>18, <1>a, OneMoves, BoundAssumption DEF SendFails, TypeOK, At
<1>19. ASSUME NEW a \in Attempt, Restore(a) PROVE TypeOK'
  BY <1>19, <1>c, OneEnds DEF Restore, TypeOK, RowType
<1>20. ASSUME NEW a \in Attempt, Confirm(a) PROVE TypeOK'
  <2>1. view' \in [Proc -> View]
    BY <1>20 DEF Confirm, TypeOK, View
  <2> QED
    BY <1>20, <1>c, <2>1, OneEnds DEF Confirm, TypeOK, RowType
<1>21. ASSUME NEW a \in Attempt, StatementFails(a) PROVE TypeOK'
  BY <1>21, <1>a, OneMoves, OneEnds, BoundAssumption DEF StatementFails, TypeOK, At
<1>22. CASE SwitchedOff
  BY <1>22, <1>c, ReapingMarks DEF SwitchedOff, TypeOK, RowType
<1>23. CASE Heal
  <2>1. faults' \in 0..MaxFaults
    <3>1. \/ UNCHANGED faults
          \/ faults < MaxFaults /\ faults' = faults + 1
      BY <1>23, Zenon DEF Heal
    <3> QED
      BY <3>1, BoundAssumption DEF TypeOK
  <2>2. RowType' /\ standing' \in Nat
    BY <1>23, <1>c DEF Heal
  <2> QED
    BY <1>23, <2>1, <2>2, ReapingMarks DEF Heal, TypeOK, RowType
<1>24. CASE RunEnds \/ RunResumes \/ Tick
  <2>1. active' \in BOOLEAN
    BY <1>24, Zenon DEF RunEnds, RunResumes, Tick, TypeOK
  <2>2. age' \in 0..Ttl
    BY <1>24, BoundAssumption DEF RunEnds, RunResumes, Tick, TypeOK
  <2> QED
    BY <1>24, <2>1, <2>2 DEF RunEnds, RunResumes, Tick, TypeOK
<1>25. CASE UNCHANGED vars
  BY <1>25 DEF vars, TypeOK
<1> QED
  BY <1>1, <1>2, <1>3, <1>4, <1>5, <1>6, <1>7, <1>8, <1>9, <1>10, <1>11, <1>12, <1>13,
     <1>14, <1>15, <1>16, <1>17, <1>18, <1>19, <1>20, <1>21, <1>22, <1>23, <1>24, <1>25
  DEF Next, Pass, Step

LEMMA BooksKept == TypeOK /\ Books /\ [Next]_vars => Books'
<1> SUFFICES ASSUME TypeOK, Books, [Next]_vars PROVE Books'
  OBVIOUS
<1>a. /\ AttemptPc = {"idle", "seen", "willing", "clearing", "claimed", "releasing",
                      "resolving", "checking", "owner", "sending", "accepted", "failed"}
      /\ standing \in Nat /\ (token # None <=> state = "claimed")
  BY DEF AttemptPc, TypeOK
<1>b. run \in [Attempt -> RunType] /\ \A a \in Attempt : run[a] \in RunType
  BY DEF TypeOK, RunType
<1>n. \A a \in Attempt : a # None
  BY IdAssumption
<1> USE IdAssumption DEF Books, OncePerCycle, ConsumedIsHeard, Late, Early, Waiting
<1>f. ASSUME state' \in {"empty", "pending"}, token' = None, standing' = 0,
             \A b \in Attempt : run'[b].pc \in Late => run'[b].overtaken
      PROVE  Books'
  <2>1. OncePerCycle'
    BY <1>f
  <2>2. ConsumedIsHeard'
    BY <1>f
  <2>3. \A b \in Attempt : token' # b
    BY <1>f, <1>n
  <2> QED
    BY <1>f, <2>1, <2>2, <2>3
<1>c. ASSUME Rearm, UNCHANGED run PROVE Books'
  <2>1. CASE state = "delivered"
    <3>1. state' = "empty" /\ token' = None /\ standing' = 0 /\ token = None
      BY <1>a, <1>c, <2>1 DEF Rearm, Cas, Set
    <3> QED
      BY <1>c, <1>f, <1>n, <3>1 DEF Rearm
  <2>2. CASE state # "delivered"
    BY <1>c, <2>2 DEF Rearm, Cas
  <2> QED
    BY <2>1, <2>2
<1>1. ASSUME NEW p \in Proc, Fold(p) PROVE Books'
  BY <1>1, <1>c DEF Fold
<1>2. ASSUME NEW p \in Proc, Measure(p) PROVE Books'
  <2>1. CASE Rearm
    BY <1>2, <1>c, <2>1 DEF Measure
  <2>2. CASE UNCHANGED <<row, history>>
    BY <1>2, <2>2 DEF Measure
  <2> QED
    BY <1>2, <2>1, <2>2 DEF Measure
<1>3. ASSUME NEW p \in Proc, Arm(p) PROVE Books'
  BY <1>3, <1>a DEF Arm, Cas, Set
<1>4. ASSUME NEW p \in Proc, RustPass(p) PROVE Books'
  BY <1>4, <1>a DEF RustPass, Cas, Set
<1>5. ASSUME NEW p \in Proc, Crash(p) PROVE Books'
  <2>1. \A b \in Attempt : run'[b] = run[b] \/ run'[b].pc = "idle"
    BY <1>5, <1>b DEF Crash, IdleAttempt
  <2> QED
    BY <1>5, <2>1 DEF Crash
<1>6. ASSUME NEW p \in Proc, NEW a \in Attempt, Begin(a, p) PROVE Books'
  <2>1. run'[a].pc = "seen" /\ \A b \in Attempt \ {a} : run'[b] = run[b]
    BY <1>6, <1>b DEF Begin, IdleAttempt
  <2> QED
    BY <1>6, <1>a, <2>1 DEF Begin
<1>7. ASSUME NEW a \in Attempt, Evaluate(a) PROVE Books'
  <2>1. CASE Goto(a, "willing") \/ Goto(a, "clearing")
    BY <1>7, <1>a, <2>1, OneMoves DEF Evaluate, At
  <2>2. CASE Ends(a)
    BY <1>7, <2>2, OneEnds DEF Evaluate
  <2> QED
    BY <1>7, <2>1, <2>2 DEF Evaluate
<1>8. ASSUME NEW a \in Attempt, ClearIntent(a) PROVE Books'
  BY <1>8, <1>a, OneEnds DEF ClearIntent, Cas, Set
<1>9. ASSUME NEW a \in Attempt, TryClaim(a) PROVE Books'
  <2>1. CASE state = "pending"
    BY <1>9, <1>a, <2>1, OneMoves DEF TryClaim, Claim, At
  <2>2. CASE state # "pending"
    BY <1>9, <2>2, OneEnds DEF TryClaim, Claim
  <2> QED
    BY <2>1, <2>2
<1>10. ASSUME NEW a \in Attempt, Recheck(a) PROVE Books'
  BY <1>10, <1>a, OneMoves DEF Recheck, At
<1>11. ASSUME NEW a \in Attempt, ReleaseClaim(a) PROVE Books'
  <2>1. CASE Owns(a)
    <3>1. /\ state' = "empty" /\ token' = None /\ standing' = 0 /\ heard' = heard
          /\ run'[a].pc = "idle" /\ \A b \in Attempt \ {a} : run'[b] = run[b]
      BY <1>11, <2>1, OneEnds DEF ReleaseClaim, CasClaim, Owns, Set, At
    <3> QED
      BY <1>f, <2>1, <3>1 DEF Owns
  <2>2. CASE ~Owns(a)
    BY <1>11, <2>2, OneEnds DEF ReleaseClaim, CasClaim
  <2> QED
    BY <2>1, <2>2
<1>12. ASSUME NEW a \in Attempt, Resolved(a) PROVE Books'
  BY <1>12, <1>a, OneMoves DEF Resolved, At
<1>13. ASSUME NEW a \in Attempt, CheckClaim(a) PROVE Books'
  <2>1. CASE Owns(a)
    BY <1>13, <1>a, <2>1, OneMoves DEF CheckClaim, Owns, At
  <2>2. CASE ~Owns(a)
    BY <1>13, <2>2, OneEnds DEF CheckClaim
  <2> QED
    BY <2>1, <2>2
<1>14. ASSUME NEW a \in Attempt, StartSend(a) PROVE Books'
  BY <1>14, <1>a, OneMoves DEF StartSend, Owns, At
<1>15. ASSUME NEW a \in Attempt, Accept(a) PROVE Books'
  <2>1. (heard => heard') /\ (token = a => heard')
    BY <1>15, Zenon DEF Accept
  <2> QED
    BY <1>15, <1>a, <2>1, OneMoves DEF Accept, At
<1>16. ASSUME NEW a \in Attempt, SendFails(a) PROVE Books'
  BY <1>16, <1>a, OneMoves DEF SendFails, At
<1>17. ASSUME NEW a \in Attempt, Restore(a) PROVE Books'
  BY <1>17, <1>a, OneEnds DEF Restore, CasClaim, Owns, Set
<1>18. ASSUME NEW a \in Attempt, Confirm(a) PROVE Books'
  BY <1>18, <1>a, OneEnds DEF Confirm, CasClaim, Owns, Set, At
<1>19. ASSUME NEW a \in Attempt, StatementFails(a) PROVE Books'
  <2>1. CASE Ends(a)
    BY <1>19, <2>1, OneEnds DEF StatementFails
  <2>2. CASE At(a, "checking") /\ Goto(a, "failed")
    BY <1>19, <1>a, <2>2, OneMoves DEF StatementFails, At
  <2>3. CASE At(a, "seen") /\ Goto(a, "clearing")
    BY <1>19, <1>a, <2>3, OneMoves DEF StatementFails, At
  <2>4. CASE run[a].pc \in {"claimed", "owner"} /\ Goto(a, "releasing")
    BY <1>19, <1>a, <2>4, OneMoves DEF StatementFails, At
  <2> QED
    BY <1>19, <2>1, <2>2, <2>3, <2>4 DEF StatementFails
<1>20. CASE SwitchedOff \/ Heal
  <2>1. Reaped /\ Set("empty") /\ standing' = 0 /\ UNCHANGED heard
    BY <1>20 DEF SwitchedOff, Heal
  <2>2. \A b \in Attempt : /\ run'[b].pc = run[b].pc
                           /\ run'[b].overtaken \/ run'[b] = run[b]
                           /\ token = b /\ run[b].pc \in Late => run'[b].overtaken
    BY <2>1, ReapingMarks
  <2>3. state' = "empty" /\ token' = None /\ standing' = 0
    BY <2>1 DEF Set
  <2>4. \A b \in Attempt : run'[b].pc \in Late => run'[b].overtaken
    BY <2>2
  <2> QED
    BY <1>f, <2>3, <2>4
<1>21. ASSUME \/ \E p \in Proc : Reduce(p) \/ SwitchOff(p)
              \/ RunEnds \/ RunResumes \/ Tick \/ UNCHANGED vars
       PROVE  Books'
  <2>1. UNCHANGED <<state, token, run, standing, heard>>
    BY <1>21 DEF Reduce, SwitchOff, RunEnds, RunResumes, Tick, vars
  <2> QED
    BY <2>1
<1> QED
  BY <1>1, <1>2, <1>3, <1>4, <1>5, <1>6, <1>7, <1>8, <1>9, <1>10, <1>11, <1>12, <1>13,
     <1>14, <1>15, <1>16, <1>17, <1>18, <1>19, <1>20, <1>21
  DEF Next, Pass, Step

-----------------------------------------------------------------------------

LEMMA InitBooks == Init => TypeOK /\ Books
<1> SUFFICES ASSUME Init PROVE TypeOK /\ Books
  OBVIOUS
<1>1. run \in [Attempt -> RunType] /\ \A a \in Attempt : run[a] = IdleAttempt
  BY IdleIsARun DEF Init
<1>2. \A a \in Attempt : run[a].pc = "idle" /\ run[a].proc = None
  BY <1>1 DEF IdleAttempt
<1>3. active \in BOOLEAN /\ heard \in BOOLEAN
  BY Zenon DEF Init
<1>4. TypeOK
  <2>1. view \in [Proc -> View]
    BY DEF Init, View
  <2>2. token = None /\ state = "empty" /\ state \in States /\ age \in 0..Ttl /\ faults \in 0..MaxFaults
    <3>1. token = None /\ state = "empty" /\ age = 0 /\ faults = 0
      BY DEF Init
    <3> QED
      BY <3>1, BoundAssumption DEF States
  <2> QED
    BY <1>1, <1>2, <1>3, <2>1, <2>2 DEF Init, TypeOK, RunType
<1>5. Books
  BY <1>2 DEF Init, Books, OncePerCycle, ConsumedIsHeard, Late, Early, Waiting
<1> QED
  BY <1>4, <1>5

LEMMA BooksInvariant == Spec => [](TypeOK /\ Books)
<1>1. TypeOK /\ Books /\ [Next]_vars => (TypeOK /\ Books)'
  BY TypesPreserved, BooksKept
<1> QED
  BY <1>1, InitBooks, PTL DEF Spec

\* All variables keep their types, and the row holds a token if and only if it
\* is claimed.
THEOREM NudgeTypes == Spec => []TypeOK
<1> QED
  BY BooksInvariant, PTL

\* In a cycle at most one send stands, for any number of processes, attempts
\* and faults: the compare-and-set on the claim is enough.
THEOREM OneNudgePerCycle == Spec => []OncePerCycle
<1>1. Books => OncePerCycle
  BY DEF Books
<1> QED
  BY <1>1, BooksInvariant, PTL

\* Two sends are under way at once only if one of the senders was overtaken.
THEOREM SendersAreAlone == Spec => []OneSender
<1>1. Books => OneSender
  BY DEF Books, OneSender, Late
<1> QED
  BY <1>1, BooksInvariant, PTL

-----------------------------------------------------------------------------
(* The cycle that NudgeCycle promises.                                     *)

\* Before its message is taken, and when its send has failed, an attempt that
\* holds the claim has told the agent nothing under it.
Untold == Waiting \cup {"sending", "failed"}
Unheard == \A a \in Attempt : token = a /\ run[a].pc \in Untold => ~heard

\* The step takes nobody to a point before its message is taken.
NoneUntold == \A a \in Attempt : run'[a].pc \in Untold => run[a].pc \in Untold
Still == UNCHANGED <<row, heard>>
CycleStep == [Cycle!Next]_<<state, token, heard>>

LEMMA StaysUnheard ==
  ASSUME Unheard, NoneUntold, heard' = heard, token' \in {token, None}, None \notin Attempt
  PROVE  Unheard'
  BY DEF Unheard, NoneUntold

\* The statements on the row that passes, reapers and switches make.
LEMMA RowCycles ==
  ASSUME TypeOK, heard' = heard,
         \/ UNCHANGED row \/ Set("empty")
         \/ Cas("delivered", "empty") \/ Cas("empty", "pending") \/ Cas("pending", "empty")
  PROVE  CycleStep /\ token' \in {token, None}
<1>1. state \in States /\ (token # None <=> state = "claimed")
  BY DEF TypeOK
<1>2. CASE UNCHANGED row
  BY <1>2 DEF CycleStep
<1>3. CASE Set("empty")
  BY <1>1, <1>3 DEF Set, States, CycleStep, Cycle!Next, Cycle!Turn, Cycle!GiveUp, Cycle!Is
<1>4. CASE Cas("delivered", "empty") \/ Cas("empty", "pending") \/ Cas("pending", "empty")
  <2>1. CASE UNCHANGED row
    BY <1>2, <2>1
  <2>2. CASE ~ UNCHANGED row
    <3>1. /\ Cycle!Is("delivered", "empty") \/ Cycle!Is("empty", "pending") \/ Cycle!Is("pending", "empty")
          /\ token' = None /\ token = None
      BY <1>1, <1>4, <2>2 DEF Cas, Set, Cycle!Is
    <3> QED
      BY <3>1 DEF CycleStep, Cycle!Next, Cycle!Turn
  <2> QED
    BY <2>1, <2>2
<1> QED
  BY <1>2, <1>3, <1>4

\* A claim ends: consumed when the agent has been told, tried again when not,
\* or given up.
LEMMA ClaimCycles ==
  ASSUME TypeOK, heard' = heard, NEW a \in Attempt, NEW to \in {"empty", "pending", "delivered"},
         CasClaim(a, to),
         Owns(a) /\ to = "delivered" => heard, Owns(a) /\ to = "pending" => ~heard
  PROVE  CycleStep /\ token' \in {token, None}
<1>1. CASE Owns(a)
  <2>1. Cycle!Is("claimed", to) /\ token' = None
    BY <1>1 DEF CasClaim, Owns, Set, Cycle!Is
  <2>2. Cycle!Consume \/ Cycle!TryAgain \/ Cycle!GiveUp
    BY <1>1, <2>1 DEF Cycle!Consume, Cycle!TryAgain, Cycle!GiveUp
  <2> QED
    BY <2>1, <2>2 DEF CycleStep, Cycle!Next
<1>2. CASE ~ Owns(a)
  BY <1>2 DEF CasClaim, CycleStep
<1> QED
  BY <1>1, <1>2

LEMMA OneUntold ==
  ASSUME NEW a \in Attempt, \A b \in Attempt \ {a} : run'[b] = run[b],
         run'[a].pc \in Untold => run[a].pc \in Untold
  PROVE  NoneUntold
  BY DEF NoneUntold

LEMMA EndsUntold ==
  ASSUME TypeOK, NEW a \in Attempt, Ends(a)
  PROVE  NoneUntold
<1>1. run'[a].pc = "idle" /\ \A b \in Attempt \ {a} : run'[b] = run[b]
  BY OneEnds
<1> QED
  BY <1>1, OneUntold DEF Untold, Waiting

LEMMA GoesUntold ==
  ASSUME TypeOK, NEW a \in Attempt, NEW pc \in AttemptPc \ {"idle"}, ~At(a, "idle"), Goto(a, pc),
         pc \in Untold => run[a].pc \in Untold
  PROVE  NoneUntold
<1>1. run'[a].pc = pc /\ \A b \in Attempt \ {a} : run'[b] = run[b]
  BY OneMoves
<1> QED
  BY <1>1, OneUntold

LEMMA StepCycle ==
  TypeOK /\ Books /\ Unheard /\ [Next]_vars => CycleStep /\ Unheard'
<1> SUFFICES ASSUME TypeOK, Books, Unheard, [Next]_vars PROVE CycleStep /\ Unheard'
  OBVIOUS
<1>a. AttemptPc = {"idle", "seen", "willing", "clearing", "claimed", "releasing",
                   "resolving", "checking", "owner", "sending", "accepted", "failed"}
  BY DEF AttemptPc
<1>b. Untold = {"claimed", "releasing", "resolving", "checking", "owner", "sending", "failed"}
  BY DEF Untold, Waiting
<1>c. UNCHANGED run => NoneUntold
  BY DEF NoneUntold
<1>k. ASSUME NoneUntold, heard' = heard, CycleStep, token' \in {token, None}
      PROVE  CycleStep /\ Unheard'
  BY <1>k, StaysUnheard, IdAssumption
<1>s. ASSUME NoneUntold, Still PROVE CycleStep /\ Unheard'
  BY <1>s, StaysUnheard, IdAssumption DEF Still, CycleStep
<1>1. ASSUME NEW p \in Proc, Pass(p) PROVE CycleStep /\ Unheard'
  <2>1. heard' = heard /\ UNCHANGED run
    BY <1>1 DEF Pass, Fold, Measure, Arm, Reduce, RustPass, SwitchOff, Rearm
  <2>2. \/ UNCHANGED row
        \/ Cas("delivered", "empty") \/ Cas("empty", "pending") \/ Cas("pending", "empty")
    BY <1>1 DEF Pass, Fold, Measure, Arm, Reduce, RustPass, SwitchOff, Rearm
  <2>3. CycleStep /\ token' \in {token, None}
    BY <2>1, <2>2, RowCycles
  <2> QED
    BY <1>c, <1>k, <2>1, <2>3
<1>2. ASSUME NEW p \in Proc, Crash(p) PROVE CycleStep /\ Unheard'
  <2>1. \A a \in Attempt : run'[a] = run[a] \/ run'[a].pc = "idle"
    BY <1>2 DEF Crash, IdleAttempt
  <2>2. NoneUntold
    BY <1>b, <2>1 DEF NoneUntold
  <2> QED
    BY <1>2, <1>s, <2>2 DEF Crash, Still
<1>3. ASSUME NEW p \in Proc, NEW a \in Attempt, Begin(a, p) PROVE CycleStep /\ Unheard'
  <2>1. \A b \in Attempt : run'[b] = run[b] \/ run'[b].pc = "seen"
    BY <1>3 DEF Begin, IdleAttempt, TypeOK
  <2>2. NoneUntold
    BY <1>b, <2>1 DEF NoneUntold
  <2> QED
    BY <1>3, <1>s, <2>2 DEF Begin, Still
<1>4. CASE SwitchedOff \/ Heal
  <2>1. Set("empty") /\ heard' = heard /\ Reaped
    BY <1>4 DEF SwitchedOff, Heal
  <2>2. NoneUntold
    BY <2>1, ReapingMarks DEF NoneUntold
  <2>3. CycleStep /\ token' \in {token, None}
    BY <2>1, RowCycles
  <2> QED
    BY <1>k, <2>1, <2>2, <2>3
<1>5. CASE RunEnds \/ RunResumes \/ Tick \/ UNCHANGED vars
  <2>1. UNCHANGED <<state, token, heard>> /\ UNCHANGED run
    BY <1>5 DEF RunEnds, RunResumes, Tick, vars
  <2> QED
    BY <1>c, <1>k, <2>1 DEF CycleStep
\* An attempt, before it has the claim and where it has told the agent nothing.
<1>6. ASSUME NEW a \in Attempt, Evaluate(a) \/ Recheck(a) \/ Resolved(a) \/ CheckClaim(a) \/ StartSend(a)
      PROVE  CycleStep /\ Unheard'
  <2>1. NoneUntold
    <3>1. CASE Ends(a)
      BY <3>1, EndsUntold
    <3>2. CASE ~ Ends(a)
      <4>1. /\ ~ At(a, "idle")
            /\ \/ Goto(a, "willing") \/ Goto(a, "clearing")
               \/ run[a].pc \in Untold /\ \E pc \in Untold : Goto(a, pc)
        BY <1>6, <1>b, <3>2 DEF Evaluate, Recheck, Resolved, CheckClaim, StartSend, At
      <4> QED
        BY <1>a, <1>b, <4>1, GoesUntold
    <3> QED
      BY <3>1, <3>2
  <2>2. Still
    BY <1>6 DEF Evaluate, Recheck, Resolved, CheckClaim, StartSend, Still
  <2> QED
    BY <1>s, <2>1, <2>2
<1>7. ASSUME NEW a \in Attempt, SendFails(a) \/ StatementFails(a) PROVE CycleStep /\ Unheard'
  <2>1. NoneUntold
    <3>1. CASE Ends(a)
      BY <3>1, EndsUntold
    <3>2. CASE ~ Ends(a)
      <4>1. /\ ~ At(a, "idle")
            /\ \/ Goto(a, "clearing")
               \/ run[a].pc \in Untold /\ \E pc \in Untold : Goto(a, pc)
        BY <1>7, <1>b, <3>2 DEF SendFails, StatementFails, At
      <4> QED
        BY <1>a, <1>b, <4>1, GoesUntold
    <3> QED
      BY <3>1, <3>2
  <2>2. Still
    BY <1>7 DEF SendFails, StatementFails, Still
  <2> QED
    BY <1>s, <2>1, <2>2
<1>8. ASSUME NEW a \in Attempt, ClearIntent(a) PROVE CycleStep /\ Unheard'
  <2>1. heard' = heard /\ Cas("pending", "empty") /\ Ends(a)
    BY <1>8 DEF ClearIntent
  <2>2. CycleStep /\ token' \in {token, None}
    BY <2>1, RowCycles
  <2> QED
    BY <1>k, <2>1, <2>2, EndsUntold
<1>9. ASSUME NEW a \in Attempt, TryClaim(a) PROVE CycleStep /\ Unheard'
  <2>1. CASE state = "pending"
    <3>1. state' = "claimed" /\ token' = a /\ heard' = FALSE
      BY <1>9, <2>1 DEF TryClaim, Claim
    <3> QED
      BY <2>1, <3>1 DEF CycleStep, Cycle!Next, Cycle!Take, Cycle!Is, Unheard
  <2>2. CASE state # "pending"
    <3>1. Ends(a) /\ Still
      BY <1>9, <2>2 DEF TryClaim, Claim, Still
    <3> QED
      BY <1>s, <3>1, EndsUntold
  <2> QED
    BY <2>1, <2>2
<1>10. ASSUME NEW a \in Attempt, ReleaseClaim(a) PROVE CycleStep /\ Unheard'
  <2>1. heard' = heard /\ CasClaim(a, "empty") /\ Ends(a)
    BY <1>10 DEF ReleaseClaim
  <2>2. CycleStep /\ token' \in {token, None}
    BY <2>1, ClaimCycles
  <2> QED
    BY <1>k, <2>1, <2>2, EndsUntold
<1>11. ASSUME NEW a \in Attempt, Accept(a) PROVE CycleStep /\ Unheard'
  <2>1. run[a].pc = "sending" /\ UNCHANGED <<state, token>> /\ Goto(a, "accepted")
        /\ heard' = (heard \/ token = a)
    BY <1>11 DEF Accept, At
  <2>2. run'[a].pc = "accepted" /\ \A b \in Attempt \ {a} : run'[b] = run[b]
    BY <1>a, <2>1, OneMoves DEF At
  <2>3. CASE token = a
    <3>1. state = "claimed" /\ heard' = TRUE
      BY <2>1, <2>3, IdAssumption DEF TypeOK
    <3>2. CycleStep
      BY <2>1, <3>1 DEF CycleStep, Cycle!Next, Cycle!Tell
    <3>3. Unheard'
      BY <1>b, <2>1, <2>2, <2>3 DEF Unheard
    <3> QED
      BY <3>2, <3>3
  <2>4. CASE token # a
    <3>1. heard' = heard
      BY <2>1, <2>4, Zenon DEF TypeOK
    <3>2. NoneUntold
      BY <1>b, <2>2, OneUntold
    <3>3. CycleStep
      BY <2>1, <3>1 DEF CycleStep
    <3> QED
      BY <1>k, <2>1, <3>1, <3>2, <3>3
  <2> QED
    BY <2>3, <2>4
<1>12. ASSUME NEW a \in Attempt, Restore(a) PROVE CycleStep /\ Unheard'
  <2>1. heard' = heard /\ CasClaim(a, "pending") /\ Ends(a) /\ run[a].pc = "failed"
    BY <1>12 DEF Restore, At
  <2>2. Owns(a) => ~heard
    BY <1>b, <2>1 DEF Owns, Unheard
  <2>3. CycleStep /\ token' \in {token, None}
    BY <2>1, <2>2, ClaimCycles
  <2> QED
    BY <1>k, <2>1, <2>3, EndsUntold
<1>13. ASSUME NEW a \in Attempt, Confirm(a) PROVE CycleStep /\ Unheard'
  <2>1. heard' = heard /\ CasClaim(a, "delivered") /\ Ends(a) /\ run[a].pc = "accepted"
    BY <1>13 DEF Confirm, At
  <2>2. Owns(a) => heard
    BY <2>1 DEF Owns, Books
  <2>3. CycleStep /\ token' \in {token, None}
    BY <2>1, <2>2, ClaimCycles
  <2> QED
    BY <1>k, <2>1, <2>3, EndsUntold
<1> QED
  BY <1>1, <1>2, <1>3, <1>4, <1>5, <1>6, <1>7, <1>8, <1>9, <1>10, <1>11, <1>12, <1>13
  DEF Next, Step

\* Whoever sends, fails, hangs or dies: the row goes through the cycle that
\* NudgeCycle promises.  It is consumed only under a claim whose message was
\* taken, and an attempt whose message was taken never puts the intent back.
THEOREM CycleImplemented == Spec => CycleSpec
<1>1. Init => Cycle!Init /\ Unheard
  <2>1. Init => Unheard
    BY DEF Init, Unheard
  <2> QED
    BY <2>1 DEF Init, Cycle!Init
<1>2. TypeOK /\ Books /\ Unheard /\ [Next]_vars => CycleStep /\ Unheard'
  BY StepCycle
<1> QED
  BY <1>1, <1>2, BooksInvariant, PTL DEF Spec, CycleSpec, Cycle!Spec, CycleStep

\* A cycle is marked as consumed only for a message that was accepted.
THEOREM ConsumedWasHeard == Spec => []ConsumedIsHeard
<1>1. Books => ConsumedIsHeard
  BY DEF Books
<1> QED
  BY <1>1, BooksInvariant, PTL
=============================================================================
