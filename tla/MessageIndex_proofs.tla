------------------------ MODULE MessageIndex_proofs ------------------------
(* Theorems about MessageIndex, for every value of its constants. *)
EXTENDS MessageIndex, SequenceTheorems, TLAPS

Place == 0..MaxMsg
Entry == {None} \cup [id : Id, ver : Rev]
Job == [op : {"single"}, id : Id] \cup [op : {"reconcile", "reindex", "clear"}, id : {0}]
Later == {"reconcile", "clear"}
Pc == {"idle", "mark", "write", "after", "page", "next", "yield"}
Local == [id : Place, ord : Place, ver : Rev, was : BOOLEAN, mark : Place, floor : Place,
          final : Place, cursor : Place, page : [Ordinal -> Entry]]
Process == [pc : Pc, queue : Seq(Job), later : Seq(Later), timers : SUBSET Id,
            reconciled : BOOLEAN, scheduled : BOOLEAN, done : SUBSET Message, it : Local]

\* An operation is at the head of its queue; one on a message has it and its place.
AtWork(P) == /\ P.pc # "idle" => P.queue # <<>>
             /\ P.pc \in {"mark", "write", "after"} => P.it.id \in Id /\ P.it.ord \in Ordinal
\* The note that a reconciliation is scheduled has one to show.
Noted(P) == P.scheduled => \/ \E k \in DOMAIN P.later : P.later[k] = "reconcile"
                           \/ \E k \in DOMAIN P.queue : P.queue[k].op = "reconcile"
Sound(P) == P \in Process /\ AtWork(P) /\ Noted(P)

HostInv ==
  /\ history \in Seq(Id) /\ Len(history) <= coming - 1
  /\ ver \in [Id -> Rev] /\ coming \in 1..MaxMsg + 1 /\ open \subseteq Id /\ edits \in Rev
  /\ \A i \in Id : ver[i] <= edits
IndexInv ==
  /\ source \in [Id -> [ord : Place, ver : Rev]]
  /\ doc \in [Ordinal -> Entry] /\ stray \subseteq Doc \ {None}
  /\ water \in Place /\ dirty \in Place
ProcInv == proc \in [Proc -> Process] /\ \A p \in Proc : Sound(proc[p])
NotesInv == lost \subseteq Id /\ broken \in BOOLEAN /\ faults \in 0..MaxFaults
TypeInv == HostInv /\ IndexInv /\ ProcInv /\ NotesInv

\* As long as nothing was removed, a message's ordinal is its own for all
\* who have read it, and its source says where its document is.
OwnLocals(P) ==
  /\ P.pc \in {"mark", "write", "after"} => P.it.ord = P.it.id
  /\ P.pc = "page" => \A o \in Ordinal : P.it.page[o] = None \/ P.it.page[o].id = o
OwnHistory == \A o \in DOMAIN history : history[o] = o
OwnIndex ==
  /\ stray = {}
  /\ \A o \in Ordinal : doc[o] = None \/ (doc[o].id = o /\ source[o].ord = o)
  /\ \A i \in Id : source[i].ord \in {0, i}
OwnPlaces == OwnHistory /\ OwnIndex /\ \A p \in Proc : OwnLocals(proc[p])
Inv == TypeInv /\ (Removed = 0 => OwnPlaces)

-----------------------------------------------------------------------------
(* Queues. *)

LEMMA EmptyQueue == ASSUME NEW S PROVE <<>> \in Seq(S)
  OBVIOUS

LEMMA AppendKeeps ==
  ASSUME NEW S, NEW q \in Seq(S), NEW x \in S
  PROVE  /\ Append(q, x) \in Seq(S) /\ Append(q, x) # <<>>
         /\ \A k \in DOMAIN q : k \in DOMAIN Append(q, x) /\ Append(q, x)[k] = q[k]
         /\ \E k \in DOMAIN Append(q, x) : Append(q, x)[k] = x
  <1>1. Append(q, x) \in Seq(S) /\ Len(Append(q, x)) = Len(q) + 1
    OBVIOUS
  <1>2. Append(q, x)[Len(q) + 1] = x /\ Len(q) + 1 \in DOMAIN Append(q, x)
    OBVIOUS
  <1> QED
    BY <1>1, <1>2

LEMMA TailKeeps ==
  ASSUME NEW S, NEW q \in Seq(S), q # <<>>
  PROVE  /\ Tail(q) \in Seq(S) /\ Head(q) \in S /\ Head(q) = q[1]
         /\ \A k \in DOMAIN q : k = 1 \/ (k - 1 \in DOMAIN Tail(q) /\ Tail(q)[k - 1] = q[k])
  OBVIOUS

-----------------------------------------------------------------------------
(* What is done to a process keeps it sound. *)

LEMMA ConstantsSound ==
  /\ MaxMsg \in Nat /\ MaxEdits \in Nat /\ 0 \in Place /\ 0 \in Rev
  /\ Id \subseteq Place /\ Ordinal = Id /\ Id \subseteq Nat
  /\ None \in Entry /\ NoPage \in [Ordinal -> Entry] /\ NoLocals \in Local
  BY BoundAssumption DEF Place, Rev, Id, Ordinal, Entry, NoPage, NoLocals, Local

LEMMA FreshSound == Sound(Fresh)
  BY ConstantsSound DEF Sound, Fresh, Process, AtWork, Noted, Pc

LEMMA EndedSound ==
  ASSUME NEW P, Sound(P), P.queue # <<>>
  PROVE  Sound(Ended(P)) /\ Ended(P).pc = "idle"
  <1>1. P.queue \in Seq(Job) /\ P.later \in Seq(Later)
    BY DEF Sound, Process
  <1>2. Tail(P.queue) \in Seq(Job) /\ Head(P.queue) = P.queue[1]
    BY <1>1, TailKeeps
  <1>3. Ended(P) \in Process /\ Ended(P).pc = "idle"
    BY <1>2, ConstantsSound DEF Sound, Ended, Process, Pc
  <1>4. Noted(Ended(P))
    <2>1. SUFFICES ASSUME P.scheduled, Head(P.queue).op # "reconcile"
                   PROVE  \/ \E k \in DOMAIN P.later : P.later[k] = "reconcile"
                          \/ \E k \in DOMAIN Tail(P.queue) : Tail(P.queue)[k].op = "reconcile"
      BY DEF Noted, Ended, Sound, Process
    <2>2. CASE \E k \in DOMAIN P.later : P.later[k] = "reconcile"
      BY <2>2
    <2>3. CASE \E k \in DOMAIN P.queue : P.queue[k].op = "reconcile"
      <3>1. PICK k \in DOMAIN P.queue : P.queue[k].op = "reconcile"
        BY <2>3
      <3>2. k - 1 \in DOMAIN Tail(P.queue) /\ Tail(P.queue)[k - 1] = P.queue[k]
        BY <3>1, <2>1, <1>1, <1>2, TailKeeps
      <3> QED
        BY <3>1, <3>2
    <2> QED
      BY <2>1, <2>2, <2>3 DEF Sound, Noted
  <1> QED
    BY <1>3, <1>4 DEF Sound, AtWork

\* A process that is given a flag or another set of what is done.
LEMMA FlagSound ==
  ASSUME NEW P, Sound(P), NEW r \in BOOLEAN
  PROVE  Sound([P EXCEPT !.reconciled = r]) /\ [P EXCEPT !.reconciled = r].pc = P.pc
  BY DEF Sound, Process, AtWork, Noted

LEMMA DoneSound ==
  ASSUME NEW P, Sound(P), NEW D \in SUBSET Message
  PROVE  Sound([P EXCEPT !.done = D]) /\ [P EXCEPT !.done = D].pc = P.pc
  BY DEF Sound, Process, AtWork, Noted

LEMMA FlagAndDoneSound ==
  ASSUME NEW P, Sound(P), NEW r \in BOOLEAN, NEW D \in SUBSET Message
  PROVE  /\ Sound([P EXCEPT !.reconciled = r, !.done = D])
         /\ [P EXCEPT !.reconciled = r, !.done = D].pc = P.pc
  BY DEF Sound, Process, AtWork, Noted

LEMMA UnsettledSound ==
  ASSUME NEW P, Sound(P), P.queue # <<>>
  PROVE  Sound(Unsettled(P)) /\ Unsettled(P).pc = "idle"
  BY EndedSound, FlagSound DEF Unsettled

LEMMA ScheduledSound ==
  ASSUME NEW P, Sound(P)
  PROVE  Sound(Scheduled(P)) /\ Scheduled(P).pc = P.pc /\ Scheduled(P).it = P.it
  <1>1. P.later \in Seq(Later) /\ "reconcile" \in Later /\ P \in Process
    BY DEF Sound, Process, Later
  <1>2. CASE P.reconciled \/ P.scheduled
    BY <1>2 DEF Scheduled
  <1>3. CASE ~(P.reconciled \/ P.scheduled)
    <2>1. Append(P.later, "reconcile") \in Seq(Later)
          /\ \E k \in DOMAIN Append(P.later, "reconcile") : Append(P.later, "reconcile")[k] = "reconcile"
      BY <1>1, AppendKeeps
    <2> QED
      BY <1>1, <1>3, <2>1 DEF Scheduled, Sound, Process, AtWork, Noted
  <1> QED
    BY <1>2, <1>3

LEMMA NoticedSound ==
  ASSUME NEW P, Sound(P), NEW i \in Id
  PROVE  Sound(Noticed(P, i)) /\ Noticed(P, i).pc = P.pc /\ Noticed(P, i).it = P.it
  BY DEF Noticed, Sound, Process, AtWork, Noted

\* An operation is put behind the others.
LEMMA QueuedSound ==
  ASSUME NEW P, Sound(P), NEW j \in Job
  PROVE  Sound([P EXCEPT !.queue = Append(@, j)])
  <1>1. P.queue \in Seq(Job) /\ P \in Process
    BY DEF Sound, Process
  <1>2. /\ Append(P.queue, j) \in Seq(Job) /\ Append(P.queue, j) # <<>>
        /\ \A k \in DOMAIN P.queue :
             k \in DOMAIN Append(P.queue, j) /\ Append(P.queue, j)[k] = P.queue[k]
    BY <1>1, AppendKeeps
  <1>3. [P EXCEPT !.queue = Append(@, j)] \in Process
    BY <1>1, <1>2 DEF Process
  <1>4. AtWork([P EXCEPT !.queue = Append(@, j)])
    BY <1>1, <1>2 DEF AtWork, Sound, Process
  <1>5. Noted([P EXCEPT !.queue = Append(@, j)])
    BY <1>1, <1>2 DEF Noted, Sound, Process
  <1> QED
    BY <1>3, <1>4, <1>5 DEF Sound

LEMMA LaterSound ==
  ASSUME NEW P, Sound(P), NEW x \in Later
  PROVE  /\ Sound([P EXCEPT !.later = Append(@, x)])
         /\ P.later # <<>> /\ P.later[1] = "reconcile" =>
              Sound([P EXCEPT !.later = Tail(@), !.queue = Append(@, Op("reconcile", 0))])
         /\ P.later # <<>> /\ P.later[1] = "clear" =>
              Sound([P EXCEPT !.later = Tail(@), !.queue = Append(@, Op("clear", 0))])
  <1>1. P.queue \in Seq(Job) /\ P.later \in Seq(Later) /\ P \in Process
    BY DEF Sound, Process
  <1>2. Sound([P EXCEPT !.later = Append(@, x)])
    <2>1. /\ Append(P.later, x) \in Seq(Later)
          /\ \A k \in DOMAIN P.later :
               k \in DOMAIN Append(P.later, x) /\ Append(P.later, x)[k] = P.later[k]
      BY <1>1, AppendKeeps
    <2> QED
      BY <1>1, <2>1 DEF Sound, Process, AtWork, Noted
  <1>3. ASSUME NEW n \in Later, P.later # <<>>, P.later[1] = n
        PROVE  Sound([P EXCEPT !.later = Tail(@), !.queue = Append(@, Op(n, 0))])
    <2> DEFINE Q == [P EXCEPT !.later = Tail(@), !.queue = Append(@, Op(n, 0))]
    <2>1. Op(n, 0) \in Job
      BY DEF Op, Job, Later
    <2>2. /\ Append(P.queue, Op(n, 0)) \in Seq(Job) /\ Append(P.queue, Op(n, 0)) # <<>>
          /\ \A k \in DOMAIN P.queue : k \in DOMAIN Append(P.queue, Op(n, 0))
                                       /\ Append(P.queue, Op(n, 0))[k] = P.queue[k]
          /\ \E k \in DOMAIN Append(P.queue, Op(n, 0)) : Append(P.queue, Op(n, 0))[k] = Op(n, 0)
      <3> DEFINE s == P.queue
                 j == Op(n, 0)
      <3>1. s \in Seq(Job) /\ j \in Job
        BY <1>1, <2>1
      <3> HIDE DEF s, j
      <3>2. /\ Append(s, j) \in Seq(Job) /\ Append(s, j) # <<>>
            /\ \A k \in DOMAIN s : k \in DOMAIN Append(s, j) /\ Append(s, j)[k] = s[k]
            /\ \E k \in DOMAIN Append(s, j) : Append(s, j)[k] = j
        BY <3>1, AppendKeeps
      <3> QED
        BY <3>2 DEF s, j
    <2>3. /\ Tail(P.later) \in Seq(Later)
          /\ \A k \in DOMAIN P.later : k = 1 \/ (k - 1 \in DOMAIN Tail(P.later)
                                                 /\ Tail(P.later)[k - 1] = P.later[k])
      BY <1>1, <1>3, TailKeeps
    <2>4. Q \in Process
      BY <1>1, <2>2, <2>3 DEF Process
    <2>5. Q.queue = Append(P.queue, Op(n, 0)) /\ Q.later = Tail(P.later)
          /\ Q.scheduled = P.scheduled /\ Q.pc = P.pc /\ Q.it = P.it
      BY <1>1 DEF Process
    <2> HIDE DEF Q
    <2>6. AtWork(Q)
      BY <2>2, <2>5 DEF AtWork, Sound
    <2>7. ASSUME Q.scheduled
          PROVE  \/ \E k \in DOMAIN Q.later : Q.later[k] = "reconcile"
                 \/ \E k \in DOMAIN Q.queue : Q.queue[k].op = "reconcile"
      <3>1. CASE \E k \in DOMAIN P.queue : P.queue[k].op = "reconcile"
        BY <3>1, <2>2, <2>5
      <3>2. CASE \E k \in DOMAIN P.later : P.later[k] = "reconcile"
        <4>1. PICK k \in DOMAIN P.later : P.later[k] = "reconcile"
          BY <3>2
        <4>2. CASE k = 1
          BY <4>1, <4>2, <1>3, <2>2, <2>5 DEF Op
        <4>3. CASE k # 1
          BY <4>1, <4>3, <2>3, <2>5
        <4> QED
          BY <4>2, <4>3
      <3> QED
        BY <2>7, <2>5, <3>1, <3>2 DEF Sound, Noted
    <2> QED
      BY <2>4, <2>6, <2>7 DEF Sound, Noted, Q
  <1> QED
    BY <1>2, <1>3 DEF Later

-----------------------------------------------------------------------------
(* Places in the history. *)

LEMMA Ranges ==
  ASSUME TypeInv
  PROVE  /\ Len(history) \in Place /\ StartOrdinal \in Place
         /\ DOMAIN history = 1..Len(history) /\ DOMAIN history \subseteq Ordinal
         /\ \A o \in DOMAIN history : history[o] \in Id
         /\ \A n \in Place : ReconciledThrough(n) \in BOOLEAN
  <1>1. MaxMsg \in Nat /\ Id = 1..MaxMsg /\ Ordinal = 1..MaxMsg /\ Place = 0..MaxMsg
    BY BoundAssumption DEF Id, Ordinal, Place
  <1>2. history \in Seq(Id) /\ Len(history) <= MaxMsg
    BY <1>1 DEF TypeInv, HostInv
  <1>3. Len(history) \in Place /\ DOMAIN history = 1..Len(history)
    BY <1>1, <1>2
  <1>4. DOMAIN history \subseteq Ordinal
    BY <1>1, <1>3
  <1>5. \A o \in DOMAIN history : history[o] \in Id
    BY <1>2
  <1>6. water \in Nat /\ water <= MaxMsg /\ dirty \in Nat
    BY <1>1 DEF TypeInv, IndexInv
  <1>7. StartOrdinal \in Place
    BY <1>1, <1>6 DEF StartOrdinal, Least
  <1>8. \A n \in Place : ReconciledThrough(n) \in BOOLEAN
    BY DEF ReconciledThrough
  <1> QED
    BY <1>3, <1>4, <1>5, <1>7, <1>8

LEMMA OrdinalOfPlace ==
  ASSUME TypeInv, NEW i \in Id, OrdinalOf(i) # 0
  PROVE  OrdinalOf(i) \in DOMAIN history /\ history[OrdinalOf(i)] = i
  <1>1. i \in ToSet(history)
    BY DEF OrdinalOf
  <1>2. \E o \in DOMAIN history : history[o] = i
    BY <1>1 DEF ToSet
  <1> QED
    BY <1>1, <1>2 DEF OrdinalOf

LEMMA OrdinalOfType ==
  ASSUME TypeInv, NEW i \in Id
  PROVE  OrdinalOf(i) \in Place /\ (OrdinalOf(i) # 0 => OrdinalOf(i) \in Ordinal)
  <1>1. CASE OrdinalOf(i) = 0
    BY <1>1, ConstantsSound
  <1>2. CASE OrdinalOf(i) # 0
    BY <1>2, OrdinalOfPlace, Ranges, ConstantsSound
  <1> QED
    BY <1>1, <1>2

LEMMA PageRead ==
  ASSUME TypeInv, NEW P, Sound(P), P.queue # <<>>
  PROVE  Sound(ReadPage(P)) /\ (OwnHistory => OwnLocals(ReadPage(P)))
  <1> DEFINE page == [o \in Ordinal |->
                        IF o \in P.it.cursor + 1..Least(PageEnd(P.it), Len(history))
                        THEN [id |-> history[o], ver |-> ver[history[o]]] ELSE None]
  <1>1. ASSUME NEW o \in Ordinal, o \in P.it.cursor + 1..Least(PageEnd(P.it), Len(history))
        PROVE  o \in DOMAIN history /\ history[o] \in Id /\ ver[history[o]] \in Rev
    <2>1. P.it.cursor \in Nat /\ P.it.final \in Nat /\ Page \in Nat
      BY BoundAssumption DEF Sound, Process, Local, Place
    <2>2. o \in 1..Len(history)
      BY <1>1, <2>1, Ranges, ConstantsSound DEF Least, PageEnd, Place
    <2> QED
      BY <2>2, Ranges DEF TypeInv, HostInv
  <1>2. page \in [Ordinal -> Entry]
    BY <1>1 DEF Entry
  <1>3. OwnHistory => \A o \in Ordinal : page[o] = None \/ page[o].id = o
    BY <1>1 DEF OwnHistory
  <1>4. ReadPage(P) = [P EXCEPT !.pc = "page", !.it.page = page]
    BY DEF ReadPage
  <1> HIDE DEF page
  <1>5. [P EXCEPT !.pc = "page", !.it.page = page] \in Process
    BY <1>2 DEF Sound, Process, Local, Pc
  <1>6. /\ ReadPage(P).pc = "page" /\ ReadPage(P).it.page = page
        /\ ReadPage(P).queue = P.queue /\ ReadPage(P).later = P.later
        /\ ReadPage(P).scheduled = P.scheduled
    BY <1>4 DEF Sound, Process, Local
  <1>7. AtWork(ReadPage(P))
    BY <1>6 DEF AtWork
  <1>8. Noted(ReadPage(P))
    BY <1>6 DEF Sound, Noted
  <1> QED
    BY <1>3, <1>4, <1>5, <1>6, <1>7, <1>8 DEF Sound, OwnLocals

LEMMA ReconciledSound ==
  ASSUME TypeInv, NEW P, Sound(P), P.queue # <<>>, NEW n \in Place
  PROVE  Sound(Reconciled(P, n)) /\ Reconciled(P, n).pc = "idle"
  <1> DEFINE r == Ended(P).reconciled \/ ReconciledThrough(n)
  <1>1. Sound(Ended(P)) /\ Ended(P).pc = "idle"
    BY EndedSound
  <1>2. r \in BOOLEAN
    OBVIOUS
  <1>3. Reconciled(P, n) = [Ended(P) EXCEPT !.reconciled = r]
    BY DEF Reconciled
  <1> HIDE DEF r
  <1> QED
    BY <1>1, <1>2, <1>3, FlagSound

-----------------------------------------------------------------------------
(* Steps that change a process, and neither the host nor the index. *)

LEMMA ProcessMoves ==
  ASSUME TypeInv, NEW p \in Proc, NEW P, Sound(P), Moved(p, P)
  PROVE  /\ ProcInv'
         /\ (\A q \in Proc : OwnLocals(proc[q])) /\ OwnLocals(P)
              => \A q \in Proc : OwnLocals(proc'[q])
  <1>1. proc \in [Proc -> Process] /\ P \in Process /\ \A q \in Proc : Sound(proc[q])
    BY DEF TypeInv, ProcInv, Sound
  <1>2. proc' \in [Proc -> Process] /\ \A q \in Proc : proc'[q] = IF q = p THEN P ELSE proc[q]
    BY <1>1 DEF Moved
  <1> QED
    BY <1>1, <1>2 DEF ProcInv

LEMMA QuietStep ==
  ASSUME Inv, NEW p \in Proc, NEW P, Sound(P), Moved(p, P), UNCHANGED <<host, index>>, NotesInv',
         OwnHistory /\ OwnLocals(proc[p]) => OwnLocals(P)
  PROVE  Inv'
  <1>1. TypeInv /\ (Removed = 0 => OwnPlaces)
    BY DEF Inv
  <1>2. HostInv' /\ IndexInv'
    BY <1>1 DEF TypeInv, HostInv, IndexInv, host, index
  <1>3. ProcInv'
    BY <1>1, ProcessMoves
  <1>4. Removed' = Removed /\ (OwnHistory <=> OwnHistory') /\ (OwnIndex <=> OwnIndex')
    BY DEF Removed, OwnHistory, OwnIndex, host, index
  <1>5. Removed = 0 => \A q \in Proc : OwnLocals(proc'[q])
    BY <1>1, ProcessMoves DEF OwnPlaces
  <1> QED
    BY <1>1, <1>2, <1>3, <1>4, <1>5 DEF Inv, TypeInv, OwnPlaces

LEMMA NotesStay == ASSUME TypeInv, UNCHANGED notes PROVE NotesInv'
  BY DEF TypeInv, NotesInv, notes

LEMMA OverlapsStay ==
  ASSUME TypeInv, NEW p \in Proc, Overlaps(p), UNCHANGED <<lost, faults>>
  PROVE  NotesInv'
  BY DEF TypeInv, NotesInv, Overlaps, Others

LEMMA IdleIsOwn == ASSUME NEW P, P.pc = "idle" PROVE OwnLocals(P)
  BY DEF OwnLocals

LEMMA ProcSound == ASSUME TypeInv, NEW p \in Proc PROVE Sound(proc[p])
  BY DEF TypeInv, ProcInv

LEMMA TouchKeeps == ASSUME Inv, NEW p \in Proc, Touch(p) PROVE Inv'
  <1>1. Sound(Scheduled(proc[p])) /\ Scheduled(proc[p]).pc = proc[p].pc
        /\ Scheduled(proc[p]).it = proc[p].it
    BY ProcSound, ScheduledSound DEF Inv
  <1>2. OwnLocals(proc[p]) => OwnLocals(Scheduled(proc[p]))
    BY <1>1 DEF OwnLocals
  <1>3. Moved(p, Scheduled(proc[p])) /\ UNCHANGED <<host, index>> /\ NotesInv'
    BY NotesStay DEF Touch, Inv
  <1> QED
    BY <1>1, <1>2, <1>3, QuietStep

LEMMA TimerFiresKeeps == ASSUME Inv, NEW p \in Proc, TimerFires(p) PROVE Inv'
  <1>1. PICK i \in proc[p].timers :
          Moved(p, [proc[p] EXCEPT !.timers = @ \ {i}, !.queue = Append(@, Op("single", i))])
    BY DEF TimerFires
  <1> DEFINE Q == [proc[p] EXCEPT !.queue = Append(@, Op("single", i))]
             P == [proc[p] EXCEPT !.timers = @ \ {i}, !.queue = Append(@, Op("single", i))]
  <1>2. Sound(proc[p])
    BY ProcSound DEF Inv
  <1>3. Op("single", i) \in Job
    BY <1>2 DEF Op, Job, Sound, Process
  <1>4. Sound(Q)
    BY <1>2, <1>3, QueuedSound
  <1>5. P = [Q EXCEPT !.timers = @ \ {i}] /\ P.pc = proc[p].pc /\ P.it = proc[p].it
    BY <1>2 DEF Sound, Process
  <1> HIDE DEF Q
  <1>6. Sound(P)
    BY <1>4, <1>5 DEF Sound, Process, AtWork, Noted
  <1>7. OwnLocals(proc[p]) => OwnLocals(P)
    BY <1>5 DEF OwnLocals
  <1>8. UNCHANGED <<host, index>> /\ NotesInv'
    BY NotesStay DEF TimerFires, Inv
  <1> HIDE DEF P
  <1> QED
    BY <1>1, <1>6, <1>7, <1>8, QuietStep DEF P

LEMMA LaterFiresKeeps == ASSUME Inv, NEW p \in Proc, LaterFires(p) PROVE Inv'
  <1>1. Sound(proc[p]) /\ proc[p].later \in Seq(Later) /\ proc[p].later # <<>> /\ proc[p] \in Process
    BY ProcSound DEF Inv, Sound, Process, LaterFires
  <1> DEFINE P == [proc[p] EXCEPT !.later = Tail(@), !.queue = Append(@, Op(Head(proc[p].later), 0))]
  <1>2. Head(proc[p].later) = proc[p].later[1] /\ Head(proc[p].later) \in Later
    BY <1>1, TailKeeps
  <1>3. Sound(P)
    BY <1>1, <1>2, LaterSound DEF Later
  <1>4. P.pc = proc[p].pc /\ P.it = proc[p].it
    BY <1>1 DEF Process
  <1>5. OwnLocals(proc[p]) => OwnLocals(P)
    BY <1>4 DEF OwnLocals
  <1>6. Moved(p, P) /\ UNCHANGED <<host, index>> /\ NotesInv'
    BY NotesStay DEF LaterFires, Inv
  <1> HIDE DEF P
  <1> QED
    BY <1>3, <1>5, <1>6, QuietStep

LEMMA ReadMessageKeeps == ASSUME Inv, NEW p \in Proc, ReadMessage(p) PROVE Inv'
  <1> DEFINE i == Head(proc[p].queue).id
             m == [id |-> i, ord |-> OrdinalOf(i), ver |-> ver[i]]
             R == [Ended(proc[p]) EXCEPT !.done = @ \cup {m}]
             W == [proc[p] EXCEPT !.pc = "mark", !.reconciled = FALSE,
                         !.it = [NoLocals EXCEPT !.id = m.id, !.ord = m.ord, !.ver = m.ver,
                                   !.was = proc[p].reconciled, !.mark = water, !.floor = dirty]]
  <1>1. TypeInv /\ Sound(proc[p]) /\ proc[p].queue # <<>> /\ proc[p].queue \in Seq(Job)
        /\ Head(proc[p].queue).op = "single"
    BY ProcSound DEF Inv, Sound, Process, ReadMessage, Is
  <1>2. i \in Id
    <2>1. Head(proc[p].queue) \in Job
      BY <1>1, TailKeeps
    <2> QED
      BY <1>1, <2>1 DEF Job
  <1>3. Sound(Ended(proc[p])) /\ Ended(proc[p]).pc = "idle"
    BY <1>1, EndedSound
  <1>4. UNCHANGED <<host, index>> /\ NotesInv'
    BY <1>1, NotesStay DEF ReadMessage
  <1>5. CASE Moved(p, Ended(proc[p]))
    BY <1>3, <1>4, <1>5, QuietStep, IdleIsOwn
  <1>6. CASE m.ord # 0 /\ Moved(p, R)
    <2>1. m \in Message
      BY <1>1, <1>2, <1>6, OrdinalOfType DEF Message, TypeInv, HostInv
    <2>2. Ended(proc[p]).done \cup {m} \in SUBSET Message
      BY <1>3, <2>1 DEF Sound, Process
    <2>3. Sound(R) /\ R.pc = "idle"
      BY <1>3, <2>2, DoneSound
    <2> HIDE DEF R
    <2> QED
      BY <1>4, <1>6, <2>3, QuietStep, IdleIsOwn
  <1>7. CASE m.ord # 0 /\ Moved(p, W)
    <2>1. OrdinalOf(i) \in Ordinal /\ OrdinalOf(i) \in Place /\ i \in Place /\ ver[i] \in Rev
          /\ water \in Place /\ dirty \in Place /\ proc[p].reconciled \in BOOLEAN
          /\ proc[p] \in Process
      BY <1>1, <1>2, <1>7, OrdinalOfType, ConstantsSound
         DEF TypeInv, HostInv, IndexInv, Sound, Process
    <2>2. W \in Process
      <3>1. W.it \in Local
        BY <2>1, ConstantsSound DEF Process, Local, NoLocals
      <3>2. W = [proc[p] EXCEPT !.pc = "mark", !.reconciled = FALSE, !.it = W.it] /\ "mark" \in Pc
        BY <2>1 DEF Process, Pc
      <3> HIDE DEF W
      <3> QED
        BY <2>1, <3>1, <3>2 DEF Process
    <2>3. /\ W.pc = "mark" /\ W.it.id = i /\ W.it.ord = OrdinalOf(i)
          /\ W.queue = proc[p].queue /\ W.later = proc[p].later
          /\ W.scheduled = proc[p].scheduled
      BY <2>1 DEF Process, NoLocals
    <2>4. OwnHistory => OrdinalOf(i) = i
      BY <1>1, <1>2, <1>7, OrdinalOfPlace DEF OwnHistory
    <2> HIDE DEF W, i
    <2>5. Sound(W)
      BY <1>1, <1>2, <2>1, <2>2, <2>3 DEF Sound, AtWork, Noted
    <2>6. OwnHistory => OwnLocals(W)
      BY <2>3, <2>4 DEF OwnLocals
    <2> QED
      BY <1>4, <1>7, <2>5, <2>6, QuietStep
  <1>8. Moved(p, Ended(proc[p])) \/ (m.ord # 0 /\ Moved(p, R)) \/ (m.ord # 0 /\ Moved(p, W))
    BY DEF ReadMessage
  <1> QED
    BY <1>5, <1>6, <1>7, <1>8

LEMMA WorkHasQueue ==
  ASSUME TypeInv, NEW p \in Proc, ~At(p, "idle")
  PROVE  Sound(proc[p]) /\ proc[p].queue # <<>> /\ proc[p] \in Process
  BY ProcSound DEF Sound, AtWork, At

LEMMA AfterKeeps == ASSUME Inv, NEW p \in Proc, After(p) PROVE Inv'
  <1> DEFINE r == Ended(proc[p]).reconciled \/ (proc[p].it.was /\ dirty = 0)
             D == Ended(proc[p]).done \cup {Revision(proc[p].it)}
  <1>1. Sound(proc[p]) /\ proc[p].queue # <<>> /\ proc[p].pc = "after"
    BY WorkHasQueue DEF Inv, After, At
  <1>2. Sound(Ended(proc[p])) /\ Ended(proc[p]).pc = "idle"
    BY <1>1, EndedSound
  <1>3. Revision(proc[p].it) \in Message
    BY <1>1 DEF Revision, Message, Sound, AtWork, Process, Local
  <1>4. D \in SUBSET Message
    BY <1>2, <1>3 DEF Sound, Process
  <1>5. r \in BOOLEAN
    OBVIOUS
  <1>6. Moved(p, [Ended(proc[p]) EXCEPT !.reconciled = r, !.done = D])
    BY DEF After
  <1>7. UNCHANGED <<host, index>> /\ NotesInv'
    BY NotesStay DEF After, Inv
  <1> HIDE DEF r, D
  <1>8. Sound([Ended(proc[p]) EXCEPT !.reconciled = r, !.done = D])
        /\ [Ended(proc[p]) EXCEPT !.reconciled = r, !.done = D].pc = "idle"
    BY <1>2, <1>4, <1>5, FlagAndDoneSound
  <1> QED
    BY <1>6, <1>7, <1>8, QuietStep, IdleIsOwn

LEMMA ReconcileKeeps == ASSUME Inv, NEW p \in Proc, Reconcile(p) PROVE Inv'
  <1> DEFINE Q == [proc[p] EXCEPT !.it.final = Len(history), !.it.cursor = StartOrdinal]
  <1>1. TypeInv /\ Sound(proc[p]) /\ proc[p].queue # <<>>
    BY ProcSound DEF Inv, Reconcile, Is
  <1>2. UNCHANGED <<host, index>> /\ NotesInv'
    BY <1>1, NotesStay DEF Reconcile
  <1>3. CASE Moved(p, Ended(proc[p]))
    BY <1>1, <1>2, <1>3, EndedSound, QuietStep, IdleIsOwn
  <1>4. CASE Moved(p, Reconciled(proc[p], Len(history)))
    BY <1>1, <1>2, <1>4, Ranges, ReconciledSound, QuietStep, IdleIsOwn
  <1>5. CASE Moved(p, ReadPage(Q))
    <2>1. Sound(Q) /\ Q.queue # <<>>
      BY <1>1, Ranges DEF Sound, Process, Local, AtWork, Noted
    <2> HIDE DEF Q
    <2>2. Sound(ReadPage(Q)) /\ (OwnHistory => OwnLocals(ReadPage(Q)))
      BY <1>1, <2>1, PageRead
    <2> QED
      BY <1>2, <1>5, <2>2, QuietStep
  <1> QED
    BY <1>3, <1>4, <1>5 DEF Reconcile

LEMMA ResumeKeeps == ASSUME Inv, NEW p \in Proc, Resume(p) PROVE Inv'
  <1>1. TypeInv /\ Sound(proc[p]) /\ proc[p].queue # <<>>
    BY WorkHasQueue DEF Inv, Resume, At
  <1>2. Sound(ReadPage(proc[p])) /\ (OwnHistory => OwnLocals(ReadPage(proc[p])))
    BY <1>1, PageRead
  <1>3. Moved(p, ReadPage(proc[p])) /\ UNCHANGED <<host, index>> /\ NotesInv'
    BY <1>1, NotesStay DEF Resume
  <1> QED
    BY <1>2, <1>3, QuietStep

LEMMA NextPageKeeps == ASSUME Inv, NEW p \in Proc, NextPage(p) PROVE Inv'
  <1> DEFINE Q == [proc[p] EXCEPT !.pc = "yield", !.it.cursor = StartOrdinal]
  <1>1. TypeInv /\ Sound(proc[p]) /\ proc[p].queue # <<>> /\ proc[p].it.final \in Place
    BY WorkHasQueue DEF Inv, NextPage, At, Process, Local
  <1>2. UNCHANGED <<host, index>> /\ NotesInv'
    BY <1>1, NotesStay DEF NextPage
  <1>3. CASE Moved(p, Reconciled(proc[p], proc[p].it.final))
    BY <1>1, <1>2, <1>3, ReconciledSound, QuietStep, IdleIsOwn
  <1>4. CASE Moved(p, Q)
    <2>1. Sound(Q) /\ OwnLocals(Q)
      BY <1>1, Ranges DEF Sound, Process, Local, Pc, AtWork, Noted, OwnLocals
    <2> QED
      BY <1>2, <1>4, <2>1, QuietStep
  <1> QED
    BY <1>3, <1>4 DEF NextPage

LEMMA MarkFailsKeeps == ASSUME Inv, NEW p \in Proc, MarkFails(p) PROVE Inv'
  <1>1. Sound(proc[p]) /\ proc[p].queue # <<>> /\ proc[p].it.id \in Id
    BY WorkHasQueue DEF Inv, MarkFails, At, Sound, AtWork
  <1>2. NotesInv'
    BY <1>1, BoundAssumption DEF Inv, TypeInv, NotesInv, MarkFails, Fault
  <1> QED
    BY <1>1, <1>2, UnsettledSound, QuietStep, IdleIsOwn DEF MarkFails

LEMMA WriteFailsKeeps == ASSUME Inv, NEW p \in Proc, WriteFails(p) PROVE Inv'
  <1>1. Sound(proc[p]) /\ proc[p].queue # <<>>
    BY WorkHasQueue DEF Inv, WriteFails, At
  <1>2. NotesInv'
    BY BoundAssumption DEF Inv, TypeInv, NotesInv, WriteFails, Fault
  <1> QED
    BY <1>1, <1>2, UnsettledSound, QuietStep, IdleIsOwn DEF WriteFails

LEMMA PageFailsKeeps == ASSUME Inv, NEW p \in Proc, PageFails(p) PROVE Inv'
  <1>1. Sound(proc[p]) /\ proc[p].queue # <<>>
    BY WorkHasQueue DEF Inv, PageFails, At
  <1>2. NotesInv'
    BY BoundAssumption DEF Inv, TypeInv, NotesInv, PageFails, Fault
  <1> QED
    BY <1>1, <1>2, EndedSound, QuietStep, IdleIsOwn DEF PageFails

LEMMA ClearFailsKeeps == ASSUME Inv, NEW p \in Proc, ClearFails(p) PROVE Inv'
  <1> DEFINE Q == [proc[p] EXCEPT !.done = {}]
  <1>1. Sound(proc[p]) /\ proc[p].queue # <<>>
    BY ProcSound DEF Inv, ClearFails, Is
  <1>2. Sound(Q) /\ Q.queue # <<>>
    BY <1>1 DEF Sound, Process, AtWork, Noted
  <1>3. NotesInv'
    BY BoundAssumption DEF Inv, TypeInv, NotesInv, ClearFails, Fault
  <1>4. Moved(p, Unsettled(Q)) /\ UNCHANGED <<host, index>>
    BY DEF ClearFails
  <1> HIDE DEF Q
  <1> QED
    BY <1>2, <1>3, <1>4, UnsettledSound, QuietStep, IdleIsOwn

LEMMA CrashKeeps == ASSUME Inv, NEW p \in Proc, Crash(p) PROVE Inv'
  <1>1. Sound(proc[p]) /\ TypeInv
    BY ProcSound DEF Inv
  <1>2. proc[p].timers \subseteq Id /\ Pending(proc[p]) \ {0} \subseteq Id
    <2>1. ASSUME NEW m \in ToSet(proc[p].queue), m.id # 0
          PROVE  m.id \in Id
      BY <1>1, <2>1 DEF Sound, Process, ToSet, Job
    <2> QED
      BY <1>1, <2>1 DEF Pending, Sound, Process
  <1>3. NotesInv'
    BY <1>1, <1>2, BoundAssumption DEF TypeInv, NotesInv, Crash, Fault, Clears
  <1>4. Fresh.pc = "idle"
    BY DEF Fresh
  <1> QED
    BY <1>3, <1>4, FreshSound, QuietStep, IdleIsOwn DEF Crash

-----------------------------------------------------------------------------
(* Steps of the host. *)

LEMMA AppendSeq ==
  ASSUME NEW S, NEW s \in Seq(S), NEW x \in S
  PROVE  /\ Append(s, x) \in Seq(S) /\ Len(Append(s, x)) = Len(s) + 1 /\ Len(s) \in Nat
         /\ \A k \in DOMAIN Append(s, x) :
              (k \in DOMAIN s /\ Append(s, x)[k] = s[k]) \/ (k = Len(s) + 1 /\ Append(s, x)[k] = x)
  <1>1. Append(s, x) \in Seq(S) /\ Len(Append(s, x)) = Len(s) + 1 /\ Len(s) \in Nat
    OBVIOUS
  <1>2. ASSUME NEW k \in DOMAIN Append(s, x)
        PROVE  (k \in DOMAIN s /\ Append(s, x)[k] = s[k]) \/ (k = Len(s) + 1 /\ Append(s, x)[k] = x)
    <2>1. k \in 1..Len(s) + 1
      BY <1>1
    <2>2. CASE k = Len(s) + 1
      BY <2>2
    <2>3. CASE k # Len(s) + 1
      <3>1. k \in 1..Len(s)
        BY <1>1, <2>1, <2>3
      <3> QED
        BY <3>1
    <2> QED
      BY <2>2, <2>3
  <1> QED
    BY <1>1, <1>2

LEMMA AddKeeps == ASSUME Inv, NEW p \in Proc, Add(p) PROVE Inv'
  <1>1. TypeInv /\ Sound(proc[p]) /\ (Removed = 0 => OwnPlaces)
    BY ProcSound DEF Inv
  <1>2. coming \in Id /\ coming \in Nat /\ coming <= MaxMsg /\ coming' = coming + 1
    BY <1>1, BoundAssumption DEF Add, TypeInv, HostInv, Id
  <1>3. /\ history' \in Seq(Id) /\ Len(history') = Len(history) + 1 /\ Len(history) \in Nat
        /\ \A o \in DOMAIN history' :
             (o \in DOMAIN history /\ history'[o] = history[o]) \/ (o = Len(history) + 1 /\ history'[o] = coming)
    <2>1. history' = Append(history, coming) /\ history \in Seq(Id)
      BY <1>1 DEF Add, TypeInv, HostInv
    <2> QED
      BY <1>2, <2>1, AppendSeq
  <1>4. HostInv'
    <2>1. Len(history) <= coming - 1 /\ open \subseteq Id
      BY <1>1 DEF TypeInv, HostInv
    <2>2. open' \subseteq Id
      BY <1>2, <2>1 DEF Add, notes
    <2>3. Len(history') <= coming' - 1 /\ coming' \in 1..MaxMsg + 1
      BY <1>2, <1>3, <2>1, BoundAssumption
    <2>4. ver' = ver /\ edits' = edits
      BY DEF Add
    <2> QED
      BY <1>1, <1>3, <2>2, <2>3, <2>4 DEF TypeInv, HostInv
  <1>5. PICK P : Sound(P) /\ P.pc = proc[p].pc /\ P.it = proc[p].it /\ Moved(p, P)
    <2>1. Sound(Noticed(proc[p], coming)) /\ Noticed(proc[p], coming).pc = proc[p].pc
          /\ Noticed(proc[p], coming).it = proc[p].it
      BY <1>1, <1>2, NoticedSound
    <2>2. /\ Sound(Scheduled(Noticed(proc[p], coming)))
          /\ Scheduled(Noticed(proc[p], coming)).pc = proc[p].pc
          /\ Scheduled(Noticed(proc[p], coming)).it = proc[p].it
      BY <2>1, ScheduledSound
    <2>3. Sound(Scheduled(proc[p])) /\ Scheduled(proc[p]).pc = proc[p].pc
          /\ Scheduled(proc[p]).it = proc[p].it
      BY <1>1, ScheduledSound
    <2> QED
      BY <2>2, <2>3 DEF Add
  <1>6. ProcInv' /\ IndexInv' /\ NotesInv'
    BY <1>1, <1>5, ProcessMoves, NotesStay DEF Add, TypeInv, IndexInv, index
  <1>7. Removed' = Removed
    BY <1>1, <1>2, <1>3 DEF Removed, TypeInv, HostInv
  <1>8. ASSUME Removed = 0 PROVE OwnPlaces'
    <2>1. coming = Len(history) + 1
      BY <1>1, <1>8, <1>3 DEF Removed, TypeInv, HostInv
    <2>2. OwnHistory'
      BY <1>1, <1>3, <1>8, <2>1 DEF OwnHistory, OwnPlaces
    <2>3. OwnIndex'
      BY <1>1, <1>8 DEF OwnPlaces, OwnIndex, Add, index
    <2>4. OwnLocals(P)
      BY <1>1, <1>5, <1>8 DEF OwnPlaces, OwnLocals
    <2> QED
      BY <1>1, <1>5, <1>8, <2>2, <2>3, <2>4, ProcessMoves DEF OwnPlaces
  <1> QED
    BY <1>4, <1>6, <1>7, <1>8 DEF Inv, TypeInv

LEMMA UpdateKeeps == ASSUME Inv, NEW p \in Proc, Update(p) PROVE Inv'
  <1>1. TypeInv /\ Sound(proc[p]) /\ (Removed = 0 => OwnPlaces)
    BY ProcSound DEF Inv
  <1>2. PICK i \in ToSet(history) : /\ open' = open \ {i} /\ ver' = [ver EXCEPT ![i] = @ + 1]
                                    /\ lost' = lost \ {i}
                                    /\ Moved(p, Scheduled(Noticed(proc[p], i)))
    BY DEF Update
  <1>3. i \in Id
    BY <1>1, Ranges DEF ToSet
  <1>4. HostInv'
    BY <1>1, <1>2, <1>3, BoundAssumption DEF TypeInv, HostInv, Update, Rev
  <1> DEFINE P == Scheduled(Noticed(proc[p], i))
  <1>5. Sound(P) /\ P.pc = proc[p].pc /\ P.it = proc[p].it
    <2>1. Sound(Noticed(proc[p], i)) /\ Noticed(proc[p], i).pc = proc[p].pc
          /\ Noticed(proc[p], i).it = proc[p].it
      BY <1>1, <1>3, NoticedSound
    <2> QED
      BY <2>1, ScheduledSound
  <1>6. Moved(p, P)
    BY <1>2
  <1> HIDE DEF P
  <1>7. ProcInv' /\ IndexInv' /\ NotesInv'
    BY <1>1, <1>2, <1>5, <1>6, ProcessMoves DEF Update, TypeInv, IndexInv, NotesInv, index
  <1>8. Removed' = Removed
    BY DEF Removed, Update
  <1>9. ASSUME Removed = 0 PROVE OwnPlaces'
    <2>1. OwnLocals(P)
      BY <1>1, <1>5, <1>9 DEF OwnPlaces, OwnLocals
    <2>2. OwnHistory' /\ OwnIndex'
      BY <1>1, <1>9 DEF OwnPlaces, OwnHistory, OwnIndex, Update, index
    <2> QED
      BY <1>1, <1>5, <1>6, <1>9, <2>1, <2>2, ProcessMoves DEF OwnPlaces
  <1> QED
    BY <1>4, <1>7, <1>8, <1>9 DEF Inv, TypeInv

LEMMA RemoveAtSeq ==
  ASSUME NEW S, NEW s \in Seq(S), NEW o \in DOMAIN s
  PROVE  RemoveAt(s, o) \in Seq(S) /\ Len(RemoveAt(s, o)) = Len(s) - 1
  <1>1. o \in 1..Len(s) /\ Len(s) \in Nat
    OBVIOUS
  <1> DEFINE a == SubSeq(s, 1, o - 1)
             b == SubSeq(s, o + 1, Len(s))
  <1>2. a \in Seq(S) /\ Len(a) = o - 1
    BY <1>1
  <1>3. b \in Seq(S) /\ Len(b) = Len(s) - o
    BY <1>1
  <1>4. RemoveAt(s, o) = a \o b
    BY DEF RemoveAt
  <1> HIDE DEF a, b
  <1>5. a \o b \in Seq(S) /\ Len(a \o b) = Len(a) + Len(b)
    BY <1>2, <1>3, ConcatProperties
  <1> QED
    BY <1>1, <1>2, <1>3, <1>4, <1>5

LEMMA RemoveMessageKeeps == ASSUME Inv, NEW p \in Proc, RemoveMessage(p) PROVE Inv'
  <1>1. TypeInv /\ Sound(proc[p])
    BY ProcSound DEF Inv
  <1>2. PICK o \in DOMAIN history : history' = RemoveAt(history, o) /\ open' = open \ {history[o]}
    BY DEF RemoveMessage
  <1>3. history' \in Seq(Id) /\ Len(history') = Len(history) - 1
    BY <1>1, <1>2, RemoveAtSeq DEF TypeInv, HostInv
  <1>4. HostInv' /\ Removed' # 0
    BY <1>1, <1>2, <1>3 DEF TypeInv, HostInv, RemoveMessage, Removed
  <1> DEFINE Q == [proc[p] EXCEPT !.reconciled = FALSE, !.scheduled = FALSE, !.done = {}]
             R == [Q EXCEPT !.later = Append(@, "clear")]
  <1>5. Sound(Q)
    BY <1>1 DEF Sound, Process, AtWork, Noted
  <1>6. Sound(R)
    BY <1>5, LaterSound DEF Later
  <1>7. R = [proc[p] EXCEPT !.reconciled = FALSE, !.scheduled = FALSE, !.done = {},
                            !.later = Append(@, "clear")]
    BY <1>1 DEF Sound, Process
  <1>8. Moved(p, Scheduled(R))
    BY <1>7 DEF RemoveMessage
  <1> HIDE DEF R
  <1>9. Sound(Scheduled(R))
    BY <1>6, ScheduledSound
  <1>10. ProcInv' /\ IndexInv' /\ NotesInv'
    BY <1>1, <1>8, <1>9, ProcessMoves, NotesStay DEF RemoveMessage, TypeInv, IndexInv, index
  <1> QED
    BY <1>4, <1>10 DEF Inv, TypeInv

-----------------------------------------------------------------------------
(* Steps that change the index. *)

LEMMA Arithmetic ==
  ASSUME NEW a \in Place, NEW b \in Place
  PROVE  Lower(a, b) \in Place /\ Least(a, b) \in Place /\ Greatest(a, b) \in Place
  BY BoundAssumption DEF Lower, Least, Greatest, Place

LEMMA MarkKeeps == ASSUME Inv, NEW p \in Proc, Mark(p) PROVE Inv'
  <1> DEFINE P == [proc[p] EXCEPT !.pc = "write"]
  <1>1. TypeInv /\ Sound(proc[p]) /\ proc[p].queue # <<>> /\ proc[p].pc = "mark"
    BY WorkHasQueue DEF Inv, Mark, At
  <1>2. /\ Sound(P) /\ P.pc = "write" /\ P.it = proc[p].it
        /\ proc[p].it.ord \in Ordinal /\ proc[p].it.mark \in Place
    BY <1>1 DEF Sound, Process, AtWork, Noted, Pc, Local
  <1>3. Moved(p, P)
    BY DEF Mark
  <1> HIDE DEF P
  <1>4. ProcInv'
    BY <1>1, <1>2, <1>3, ProcessMoves
  <1>5. water' \in Place
    BY <1>1, <1>2, Arithmetic DEF Mark, TypeInv, IndexInv
  <1>6. dirty' \in Place
    <2>1. Least(proc[p].it.ord, proc[p].it.mark + 1) \in Place
      BY <1>2, BoundAssumption DEF Least, Place, Ordinal
    <2> QED
      BY <1>1, <2>1, Arithmetic DEF Mark, TypeInv, IndexInv
  <1>7. HostInv' /\ IndexInv'
    BY <1>1, <1>5, <1>6 DEF TypeInv, HostInv, IndexInv, Mark, host
  <1>8. NotesInv'
    BY <1>1, OverlapsStay DEF Mark
  <1>9. Removed' = Removed
    BY DEF Removed, Mark, host
  <1>10. ASSUME Removed = 0 PROVE OwnPlaces'
    <2>1. OwnPlaces /\ OwnLocals(P)
      BY <1>1, <1>2, <1>10 DEF Inv, OwnPlaces, OwnLocals
    <2>2. OwnHistory' /\ OwnIndex'
      BY <2>1 DEF OwnPlaces, OwnHistory, OwnIndex, Mark, host
    <2> QED
      BY <1>1, <1>2, <1>3, <2>1, <2>2, ProcessMoves DEF OwnPlaces
  <1> QED
    BY <1>4, <1>7, <1>8, <1>9, <1>10 DEF Inv, TypeInv

\* What a message replaces, and what it extends the prefix with.
LEMMA ReplacedTypes ==
  ASSUME TypeInv, NEW m \in Local, m.id \in Id, m.ord \in Ordinal, Replaced(m)
  PROVE  doc' \in [Ordinal -> Entry] /\ stray' \subseteq Doc \ {None}
  <1> DEFINE old == source[m.id].ord
             d == IF old = 0 THEN doc ELSE [doc EXCEPT ![old] = None]
  <1>1. doc \in [Ordinal -> Entry] /\ stray \subseteq Doc \ {None}
    BY DEF TypeInv, IndexInv
  <1>2. d \in [Ordinal -> Entry]
    BY <1>1, ConstantsSound
  <1>3. Document(m) \in Entry
    BY DEF Document, Entry, Local
  <1>4. doc' = [d EXCEPT ![m.ord] = Document(m)]
        /\ stray' = IF d[m.ord] = None THEN stray ELSE stray \cup {d[m.ord]}
    BY DEF Replaced
  <1> HIDE DEF d
  <1>5. d[m.ord] = None \/ d[m.ord] \in Doc \ {None}
    BY <1>2, ConstantsSound DEF Entry, Doc, Place
  <1> QED
    BY <1>1, <1>2, <1>3, <1>4, <1>5

LEMMA ReplacedOwn ==
  ASSUME TypeInv, OwnIndex, NEW m \in Local, m.id \in Id, m.ord = m.id, Replaced(m),
         source' = [source EXCEPT ![m.id] = [ord |-> m.ord, ver |-> m.ver]]
  PROVE  OwnIndex'
  <1> DEFINE o == m.id
  <1>1. /\ doc \in [Ordinal -> Entry] /\ source \in [Id -> [ord : Place, ver : Rev]]
        /\ o \in Ordinal /\ o \in Id /\ o # 0
    BY ConstantsSound DEF TypeInv, IndexInv, Ordinal, Id
  <1>2. source[o].ord \in {0, o} /\ (doc[o] = None \/ source[o].ord = o)
    BY <1>1 DEF OwnIndex
  <1>3. stray' = stray /\ doc' = [doc EXCEPT ![o] = Document(m)]
    <2>1. CASE source[o].ord = 0
      BY <1>1, <1>2, <2>1 DEF Replaced
    <2>2. CASE source[o].ord = o
      BY <1>1, <1>2, <2>2 DEF Replaced
    <2> QED
      BY <1>2, <2>1, <2>2
  <1>4. Document(m).id = o /\ source'[o].ord = o
    BY <1>1 DEF Document
  <1>5. ASSUME NEW q \in Ordinal PROVE doc'[q] = None \/ (doc'[q].id = q /\ source'[q].ord = q)
    BY <1>1, <1>3, <1>4, ConstantsSound DEF OwnIndex
  <1>6. ASSUME NEW i \in Id PROVE source'[i].ord \in {0, i}
    BY <1>1, <1>4 DEF OwnIndex
  <1> QED
    BY <1>3, <1>5, <1>6 DEF OwnIndex

LEMMA ExtendedOwn ==
  ASSUME TypeInv, OwnIndex, NEW m \in Local, m.id \in Id, m.ord = m.id, Extended(m),
         source' = [source EXCEPT ![m.id] = [ord |-> m.ord, ver |-> m.ver]]
  PROVE  OwnIndex'
  <1>1. /\ doc \in [Ordinal -> Entry] /\ source \in [Id -> [ord : Place, ver : Rev]]
        /\ m.id \in Ordinal
    BY ConstantsSound DEF TypeInv, IndexInv
  <1>2. Document(m).id = m.id /\ source'[m.id].ord = m.id
    BY <1>1 DEF Document
  <1>3. ASSUME NEW q \in Ordinal PROVE doc'[q] = None \/ (doc'[q].id = q /\ source'[q].ord = q)
    <2>1. CASE q = m.id
      BY <1>1, <1>2, <2>1 DEF OwnIndex, Extended
    <2>2. CASE q # m.id
      <3>1. doc'[q] = doc[q] /\ source'[q] = source[q]
        BY <1>1, <2>2, ConstantsSound DEF Extended
      <3> QED
        BY <3>1 DEF OwnIndex
    <2> QED
      BY <2>1, <2>2
  <1>4. ASSUME NEW i \in Id PROVE source'[i].ord \in {0, i}
    BY <1>1, <1>2 DEF OwnIndex
  <1> QED
    BY <1>3, <1>4 DEF OwnIndex, Extended

LEMMA MissedType ==
  ASSUME TypeInv, NEW ids \in SUBSET Id, Missed(ids)
  PROVE  lost' \subseteq Id
  BY DEF TypeInv, NotesInv, Missed

LEMMA LeftBehindPlaced ==
  ASSUME TypeInv, NEW m \in Local, m.ord \in Ordinal
  PROVE  LeftBehind(m) \subseteq Id
  <1>1. Len(history) \in Nat /\ water \in Nat /\ m.ord \in Nat /\ m.ord >= 1
    BY Ranges, BoundAssumption DEF Place, TypeInv, IndexInv, Ordinal
  <1>2. ASSUME NEW o \in m.ord..Least(water, Len(history)) PROVE o \in 1..Len(history)
    BY <1>1, <1>2 DEF Least
  <1> QED
    BY <1>2, Ranges DEF LeftBehind

LEMMA WriteKeeps == ASSUME Inv, NEW p \in Proc, Write(p) PROVE Inv'
  <1> DEFINE m == proc[p].it
             P == [proc[p] EXCEPT !.pc = "after"]
             writes == (Covered(m) /\ ~SourceIs(m)) \/ Extends(m)
  <1>1. TypeInv /\ Sound(proc[p]) /\ proc[p].queue # <<>> /\ proc[p].pc = "write"
    BY WorkHasQueue DEF Inv, Write, At
  <1>2. Sound(P) /\ P.pc = "after" /\ P.it = m /\ m \in Local /\ m.id \in Id /\ m.ord \in Ordinal
    BY <1>1 DEF Sound, Process, AtWork, Noted, Pc
  <1>3. Moved(p, P) /\ Overlaps(p) /\ UNCHANGED <<host, faults>>
    BY DEF Write
  <1>4. CASE ~writes
    <2>1. UNCHANGED <<index, lost>>
      BY <1>4 DEF Write
    <2>2. NotesInv'
      BY <1>1, <1>3, <2>1, OverlapsStay
    <2>3. OwnLocals(proc[p]) => OwnLocals(P)
      BY <1>1, <1>2 DEF OwnLocals
    <2> HIDE DEF P
    <2> QED
      BY <1>2, <1>3, <2>1, <2>2, <2>3, QuietStep
  <1>5. CASE writes
    <2>1. /\ IF Covered(m) THEN Replaced(m) ELSE Extended(m)
          /\ source' = [source EXCEPT ![m.id] = [ord |-> m.ord, ver |-> m.ver]]
          /\ water' = Greatest(water, m.ord)
          /\ dirty' = IF m.floor = m.ord THEN 0 ELSE m.floor
          /\ Missed({m.id} \cup LeftBehind(m))
      BY <1>5 DEF Write
    <2> HIDE DEF P, writes
    <2>2. doc' \in [Ordinal -> Entry] /\ stray' \subseteq Doc \ {None}
      <3>1. CASE Covered(m)
        BY <1>1, <1>2, <2>1, <3>1, ReplacedTypes
      <3>2. CASE ~Covered(m)
        <4>1. Document(m) \in Entry
          BY <1>2 DEF Document, Entry, Local
        <4> QED
          BY <1>1, <1>2, <2>1, <3>2, <4>1 DEF Extended, TypeInv, IndexInv
      <3> QED
        BY <3>1, <3>2
    <2>3. source' \in [Id -> [ord : Place, ver : Rev]] /\ m.ord \in Place
      BY <1>1, <1>2, <2>1, ConstantsSound DEF TypeInv, IndexInv, Local
    <2>4. water' \in Place /\ dirty' \in Place
      BY <1>1, <1>2, <2>1, <2>3, Arithmetic, ConstantsSound DEF TypeInv, IndexInv, Local
    <2>5. NotesInv'
      <3>1. {m.id} \cup LeftBehind(m) \in SUBSET Id
        BY <1>1, <1>2, LeftBehindPlaced
      <3>2. lost' \subseteq Id
        BY <1>1, <2>1, <3>1, MissedType
      <3> QED
        BY <1>1, <1>3, <3>2 DEF TypeInv, NotesInv, Overlaps, Others
    <2>6. HostInv' /\ Removed' = Removed
      BY <1>1, <1>3 DEF TypeInv, HostInv, Removed, host
    <2>7. ProcInv'
      BY <1>1, <1>2, <1>3, ProcessMoves
    <2>8. ASSUME Removed = 0 PROVE OwnPlaces'
      <3>1. OwnPlaces /\ OwnLocals(P) /\ m.ord = m.id
        BY <1>1, <1>2, <2>8 DEF Inv, OwnPlaces, OwnLocals
      <3>2. OwnIndex'
        BY <1>1, <1>2, <2>1, <3>1, ReplacedOwn, ExtendedOwn DEF OwnPlaces
      <3>3. OwnHistory'
        BY <1>3, <3>1 DEF OwnPlaces, OwnHistory, host
      <3> QED
        BY <1>1, <1>2, <1>3, <3>1, <3>2, <3>3, ProcessMoves DEF OwnPlaces
    <2> QED
      BY <2>2, <2>3, <2>4, <2>5, <2>6, <2>7, <2>8 DEF Inv, TypeInv, IndexInv
  <1> QED
    BY <1>4, <1>5

LEMMA ClearKeeps == ASSUME Inv, NEW p \in Proc, Clear(p) PROVE Inv'
  <1> DEFINE U == [Unsettled(proc[p]) EXCEPT !.done = {}]
             P == [U EXCEPT !.queue = Append(@, Op("reindex", 0))]
  <1>1. TypeInv /\ Sound(proc[p]) /\ proc[p].queue # <<>>
    BY ProcSound DEF Inv, Clear, Is
  <1>2. Sound(Unsettled(proc[p])) /\ Unsettled(proc[p]).pc = "idle"
    BY <1>1, UnsettledSound
  <1>3. Sound(U) /\ U.pc = "idle"
    BY <1>2, DoneSound
  <1>4. Op("reindex", 0) \in Job
    BY DEF Op, Job
  <1>5. Moved(p, P)
    BY DEF Clear
  <1> HIDE DEF U
  <1>6. Sound(P)
    BY <1>3, <1>4, QueuedSound
  <1>7. P.pc = "idle"
    BY <1>3 DEF Sound, Process
  <1> HIDE DEF P
  <1>8. ProcInv'
    BY <1>1, <1>5, <1>6, ProcessMoves
  <1>9. IndexInv'
    BY <1>1, ConstantsSound DEF Clear, TypeInv, IndexInv, NoSource
  <1>10. NotesInv'
    BY <1>1 DEF Clear, TypeInv, NotesInv, Others
  <1>11. HostInv' /\ Removed' = Removed
    BY <1>1 DEF Clear, TypeInv, HostInv, Removed, host
  <1>12. ASSUME Removed = 0 PROVE OwnPlaces'
    <2>1. OwnPlaces
      BY <1>12 DEF Inv
    <2>2. OwnIndex'
      BY <2>1 DEF OwnPlaces, OwnIndex, Clear, NoSource, NoPage
    <2>3. OwnHistory'
      BY <2>1 DEF OwnPlaces, OwnHistory, Clear, host
    <2> QED
      BY <1>1, <1>5, <1>6, <1>7, <2>1, <2>2, <2>3, ProcessMoves, IdleIsOwn DEF OwnPlaces
  <1> QED
    BY <1>8, <1>9, <1>10, <1>11, <1>12 DEF Inv, TypeInv

LEMMA CoveredIsPlaced ==
  ASSUME TypeInv, NEW m \in Local, NEW c \in Place, CoversTo(m, c)
  PROVE  /\ \A o \in StartOrdinal + 1..c : o \in Ordinal /\ m.page[o] \in [id : Id, ver : Rev]
         /\ PageEnd(m) \in Nat /\ PageEnd(m) <= MaxMsg
  <1>1. StartOrdinal \in Place /\ m.page \in [Ordinal -> Entry]
    BY Ranges DEF Local
  <1>2. ASSUME NEW o \in StartOrdinal + 1..c
        PROVE  o \in Ordinal /\ m.page[o] \in [id : Id, ver : Rev]
    <2>1. o \in Ordinal
      BY <1>1, BoundAssumption DEF Place, Ordinal
    <2> QED
      BY <1>1, <2>1 DEF CoversTo, Entry
  <1>3. PageEnd(m) \in Nat /\ PageEnd(m) <= MaxMsg
    BY BoundAssumption DEF PageEnd, Least, Local, Place
  <1> QED
    BY <1>2, <1>3

LEMMA WritePageKeeps == ASSUME Inv, NEW p \in Proc, WritePage(p) PROVE Inv'
  <1> DEFINE m == proc[p].it
             end == PageEnd(m)
             cut == IF dirty = 0 THEN {} ELSE dirty..end
             d == [o \in Ordinal |-> IF o \in cut THEN None ELSE doc[o]]
             P == [proc[p] EXCEPT !.pc = "next", !.it.page = NoPage]
             new(c) == StartOrdinal + 1..c
             ids(c) == {m.page[o].id : o \in new(c)}
             placed(c, i) == CHOOSE o \in new(c) : m.page[o].id = i
  <1>1. TypeInv /\ Sound(proc[p]) /\ proc[p].queue # <<>> /\ proc[p].pc = "page"
    BY WorkHasQueue DEF Inv, WritePage, At
  <1>2. PICK c \in Place :
          /\ CoversTo(m, c)
          /\ doc' = [o \in Ordinal |-> IF o \in new(c) /\ d[o] = None THEN m.page[o] ELSE d[o]]
          /\ source' = [i \in Id |->
                          IF \E o \in new(c) : m.page[o].id = i
                          THEN [ord |-> placed(c, i), ver |-> m.page[placed(c, i)].ver]
                          ELSE IF source[i].ord \in cut THEN NoSource ELSE source[i]]
          /\ water' = c
          /\ dirty' = Lower(IF c < end THEN c + 1 ELSE 0, IF dirty > end THEN dirty ELSE 0)
          /\ Missed(ids(c))
    BY DEF WritePage, Place
  <1>3. Sound(P) /\ P.pc = "next"
    BY <1>1, ConstantsSound DEF Sound, Process, Local, Pc, AtWork, Noted
  <1>4. Moved(p, P) /\ Overlaps(p) /\ UNCHANGED <<host, stray, faults>>
    BY DEF WritePage
  <1>5. m \in Local /\ doc \in [Ordinal -> Entry] /\ source \in [Id -> [ord : Place, ver : Rev]]
        /\ stray \subseteq Doc \ {None} /\ dirty \in Place
    BY <1>1 DEF Sound, Process, TypeInv, IndexInv
  <1>6. /\ \A o \in new(c) : o \in Ordinal /\ m.page[o] \in [id : Id, ver : Rev]
        /\ end \in Nat /\ end <= MaxMsg
    BY <1>1, <1>2, <1>5, CoveredIsPlaced
  <1>7. ASSUME NEW i \in Id, \E o \in new(c) : m.page[o].id = i
        PROVE  placed(c, i) \in new(c) /\ m.page[placed(c, i)].id = i
    BY <1>7
  <1>8. d \in [Ordinal -> Entry]
    BY <1>5, ConstantsSound
  <1> HIDE DEF m, end, cut, d, P, new, placed
  <1>9. doc' \in [Ordinal -> Entry]
    BY <1>2, <1>6, <1>8 DEF Entry
  <1>10. source' \in [Id -> [ord : Place, ver : Rev]]
    <2>1. ASSUME NEW i \in Id PROVE source'[i] \in [ord : Place, ver : Rev]
      <3>1. CASE \E o \in new(c) : m.page[o].id = i
        <4>1. placed(c, i) \in Place /\ m.page[placed(c, i)].ver \in Rev
          BY <1>6, <1>7, <3>1, ConstantsSound
        <4> QED
          BY <1>2, <3>1, <4>1
      <3>2. CASE ~ \E o \in new(c) : m.page[o].id = i
        BY <1>2, <1>5, <3>2, ConstantsSound DEF NoSource
      <3> QED
        BY <3>1, <3>2
    <2> QED
      BY <1>2, <2>1
  <1>11. dirty' \in Place /\ water' \in Place
    BY <1>2, <1>5, <1>6, BoundAssumption DEF Lower, Least, Place
  <1>12. NotesInv'
    <2>1. ids(c) \in SUBSET Id
      BY <1>6
    <2>2. lost' \subseteq Id
      BY <1>1, <1>2, <2>1, MissedType
    <2> QED
      BY <1>1, <1>4, <2>2 DEF TypeInv, NotesInv, Overlaps, Others
  <1>13. HostInv' /\ Removed' = Removed
    BY <1>1, <1>4 DEF TypeInv, HostInv, Removed, host
  <1>14. ProcInv'
    BY <1>1, <1>3, <1>4, ProcessMoves
  <1>15. ASSUME Removed = 0 PROVE OwnPlaces'
    <2>1. OwnPlaces /\ OwnLocals(P)
      BY <1>3, <1>15 DEF Inv, OwnPlaces, OwnLocals
    <2>2. ASSUME NEW o \in new(c) PROVE m.page[o].id = o /\ o \in Id /\ m.page[o] # None
      BY <1>1, <1>6, <2>1, <2>2, ConstantsSound DEF OwnPlaces, OwnLocals, m, None, Id
    <2>3. ASSUME NEW i \in Id
          PROVE  /\ i \in new(c) => source'[i].ord = i
                 /\ i \notin new(c) => source'[i] = IF source[i].ord \in cut THEN NoSource ELSE source[i]
      <3>1. CASE i \in new(c)
        <4>1. \E o \in new(c) : m.page[o].id = i
          BY <2>2, <3>1
        <4>2. placed(c, i) = i
          BY <1>7, <2>2, <4>1
        <4> QED
          BY <1>2, <3>1, <4>1, <4>2
      <3>2. CASE i \notin new(c)
        <4>1. ~ \E o \in new(c) : m.page[o].id = i
          BY <2>2, <3>2
        <4> QED
          BY <1>2, <3>2, <4>1
      <3> QED
        BY <3>1, <3>2
    <2>4. ASSUME NEW i \in Id PROVE source'[i].ord \in {0, i}
      BY <2>1, <2>3 DEF OwnPlaces, OwnIndex, NoSource
    <2>5. ASSUME NEW o \in Ordinal
          PROVE  doc'[o] = None \/ (doc'[o].id = o /\ source'[o].ord = o)
      <3>1. o \in Id /\ (o \in cut => d[o] = None) /\ (o \notin cut => d[o] = doc[o])
        BY ConstantsSound DEF d
      <3>2. CASE o \in new(c) /\ d[o] = None
        <4>1. doc'[o] = m.page[o]
          BY <1>2, <3>2
        <4> QED
          BY <2>2, <2>3, <3>1, <3>2, <4>1
      <3>3. CASE ~(o \in new(c) /\ d[o] = None)
        <4>1. doc'[o] = d[o]
          BY <1>2, <3>3
        <4>2. CASE d[o] = None
          BY <4>1, <4>2
        <4>3. CASE d[o] # None
          <5>1. o \notin cut /\ d[o] = doc[o] /\ doc[o].id = o /\ source[o].ord = o
            BY <2>1, <3>1, <4>3 DEF OwnPlaces, OwnIndex
          <5> QED
            BY <2>3, <3>1, <4>1, <5>1
        <4> QED
          BY <4>2, <4>3
      <3> QED
        BY <3>2, <3>3
    <2>6. OwnIndex' /\ OwnHistory'
      BY <1>4, <2>1, <2>4, <2>5 DEF OwnPlaces, OwnIndex, OwnHistory, host
    <2> QED
      BY <1>1, <1>3, <1>4, <2>1, <2>6, ProcessMoves DEF OwnPlaces
  <1> QED
    BY <1>4, <1>5, <1>9, <1>10, <1>11, <1>12, <1>13, <1>14, <1>15 DEF Inv, TypeInv, IndexInv

-----------------------------------------------------------------------------
(* The theorems. *)

LEMMA InitInv == Init => Inv
  <1> SUFFICES ASSUME Init PROVE Inv
    OBVIOUS
  <1>1. HostInv
    BY BoundAssumption, EmptyQueue DEF Init, HostInv, Id, Rev
  <1>2. IndexInv
    <2>1. NoSource \in [ord : Place, ver : Rev]
      BY ConstantsSound DEF NoSource
    <2> QED
      BY <2>1, ConstantsSound DEF Init, IndexInv
  <1>3. NotesInv
    <2>1. lost = {} /\ broken = FALSE /\ faults = 0
      BY DEF Init
    <2>2. 0 \in 0..MaxFaults
      BY BoundAssumption
    <2> QED
      BY <2>1, <2>2 DEF NotesInv
  <1>4. ProcInv
    BY FreshSound DEF Init, ProcInv, Sound
  <1>5. OwnPlaces
    BY FreshSound DEF Init, OwnPlaces, OwnHistory, OwnIndex, OwnLocals, NoPage, NoSource, Fresh
  <1> QED
    BY <1>1, <1>2, <1>3, <1>4, <1>5 DEF Inv, TypeInv

LEMMA NextInv == Inv /\ [Next]_vars => Inv'
  <1> SUFFICES ASSUME Inv, [Next]_vars PROVE Inv'
    OBVIOUS
  <1>1. CASE UNCHANGED vars
    BY <1>1 DEF vars, host, index, notes, Inv, TypeInv, HostInv, IndexInv, ProcInv, NotesInv,
                Removed, OwnPlaces, OwnHistory, OwnIndex
  <1>2. ASSUME NEW p \in Proc, Operation(p) PROVE Inv'
    BY <1>2, ReadMessageKeeps, MarkKeeps, WriteKeeps, AfterKeeps, ReconcileKeeps, ResumeKeeps,
       WritePageKeeps, NextPageKeeps, ClearKeeps DEF Operation
  <1>3. ASSUME NEW p \in Proc, Fails(p) PROVE Inv'
    BY <1>3, MarkFailsKeeps, WriteFailsKeeps, PageFailsKeeps, ClearFailsKeeps, CrashKeeps DEF Fails
  <1> QED
    BY <1>1, <1>2, <1>3, AddKeeps, UpdateKeeps, RemoveMessageKeeps, TouchKeeps, TimerFiresKeeps,
       LaterFiresKeeps DEF Next

LEMMA InvTypes == Inv => TypeOK
  <1> SUFFICES ASSUME Inv PROVE TypeOK
    OBVIOUS
  <1>1. TypeInv
    BY DEF Inv
  <1>2. Entry \subseteq Doc
    <2>1. ASSUME NEW e \in Entry PROVE e \in [id : Place, ver : Rev]
      <3>1. CASE e = None
        BY <3>1, ConstantsSound DEF None
      <3>2. CASE e \in [id : Id, ver : Rev]
        BY <3>2, ConstantsSound
      <3> QED
        BY <3>1, <3>2 DEF Entry
    <2> QED
      BY <2>1 DEF Doc, Place
  <1>3. ASSUME NEW p \in Proc
        PROVE  /\ proc[p].timers \subseteq Id /\ proc[p].done \subseteq Message
               /\ proc[p].reconciled \in BOOLEAN /\ proc[p].scheduled \in BOOLEAN
               /\ ToSet(proc[p].later) \subseteq {"reconcile", "clear"}
               /\ ToSet(proc[p].queue) \subseteq
                    [op : {"single"}, id : Id] \cup [op : {"reconcile", "reindex", "clear"}, id : {0}]
               /\ proc[p].it.page \in [Ordinal -> Doc]
               /\ proc[p].scheduled =>
                    "reconcile" \in ToSet(proc[p].later) \cup {m.op : m \in ToSet(proc[p].queue)}
    <2>1. Sound(proc[p]) /\ proc[p] \in Process
      BY <1>1, ProcSound DEF Sound
    <2>2. ToSet(proc[p].later) \subseteq Later /\ ToSet(proc[p].queue) \subseteq Job
      BY <2>1 DEF Process, ToSet
    <2>3. proc[p].it.page \in [Ordinal -> Doc]
      BY <1>2, <2>1 DEF Process, Local
    <2>4. proc[p].scheduled =>
            "reconcile" \in ToSet(proc[p].later) \cup {m.op : m \in ToSet(proc[p].queue)}
      BY <2>1 DEF Sound, Noted, ToSet
    <2> QED
      BY <2>1, <2>2, <2>3, <2>4 DEF Process, Later, Job
  <1>4. HostInv /\ IndexInv /\ NotesInv
    BY <1>1 DEF TypeInv
  <1> QED
    BY <1>2, <1>3, <1>4 DEF TypeOK, HostInv, IndexInv, NotesInv, Place

\* All variables keep their types: the host, the tables, and what each process
\* has in its queue, its timers and its sets; a note that a reconciliation is
\* scheduled always has one to show (message-index-async.ts:198).
THEOREM IndexTypes == Spec => []TypeOK
  BY InitInv, NextInv, InvTypes, PTL DEF Spec

\* However many processes index the session, and whatever fails or dies on the
\* way, no message has two documents and no document loses its place in the
\* map, as long as no message has been removed (message-index.ts:494, :607).
THEOREM FoundAtMostOnce == Spec => []FoundOnce
  <1>1. Inv => FoundOnce
    <2> SUFFICES ASSUME Inv, Removed = 0
                 PROVE  /\ stray = {}
                        /\ \A o1, o2 \in Ordinal : doc[o1].id = doc[o2].id => o1 = o2 \/ doc[o1] = None
      BY DEF FoundOnce
    <2>1. OwnIndex
      BY DEF Inv, OwnPlaces
    <2>2. ASSUME NEW o1 \in Ordinal, NEW o2 \in Ordinal, doc[o1].id = doc[o2].id, doc[o1] # None
          PROVE  o1 = o2
      <3>1. doc[o1].id = o1 /\ o1 # 0
        BY <2>1, <2>2 DEF OwnIndex, Ordinal
      <3>2. doc[o2] # None
        <4>1. None.id = 0
          BY DEF None
        <4> QED
          BY <2>2, <3>1, <4>1
      <3> QED
        BY <2>1, <2>2, <3>1, <3>2 DEF OwnIndex
    <2> QED
      BY <2>1, <2>2 DEF OwnIndex
  <1> QED
    BY <1>1, InitInv, NextInv, PTL DEF Spec

-----------------------------------------------------------------------------
(* The index agrees with the host.  Every message is right in the index, or *)
(* excused, or behind what the index vouches for while a process still owes *)
(* a reconciliation, or some process has yet to see its last revision.      *)

Working(P) == P.pc \in {"mark", "write", "after"}
Paging(P) == P.pc \in {"page", "next", "yield"}
Clearing(P) == \/ \E k \in DOMAIN P.later : P.later[k] = "clear"
               \/ \E k \in DOMAIN P.queue : P.queue[k].op = "clear"
\* No removal waits for its clear.
Calm == ~broken /\ \A p \in Proc : ~Clearing(proc[p])

\* What a process has read or done is of a message there has been, and no
\* newer than V; it is not reconciled while an operation of its queue runs.
Dated(P, V, n) ==
  /\ \A m \in P.done : m.id < n /\ m.ver <= V[m.id]
  /\ Working(P) => /\ P.it.id < n /\ P.it.ver <= V[P.it.id]
                   /\ ~P.reconciled /\ P.queue[1] = Op("single", P.it.id)
  /\ Paging(P) => ~P.reconciled /\ P.queue[1].op \in {"reconcile", "reindex"}
  /\ P.pc = "page" => \A o \in Ordinal : \/ P.it.page[o] = None
                                         \/ P.it.page[o].id < n /\ P.it.page[o].ver <= V[P.it.page[o].id]
DatedHost == /\ \A o \in DOMAIN history : history[o] < coming
             /\ \A o1, o2 \in DOMAIN history : history[o1] = history[o2] => o1 = o2
DatedSource == \A i \in Id : source[i].ver <= ver[i] /\ (source[i].ord # 0 => i < coming)
AllDated == DatedHost /\ DatedSource /\ \A p \in Proc : Dated(proc[p], ver, coming)

\* A write will not put back a floor above the ordinal.
Holds(P, o) == P.pc = "write" => P.it.floor # 0 /\ P.it.floor <= o
\* A reconciliation that takes in the ordinal is still to come; d is the floor.
Owes(P, o, d) ==
  \/ P.pc = "idle" /\ ~P.reconciled
  \/ P.pc \in {"mark", "write"} /\ ~P.it.was
  \/ P.pc = "after" /\ (~P.it.was \/ d # 0)
  \/ Paging(P) /\ o <= P.it.final
\* The process will look at the message's revision of V.
Awaits(P, i, V) ==
  \/ i \in P.timers
  \/ \E k \in DOMAIN P.queue : P.queue[k] = Op("single", i) /\ (k = 1 => ~Working(P))
  \/ P.pc \in {"mark", "write"} /\ P.it.id = i /\ P.it.ver = V[i]
\* The process takes the revision for indexed.
Knows(P, r) == r \in P.done \/ (P.pc = "after" /\ Revision(P.it) = r)

Newest(o) == [id |-> history[o], ord |-> o, ver |-> ver[history[o]]]
Good(o) == doc[o] = [id |-> history[o], ver |-> ver[history[o]]]
Excused(o) == history[o] \in lost \cup open
Behind(o) == o > water \/ (dirty # 0 /\ dirty <= o /\ \A p \in Proc : Holds(proc[p], o))
Owed(o) == \E p \in Proc : Owes(proc[p], o, dirty)
Safe(o) == Good(o) \/ Excused(o) \/ (Behind(o) /\ Owed(o))
Known(o) == \/ source[history[o]] = [ord |-> o, ver |-> ver[history[o]]]
            \/ \E p \in Proc : Knows(proc[p], Newest(o))
Awaited(o) == \E p \in Proc : Awaits(proc[p], history[o], ver)
Kept(o) == Safe(o) \/ (Awaited(o) /\ ~Known(o))

\* What an operation has read is still so.
UpToDate(P) ==
  /\ Working(P) => P.it.ord \in DOMAIN history /\ history[P.it.ord] = P.it.id
  /\ P.pc = "mark" => P.it.mark = water /\ P.it.floor = dirty
  /\ P.pc = "write" => dirty = Lower(P.it.floor, Least(P.it.ord, water + 1))
  /\ P.pc = "page" => \A o \in Ordinal : \/ P.it.page[o] = None
                                         \/ o \in DOMAIN history /\ history[o] = P.it.page[o].id
IndexPlaced ==
  /\ \A i \in Id : \/ source[i].ord = 0
                   \/ source[i].ord \in DOMAIN history /\ history[source[i].ord] = i
  /\ \A o \in Ordinal : doc[o] = None \/ o <= Len(history)
OneWriter == \A p, q \in Proc : At(p, "write") /\ At(q, "write") => p = q
Promise ==
  /\ \A o \in DOMAIN history : Kept(o)
  /\ \A p \in Proc : UpToDate(proc[p])
  /\ IndexPlaced /\ OneWriter
Agrees == Inv /\ AllDated /\ (Calm => Promise)

-----------------------------------------------------------------------------
(* What a process waits for and has read, as its queue moves. *)

LEMMA ClearsIsClearing == ASSUME NEW p \in Proc PROVE Clears(p) <=> Clearing(proc[p])
  BY DEF Clears, Clearing, ToSet

LEMMA MovedTo ==
  ASSUME TypeInv, NEW p \in Proc, NEW P, Moved(p, P)
  PROVE  proc'[p] = P /\ \A q \in Proc : q # p => proc'[q] = proc[q]
  BY DEF TypeInv, ProcInv, Moved

\* The fields that the agreement is about, after an operation.
LEMMA EndedFields ==
  ASSUME NEW P, Sound(P), P.queue # <<>>
  PROVE  /\ Ended(P).pc = "idle" /\ Ended(P).queue = Tail(P.queue) /\ Ended(P).timers = P.timers
         /\ Ended(P).later = P.later /\ Ended(P).done = P.done /\ Ended(P).reconciled = P.reconciled
  BY DEF Ended, Sound, Process

\* An operation that ends takes only itself from what a process waits for.
LEMMA EndedWaits ==
  ASSUME NEW P, Sound(P), P.queue # <<>>, NEW Q, Q.pc = "idle",
         Q.queue = Tail(P.queue), Q.timers = P.timers, NEW i, NEW V, Awaits(P, i, V)
  PROVE  \/ Awaits(Q, i, V)
         \/ ~Working(P) /\ Head(P.queue) = Op("single", i)
         \/ P.pc \in {"mark", "write"} /\ P.it.id = i /\ P.it.ver = V[i]
  <1>1. P.queue \in Seq(Job)
    BY DEF Sound, Process
  <1>2. ~Working(Q)
    BY DEF Working
  <1>3. CASE i \in P.timers
    BY <1>3 DEF Awaits
  <1>4. CASE \E k \in DOMAIN P.queue : P.queue[k] = Op("single", i) /\ (k = 1 => ~Working(P))
    <2>1. PICK k \in DOMAIN P.queue : P.queue[k] = Op("single", i) /\ (k = 1 => ~Working(P))
      BY <1>4
    <2>2. CASE k = 1
      BY <1>1, <2>1, <2>2, TailKeeps
    <2>3. CASE k # 1
      <3>1. k - 1 \in DOMAIN Q.queue /\ Q.queue[k - 1] = Op("single", i)
        BY <1>1, <2>1, <2>3, TailKeeps
      <3> QED
        BY <1>2, <3>1 DEF Awaits
    <2> QED
      BY <2>2, <2>3
  <1> QED
    BY <1>3, <1>4 DEF Awaits

LEMMA AppendedWaits ==
  ASSUME NEW P, Sound(P), NEW Q, NEW j \in Job, Q.pc = P.pc, Q.it = P.it,
         Q.queue = Append(P.queue, j), P.timers \subseteq Q.timers \cup {j.id},
         j.op = "single" \/ P.timers \subseteq Q.timers, NEW i, NEW V, Awaits(P, i, V)
  PROVE  Awaits(Q, i, V)
  <1>1. P.queue \in Seq(Job)
    BY DEF Sound, Process
  <1>2. /\ \A k \in DOMAIN P.queue : k \in DOMAIN Q.queue /\ Q.queue[k] = P.queue[k]
        /\ Len(P.queue) + 1 \in DOMAIN Q.queue /\ Q.queue[Len(P.queue) + 1] = j
    BY <1>1
  <1>3. Working(Q) <=> Working(P)
    BY DEF Working
  <1>4. CASE i \in P.timers /\ i \notin Q.timers
    <2>1. j.op = "single" /\ j.id = i
      BY <1>4
    <2>2. j = Op("single", i)
      BY <2>1 DEF Job, Op
    <2>3. Len(P.queue) + 1 = 1 => ~Working(Q)
      BY <1>1, <1>3 DEF Sound, AtWork, Working
    <2> QED
      BY <1>2, <2>2, <2>3 DEF Awaits
  <1>5. CASE i \in P.timers /\ i \in Q.timers
    BY <1>5 DEF Awaits
  <1>6. CASE \E k \in DOMAIN P.queue : P.queue[k] = Op("single", i) /\ (k = 1 => ~Working(P))
    BY <1>2, <1>3, <1>6 DEF Awaits
  <1>7. CASE P.pc \in {"mark", "write"} /\ P.it.id = i /\ P.it.ver = V[i]
    BY <1>7 DEF Awaits
  <1> QED
    BY <1>4, <1>5, <1>6, <1>7 DEF Awaits

\* An operation that is not a clear leaves the clears.
LEMMA EndedClears ==
  ASSUME NEW P, Sound(P), P.queue # <<>>, NEW Q, Q.queue = Tail(P.queue), Q.later = P.later,
         Clearing(P), Head(P.queue).op # "clear"
  PROVE  Clearing(Q)
  <1>1. P.queue \in Seq(Job)
    BY DEF Sound, Process
  <1>2. \A k \in DOMAIN P.queue : P.queue[k].op = "clear" =>
          k - 1 \in DOMAIN Q.queue /\ Q.queue[k - 1] = P.queue[k]
    BY <1>1, TailKeeps
  <1> QED
    BY <1>2 DEF Clearing

LEMMA AppendedClears ==
  ASSUME NEW P, Sound(P), NEW Q, NEW j \in Job, Q.queue = Append(P.queue, j), Q.later = P.later, Clearing(P)
  PROVE  Clearing(Q)
  <1>1. P.queue \in Seq(Job)
    BY DEF Sound, Process
  <1>2. \A k \in DOMAIN P.queue : k \in DOMAIN Q.queue /\ Q.queue[k] = P.queue[k]
    BY <1>1
  <1> QED
    BY <1>2 DEF Clearing

LEMMA DueClears ==
  ASSUME NEW P, Sound(P), NEW Q, P.later # <<>>, Q.later = Tail(P.later),
         Q.queue = Append(P.queue, Op(Head(P.later), 0)), Clearing(P)
  PROVE  Clearing(Q)
  <1>1. P.queue \in Seq(Job) /\ P.later \in Seq(Later)
    BY DEF Sound, Process
  <1>2. /\ \A k \in DOMAIN P.queue : k \in DOMAIN Q.queue /\ Q.queue[k] = P.queue[k]
        /\ Len(P.queue) + 1 \in DOMAIN Q.queue
        /\ Q.queue[Len(P.queue) + 1].op = Head(P.later)
    BY <1>1 DEF Op
  <1>3. \A k \in DOMAIN P.later :
          \/ P.later[k] = Head(P.later)
          \/ k - 1 \in DOMAIN Q.later /\ Q.later[k - 1] = P.later[k]
    BY <1>1, TailKeeps
  <1> QED
    BY <1>2, <1>3 DEF Clearing

\* Reading on, all that a process has read stays of the past.
LEMMA DatedStays ==
  ASSUME NEW P, Sound(P), NEW V \in [Id -> Rev], NEW W \in [Id -> Rev], NEW n \in Nat, NEW k \in Nat,
         n <= k, \A i \in Id : V[i] <= W[i], Dated(P, V, n)
  PROVE  Dated(P, W, k)
  <1>1. P.done \subseteq Message /\ P.it \in Local /\ P.it.page \in [Ordinal -> Entry]
    BY DEF Sound, Process, Local
  <1>2. \A v \in Rev, i \in Id : v <= V[i] => v <= W[i]
    BY ConstantsSound DEF Rev
  <1>3. \A i \in Id : i < n => i < k
    BY ConstantsSound
  <1>4. \A m \in P.done : m.id < k /\ m.ver <= W[m.id]
    BY <1>1, <1>2, <1>3 DEF Dated, Message
  <1>5. Working(P) => P.it.id < k /\ P.it.ver <= W[P.it.id]
    BY <1>1, <1>2, <1>3 DEF Dated, Working, Sound, AtWork, Local
  <1>6. P.pc = "page" => \A o \in Ordinal : \/ P.it.page[o] = None
                                            \/ P.it.page[o].id < k /\ P.it.page[o].ver <= W[P.it.page[o].id]
    <2>1. ASSUME NEW o \in Ordinal, P.it.page[o] # None
          PROVE  P.it.page[o].id \in Id /\ P.it.page[o].ver \in Rev
      BY <1>1, <2>1 DEF Entry
    <2> QED
      BY <1>2, <1>3, <2>1 DEF Dated
  <1> QED
    BY <1>4, <1>5, <1>6 DEF Dated

-----------------------------------------------------------------------------
(* A process moves, and neither the host nor the index changes. *)

\* What has to be shown of the process, from P to Q: it holds back no more
\* floors, owes what it owed, and of each message that it no longer waits for,
\* or takes for indexed, there is a reason.
Faithful(P, Q) ==
  /\ UpToDate(Q)
  /\ Q.pc = "write" => P.pc = "write"
  /\ \A o \in DOMAIN history :
       /\ Holds(P, o) => Holds(Q, o)
       /\ Behind(o) /\ Owes(P, o, dirty) => Owes(Q, o, dirty)
       /\ \/ history[o] \in lost'
          \/ Behind(o)' /\ Owes(Q, o, dirty)
          \/ Safe(o)
          \/ Known(o)
          \/ /\ Awaits(P, history[o], ver) => Awaits(Q, history[o], ver)
             /\ Knows(Q, Newest(o)) => Known(o)

LEMMA QuietKept ==
  ASSUME TypeInv, NEW p \in Proc, NEW P, Moved(p, P), UNCHANGED <<host, index>>, lost \subseteq lost',
         Faithful(proc[p], P), NEW o \in DOMAIN history, Kept(o)
  PROVE  Kept(o)'
  <1>1. proc'[p] = P /\ \A q \in Proc : q # p => proc'[q] = proc[q]
    BY MovedTo
  <1>2. /\ history' = history /\ ver' = ver /\ open' = open /\ source' = source /\ doc' = doc
        /\ water' = water /\ dirty' = dirty
    BY DEF host, index
  <1>3. Good(o)' = Good(o) /\ (Excused(o) => Excused(o)') /\ Newest(o)' = Newest(o)
    BY <1>2 DEF Good, Excused, Newest
  <1>4. Behind(o) => Behind(o)'
    <2>1. ASSUME \A q \in Proc : Holds(proc[q], o) PROVE \A q \in Proc : Holds(proc'[q], o)
      BY <1>1, <2>1 DEF Faithful
    <2> QED
      BY <1>2, <2>1 DEF Behind
  <1>5. ASSUME Behind(o), Owed(o) PROVE Owed(o)'
    <2>1. PICK q \in Proc : Owes(proc[q], o, dirty)
      BY <1>5 DEF Owed
    <2>2. Owes(proc'[q], o, dirty)
      BY <1>1, <1>5, <2>1 DEF Faithful
    <2> QED
      BY <1>2, <2>2 DEF Owed
  <1>6. Safe(o) => Safe(o)'
    BY <1>3, <1>4, <1>5 DEF Safe
  <1>7. Known(o) => Safe(o)
    BY DEF Kept
  <1>8. CASE history[o] \in lost'
    BY <1>2, <1>8 DEF Kept, Safe, Excused
  <1>9. CASE Behind(o)' /\ Owes(P, o, dirty)
    BY <1>1, <1>2, <1>9 DEF Kept, Safe, Owed
  <1>10. CASE Safe(o)
    BY <1>6, <1>10 DEF Kept
  <1>11. CASE ~Safe(o) /\ (Awaits(proc[p], history[o], ver) => Awaits(P, history[o], ver))
              /\ (Knows(P, Newest(o)) => Known(o))
    <2>1. ~Known(o) /\ Awaited(o)
      BY <1>7, <1>11 DEF Kept
    <2>2. ~Known(o)'
      <3>1. \A q \in Proc : ~Knows(proc'[q], Newest(o))
        BY <1>1, <1>11, <2>1 DEF Known
      <3> QED
        BY <1>2, <1>3, <2>1, <3>1 DEF Known
    <2>3. Awaited(o)'
      <3>1. PICK q \in Proc : Awaits(proc[q], history[o], ver)
        BY <2>1 DEF Awaited
      <3>2. Awaits(proc'[q], history[o], ver)
        BY <1>1, <1>11, <3>1
      <3> QED
        BY <1>2, <3>2 DEF Awaited
    <2> QED
      BY <2>2, <2>3 DEF Kept
  <1> QED
    BY <1>7, <1>8, <1>9, <1>10, <1>11 DEF Faithful

\* The removals that wait for their clear, when one process moves.
LEMMA CalmBefore ==
  ASSUME TypeInv, NEW p \in Proc, NEW P, Moved(p, P), broken => broken',
         Clearing(proc[p]) => Clearing(P) \/ broken', Calm'
  PROVE  Calm /\ ~broken'
  <1>1. proc'[p] = P /\ \A q \in Proc : q # p => proc'[q] = proc[q]
    BY MovedTo
  <1>2. ~broken' /\ \A q \in Proc : ~Clearing(proc'[q])
    BY DEF Calm
  <1> QED
    BY <1>1, <1>2 DEF Calm

LEMMA QuietAgrees ==
  ASSUME Agrees, NEW p \in Proc, NEW P, Moved(p, P), UNCHANGED <<host, index>>, lost \subseteq lost',
         Dated(P, ver, coming), broken => broken', Clearing(proc[p]) => Clearing(P) \/ broken',
         Calm /\ Promise /\ ~broken' => Faithful(proc[p], P)
  PROVE  AllDated' /\ (Calm => Promise)'
  <1>1. TypeInv /\ AllDated
    BY DEF Agrees, Inv
  <1>2. proc'[p] = P /\ \A q \in Proc : q # p => proc'[q] = proc[q]
    BY <1>1, MovedTo
  <1>3. /\ history' = history /\ ver' = ver /\ open' = open /\ source' = source /\ doc' = doc
        /\ water' = water /\ dirty' = dirty /\ coming' = coming
    BY DEF host, index
  <1>4. AllDated'
    <2>1. \A q \in Proc : Dated(proc'[q], ver, coming)
      BY <1>1, <1>2 DEF AllDated
    <2>2. DatedHost' /\ DatedSource'
      BY <1>1, <1>3 DEF AllDated, DatedHost, DatedSource
    <2> QED
      BY <1>3, <2>1, <2>2 DEF AllDated
  <1>5. ASSUME Calm' PROVE Promise'
    <2>1. Calm /\ ~broken' /\ Promise
      BY <1>1, <1>5, CalmBefore DEF Agrees
    <2>2. Faithful(proc[p], P)
      BY <2>1
    <2>3. \A o \in DOMAIN history' : Kept(o)'
      BY <1>1, <1>3, <2>1, <2>2, QuietKept DEF Promise
    <2>4. \A q \in Proc : UpToDate(proc[q])'
      <3>1. \A q \in Proc : UpToDate(proc'[q])
        BY <1>2, <2>1, <2>2 DEF Promise, Faithful
      <3> QED
        BY <1>3, <3>1 DEF UpToDate
    <2>5. IndexPlaced'
      BY <1>3, <2>1 DEF Promise, IndexPlaced
    <2>6. OneWriter'
      BY <1>2, <2>1, <2>2 DEF Promise, OneWriter, Faithful, At
    <2> QED
      BY <2>3, <2>4, <2>5, <2>6 DEF Promise
  <1> QED
    BY <1>4, <1>5

-----------------------------------------------------------------------------
(* Events, timers and the statements that do not write. *)

\* An event leaves the operation that runs, and takes nothing from what the
\* process waits for.
LEMMA EventKeeps ==
  ASSUME TypeInv, NEW p \in Proc, NEW Q, Q.pc = proc[p].pc, Q.it = proc[p].it,
         Q.reconciled = proc[p].reconciled, Q.done = proc[p].done,
         proc[p].queue # <<>> => Q.queue[1] = proc[p].queue[1],
         \A i \in Id : Awaits(proc[p], i, ver) => Awaits(Q, i, ver)
  PROVE  /\ \A V, n : Dated(proc[p], V, n) => Dated(Q, V, n)
         /\ Promise => Faithful(proc[p], Q)
  <1>1. AtWork(proc[p])
    BY ProcSound DEF Sound
  <1>2. ASSUME NEW V, NEW n, Dated(proc[p], V, n) PROVE Dated(Q, V, n)
    BY <1>1, <1>2 DEF Dated, Working, Paging, AtWork
  <1>3. ASSUME Promise PROVE Faithful(proc[p], Q)
    <2>1. UpToDate(Q)
      BY <1>3 DEF Promise, UpToDate, Working
    <2>2. ASSUME NEW o \in DOMAIN history
          PROVE  /\ Holds(proc[p], o) => Holds(Q, o)
                 /\ Owes(proc[p], o, dirty) => Owes(Q, o, dirty)
                 /\ Awaits(proc[p], history[o], ver) => Awaits(Q, history[o], ver)
                 /\ Knows(Q, Newest(o)) => Known(o)
      <3>1. history[o] \in Id
        BY Ranges
      <3>2. Knows(Q, Newest(o)) => Knows(proc[p], Newest(o))
        BY DEF Knows
      <3>3. Owes(proc[p], o, dirty) => Owes(Q, o, dirty)
        BY DEF Owes, Paging
      <3> QED
        BY <3>1, <3>2, <3>3 DEF Holds, Known
    <2> QED
      BY <2>1, <2>2 DEF Faithful
  <1> QED
    BY <1>2, <1>3

LEMMA ScheduledFields ==
  ASSUME NEW P, Sound(P)
  PROVE  /\ Scheduled(P).pc = P.pc /\ Scheduled(P).it = P.it /\ Scheduled(P).reconciled = P.reconciled
         /\ Scheduled(P).done = P.done /\ Scheduled(P).queue = P.queue /\ Scheduled(P).timers = P.timers
         /\ Clearing(P) => Clearing(Scheduled(P))
  <1>1. CASE P.reconciled \/ P.scheduled
    BY <1>1 DEF Scheduled
  <1>2. CASE ~(P.reconciled \/ P.scheduled)
    <2>1. P.later \in Seq(Later)
      BY DEF Sound, Process
    <2>2. \A k \in DOMAIN P.later : k \in DOMAIN Append(P.later, "reconcile")
                                    /\ Append(P.later, "reconcile")[k] = P.later[k]
      BY <2>1
    <2> QED
      BY <1>2, <2>2 DEF Scheduled, Sound, Process, Clearing
  <1> QED
    BY <1>1, <1>2

LEMMA NoticedFields ==
  ASSUME NEW P, Sound(P), NEW i \in Id
  PROVE  /\ Noticed(P, i).pc = P.pc /\ Noticed(P, i).it = P.it /\ Noticed(P, i).done = P.done
         /\ Noticed(P, i).reconciled = P.reconciled /\ Noticed(P, i).queue = P.queue
         /\ P.timers \subseteq Noticed(P, i).timers
         /\ Clearing(P) => Clearing(Noticed(P, i))
  BY DEF Noticed, Sound, Process, Clearing

LEMMA SameWaits ==
  ASSUME NEW P, NEW Q, Q.pc = P.pc, Q.it = P.it, Q.queue = P.queue, P.timers \subseteq Q.timers,
         NEW i, NEW V, Awaits(P, i, V)
  PROVE  Awaits(Q, i, V)
  BY DEF Awaits, Working

LEMMA TouchAgrees == ASSUME Agrees, NEW p \in Proc, Touch(p) PROVE AllDated' /\ (Calm => Promise)'
  <1> DEFINE P == Scheduled(proc[p])
  <1>1. TypeInv /\ Sound(proc[p]) /\ Moved(p, P) /\ UNCHANGED <<host, index, notes>>
    BY ProcSound DEF Agrees, Inv, Touch
  <1>2. /\ P.pc = proc[p].pc /\ P.it = proc[p].it /\ P.reconciled = proc[p].reconciled
        /\ P.done = proc[p].done /\ P.queue = proc[p].queue /\ P.timers = proc[p].timers
        /\ Clearing(proc[p]) => Clearing(P)
    BY <1>1, ScheduledFields
  <1> HIDE DEF P
  <1>3. \A i \in Id : Awaits(proc[p], i, ver) => Awaits(P, i, ver)
    BY <1>2, SameWaits
  <1>4. Dated(P, ver, coming) /\ (Promise => Faithful(proc[p], P))
    BY <1>1, <1>2, <1>3, EventKeeps DEF Agrees, AllDated
  <1> QED
    BY <1>1, <1>2, <1>4, QuietAgrees DEF notes

LEMMA TimerFiresAgrees ==
  ASSUME Agrees, NEW p \in Proc, TimerFires(p) PROVE AllDated' /\ (Calm => Promise)'
  <1>1. TypeInv /\ Sound(proc[p]) /\ UNCHANGED <<host, index, notes>>
    BY ProcSound DEF Agrees, Inv, TimerFires
  <1>2. PICK i \in proc[p].timers :
          Moved(p, [proc[p] EXCEPT !.timers = @ \ {i}, !.queue = Append(@, Op("single", i))])
    BY DEF TimerFires
  <1> DEFINE P == [proc[p] EXCEPT !.timers = @ \ {i}, !.queue = Append(@, Op("single", i))]
  <1>3. Op("single", i) \in Job /\ Op("single", i).op = "single" /\ Op("single", i).id = i
    BY <1>1 DEF Sound, Process, Op, Job
  <1>4. /\ P.pc = proc[p].pc /\ P.it = proc[p].it /\ P.reconciled = proc[p].reconciled
        /\ P.done = proc[p].done /\ P.queue = Append(proc[p].queue, Op("single", i))
        /\ P.timers = proc[p].timers \ {i} /\ P.later = proc[p].later
    BY <1>1 DEF Sound, Process
  <1>5. Moved(p, P)
    BY <1>2
  <1> HIDE DEF P
  <1>6. \A j \in Id : Awaits(proc[p], j, ver) => Awaits(P, j, ver)
    BY <1>1, <1>3, <1>4, AppendedWaits
  <1>7. proc[p].queue # <<>> => P.queue[1] = proc[p].queue[1]
    BY <1>1, <1>4 DEF Sound, Process
  <1>8. Dated(P, ver, coming) /\ (Promise => Faithful(proc[p], P))
    BY <1>1, <1>4, <1>6, <1>7, EventKeeps DEF Agrees, AllDated
  <1>9. Clearing(proc[p]) => Clearing(P)
    BY <1>1, <1>3, <1>4, AppendedClears
  <1> QED
    BY <1>1, <1>5, <1>8, <1>9, QuietAgrees DEF notes

LEMMA LaterFiresAgrees ==
  ASSUME Agrees, NEW p \in Proc, LaterFires(p) PROVE AllDated' /\ (Calm => Promise)'
  <1> DEFINE P == [proc[p] EXCEPT !.later = Tail(@), !.queue = Append(@, Op(Head(proc[p].later), 0))]
  <1>1. /\ TypeInv /\ Sound(proc[p]) /\ UNCHANGED <<host, index, notes>>
        /\ proc[p].later # <<>> /\ Moved(p, P)
    BY ProcSound DEF Agrees, Inv, LaterFires
  <1>2. Op(Head(proc[p].later), 0) \in Job
    <2>1. Head(proc[p].later) \in Later
      BY <1>1 DEF Sound, Process
    <2> QED
      BY <2>1 DEF Op, Job, Later
  <1>3. /\ P.pc = proc[p].pc /\ P.it = proc[p].it /\ P.reconciled = proc[p].reconciled
        /\ P.done = proc[p].done /\ P.queue = Append(proc[p].queue, Op(Head(proc[p].later), 0))
        /\ P.timers = proc[p].timers /\ P.later = Tail(proc[p].later)
    BY <1>1 DEF Sound, Process
  <1> HIDE DEF P
  <1>4. \A j \in Id : Awaits(proc[p], j, ver) => Awaits(P, j, ver)
    BY <1>1, <1>2, <1>3, AppendedWaits
  <1>5. proc[p].queue # <<>> => P.queue[1] = proc[p].queue[1]
    BY <1>1, <1>3 DEF Sound, Process
  <1>6. Dated(P, ver, coming) /\ (Promise => Faithful(proc[p], P))
    BY <1>1, <1>3, <1>4, <1>5, EventKeeps DEF Agrees, AllDated
  <1>7. Clearing(proc[p]) => Clearing(P)
    BY <1>1, <1>3, DueClears
  <1> QED
    BY <1>1, <1>6, <1>7, QuietAgrees DEF notes

\* The place of a message is the only one it has.
LEMMA OnePlace ==
  ASSUME TypeInv, DatedHost, NEW o \in DOMAIN history
  PROVE  OrdinalOf(history[o]) = o
  <1>1. history[o] \in ToSet(history) /\ history[o] \in Id
    BY Ranges DEF ToSet
  <1>2. OrdinalOf(history[o]) \in DOMAIN history /\ history[OrdinalOf(history[o])] = history[o]
    BY <1>1 DEF OrdinalOf
  <1> QED
    BY <1>2 DEF DatedHost

LEMMA SingleHead ==
  ASSUME TypeInv, NEW p \in Proc, Is(p, "single")
  PROVE  /\ Sound(proc[p]) /\ proc[p].queue # <<>> /\ proc[p].pc = "idle"
         /\ Head(proc[p].queue).id \in Id /\ Head(proc[p].queue) = proc[p].queue[1]
         /\ Head(proc[p].queue) = Op("single", Head(proc[p].queue).id)
  <1>1. Sound(proc[p]) /\ proc[p].queue # <<>> /\ proc[p].pc = "idle" /\ proc[p].queue \in Seq(Job)
    BY ProcSound DEF Is, At, Sound, Process
  <1>2. Head(proc[p].queue) \in Job /\ Head(proc[p].queue).op = "single"
        /\ Head(proc[p].queue) = proc[p].queue[1]
    BY <1>1, TailKeeps DEF Is
  <1> QED
    BY <1>1, <1>2 DEF Job, Op

LEMMA ReadMessageAgrees ==
  ASSUME Agrees, NEW p \in Proc, ReadMessage(p) PROVE AllDated' /\ (Calm => Promise)'
  <1> DEFINE i == Head(proc[p].queue).id
             m == [id |-> i, ord |-> OrdinalOf(i), ver |-> ver[i]]
             gone == m.ord = 0 \/ m \in proc[p].done
             current == m.ord <= water /\ SourceIs(m)
             A == Ended(proc[p])
             B == [Ended(proc[p]) EXCEPT !.done = @ \cup {m}]
             it == [NoLocals EXCEPT !.id = m.id, !.ord = m.ord, !.ver = m.ver,
                      !.was = proc[p].reconciled, !.mark = water, !.floor = dirty]
             C == [proc[p] EXCEPT !.pc = "mark", !.reconciled = FALSE, !.it = it]
  <1>1. TypeInv /\ AllDated /\ UNCHANGED <<host, index, notes>>
    BY DEF Agrees, Inv, ReadMessage
  <1>2. /\ Sound(proc[p]) /\ proc[p].queue # <<>> /\ proc[p].pc = "idle" /\ i \in Id
        /\ Head(proc[p].queue) = Op("single", i) /\ Head(proc[p].queue) = proc[p].queue[1]
    BY <1>1, SingleHead DEF ReadMessage
  <1>3. Moved(p, IF gone THEN A ELSE IF current THEN B ELSE C)
    BY DEF ReadMessage
  <1>4. /\ A.pc = "idle" /\ A.queue = Tail(proc[p].queue) /\ A.timers = proc[p].timers
        /\ A.later = proc[p].later /\ A.done = proc[p].done /\ A.reconciled = proc[p].reconciled
    BY <1>2, EndedFields
  <1>5. Head(proc[p].queue).op # "clear"
    BY <1>2 DEF Op
  <1>6. m.id = i /\ m.ord = OrdinalOf(i) /\ m.ver = ver[i]
    OBVIOUS
  <1>7. m.ord # 0 => m.ord \in DOMAIN history /\ history[m.ord] = i /\ i < coming
    BY <1>1, <1>2, <1>6, OrdinalOfPlace DEF AllDated, DatedHost
  <1>8. ASSUME NEW o \in DOMAIN history, history[o] = i PROVE m.ord = o /\ m = Newest(o) /\ m.ord # 0
    <2>1. m.ord = o /\ o # 0
      BY <1>1, <1>6, <1>8, OnePlace, Ranges, ConstantsSound DEF AllDated, Ordinal
    <2> QED
      BY <1>8, <2>1 DEF Newest
  <1>9. ver[i] \in Nat
    BY <1>1, <1>2 DEF TypeInv, HostInv, Rev
  <1>10. ~Working(proc[p]) /\ Dated(proc[p], ver, coming)
    BY <1>1, <1>2 DEF Working, AllDated
  <1> HIDE DEF A, m
  <1>11. CASE gone
    <2>1. Moved(p, A)
      BY <1>3, <1>11
    <2>2. Dated(A, ver, coming)
      BY <1>4, <1>10 DEF Dated, Working, Paging
    <2>3. Clearing(proc[p]) => Clearing(A)
      BY <1>2, <1>4, <1>5, EndedClears
    <2>4. ASSUME Promise PROVE Faithful(proc[p], A)
      <3>1. ASSUME NEW o \in DOMAIN history, ~Known(o), Awaits(proc[p], history[o], ver)
            PROVE  Awaits(A, history[o], ver)
        <4>1. history[o] # i
          BY <1>8, <1>11, <3>1 DEF Known, Knows
        <4>2. Head(proc[p].queue) # Op("single", history[o])
          BY <1>2, <4>1 DEF Op
        <4> QED
          BY <1>2, <1>4, <3>1, <4>2, EndedWaits
      <3>2. ASSUME NEW o \in DOMAIN history, Knows(A, Newest(o)) PROVE Known(o)
        BY <1>4, <3>2 DEF Knows, Known
      <3>3. \A o : Holds(A, o) /\ (Owes(proc[p], o, dirty) => Owes(A, o, dirty))
        BY <1>2, <1>4 DEF Holds, Owes, Paging
      <3>4. UpToDate(A) /\ A.pc # "write"
        BY <1>4 DEF UpToDate, Working
      <3> QED
        BY <3>1, <3>2, <3>3, <3>4 DEF Faithful
    <2> QED
      BY <1>1, <2>1, <2>2, <2>3, <2>4, QuietAgrees DEF notes
  <1>12. CASE ~gone /\ current
    <2>1. Moved(p, B)
      BY <1>3, <1>12
    <2>2. /\ B.pc = "idle" /\ B.queue = Tail(proc[p].queue) /\ B.timers = proc[p].timers
          /\ B.later = proc[p].later /\ B.done = proc[p].done \cup {m} /\ B.reconciled = proc[p].reconciled
      <3>1. Sound(A)
        BY <1>2, EndedSound DEF A
      <3> QED
        BY <1>4, <3>1 DEF Sound, Process, A
    <2> HIDE DEF B
    <2>3. Dated(B, ver, coming)
      <3>1. m.id < coming /\ m.ver <= ver[m.id]
        BY <1>6, <1>7, <1>9, <1>12
      <3>2. \A x \in B.done : x.id < coming /\ x.ver <= ver[x.id]
        BY <1>10, <2>2, <3>1 DEF Dated
      <3> QED
        BY <2>2, <3>2 DEF Dated, Working, Paging
    <2>4. Clearing(proc[p]) => Clearing(B)
      BY <1>2, <1>5, <2>2, EndedClears
    <2>5. ASSUME Promise PROVE Faithful(proc[p], B)
      <3>1. ASSUME NEW o \in DOMAIN history, history[o] = i PROVE Known(o)
        BY <1>6, <1>8, <1>12, <3>1 DEF Known, SourceIs
      <3>2. ASSUME NEW o \in DOMAIN history, ~Known(o)
            PROVE  /\ Awaits(proc[p], history[o], ver) => Awaits(B, history[o], ver)
                   /\ ~Knows(B, Newest(o))
        <4>1. history[o] # i
          BY <3>1, <3>2
        <4>2. Head(proc[p].queue) # Op("single", history[o])
          BY <1>2, <4>1 DEF Op
        <4>3. Awaits(proc[p], history[o], ver) => Awaits(B, history[o], ver)
          BY <1>2, <2>2, <4>2, EndedWaits
        <4>4. Newest(o) # m
          BY <1>6, <4>1 DEF Newest
        <4>5. ~Knows(proc[p], Newest(o))
          BY <3>2 DEF Known
        <4> QED
          BY <2>2, <4>3, <4>4, <4>5 DEF Knows
      <3>3. \A o : Holds(B, o) /\ (Owes(proc[p], o, dirty) => Owes(B, o, dirty))
        BY <1>2, <2>2 DEF Holds, Owes, Paging
      <3>4. UpToDate(B) /\ B.pc # "write"
        BY <2>2 DEF UpToDate, Working
      <3> QED
        BY <3>2, <3>3, <3>4 DEF Faithful
    <2> QED
      BY <1>1, <2>1, <2>3, <2>4, <2>5, QuietAgrees DEF notes
  <1>13. CASE ~gone /\ ~current
    <2>1. Moved(p, C)
      BY <1>3, <1>13
    <2>2. /\ C.pc = "mark" /\ C.queue = proc[p].queue /\ C.timers = proc[p].timers
          /\ C.later = proc[p].later /\ C.done = proc[p].done /\ ~C.reconciled /\ C.it = it
      BY <1>2 DEF Sound, Process
    <2>3. /\ it.id = i /\ it.ord = m.ord /\ it.ver = ver[i] /\ it.was = proc[p].reconciled
          /\ it.mark = water /\ it.floor = dirty
      BY <1>6 DEF NoLocals
    <2> HIDE DEF C, it
    <2>4. Dated(C, ver, coming)
      BY <1>2, <1>7, <1>9, <1>10, <1>13, <2>2, <2>3 DEF Dated, Working, Paging
    <2>5. Clearing(proc[p]) => Clearing(C)
      BY <2>2 DEF Clearing
    <2>6. ASSUME Promise PROVE Faithful(proc[p], C)
      <3>1. UpToDate(C) /\ C.pc # "write"
        BY <1>7, <1>13, <2>2, <2>3 DEF UpToDate, Working
      <3>2. ASSUME NEW o \in DOMAIN history, Awaits(proc[p], history[o], ver)
            PROVE  Awaits(C, history[o], ver)
        <4>1. CASE history[o] = i
          BY <2>2, <2>3, <4>1 DEF Awaits
        <4>2. CASE history[o] # i
          <5>1. proc[p].queue[1] # Op("single", history[o])
            BY <1>2, <4>2 DEF Op
          <5> QED
            BY <1>2, <2>2, <3>2, <5>1 DEF Awaits
        <4> QED
          BY <4>1, <4>2
      <3>3. ASSUME NEW o \in DOMAIN history, Knows(C, Newest(o)) PROVE Known(o)
        BY <2>2, <3>3 DEF Knows, Known
      <3>4. \A o : Holds(C, o) /\ (Owes(proc[p], o, dirty) => Owes(C, o, dirty))
        BY <1>2, <2>2, <2>3 DEF Holds, Owes, Paging
      <3> QED
        BY <3>1, <3>2, <3>3, <3>4 DEF Faithful
    <2> QED
      BY <1>1, <2>1, <2>4, <2>5, <2>6, QuietAgrees DEF notes
  <1> QED
    BY <1>11, <1>12, <1>13

LEMMA AfterAgrees == ASSUME Agrees, NEW p \in Proc, After(p) PROVE AllDated' /\ (Calm => Promise)'
  <1> DEFINE m == proc[p].it
             A == Ended(proc[p])
             B == [A EXCEPT !.reconciled = @ \/ (m.was /\ dirty = 0), !.done = @ \cup {Revision(m)}]
  <1>1. TypeInv /\ AllDated /\ UNCHANGED <<host, index, notes>> /\ proc[p].pc = "after"
    BY DEF Agrees, Inv, After, At
  <1>2. Sound(proc[p]) /\ proc[p].queue # <<>> /\ Working(proc[p]) /\ m \in Local
    BY <1>1, WorkHasQueue DEF At, Working, Sound, Process
  <1>3. Moved(p, B)
    BY DEF After
  <1>4. /\ B.pc = "idle" /\ B.queue = Tail(proc[p].queue) /\ B.timers = proc[p].timers
        /\ B.later = proc[p].later /\ B.done = proc[p].done \cup {Revision(m)}
        /\ B.reconciled <=> proc[p].reconciled \/ (m.was /\ dirty = 0)
    <2>1. Sound(A)
      BY <1>2, EndedSound
    <2>2. A.pc = "idle" /\ A.queue = Tail(proc[p].queue) /\ A.timers = proc[p].timers
          /\ A.later = proc[p].later /\ A.done = proc[p].done /\ A.reconciled = proc[p].reconciled
      BY <1>2, EndedFields
    <2> HIDE DEF A
    <2> QED
      BY <2>1, <2>2 DEF Sound, Process
  <1>5. /\ Dated(proc[p], ver, coming) /\ ~proc[p].reconciled
        /\ proc[p].queue[1] = Op("single", m.id) /\ m.id < coming /\ m.ver <= ver[m.id]
    BY <1>1, <1>2 DEF AllDated, Dated
  <1>6. Head(proc[p].queue).op # "clear"
    BY <1>2, <1>5, TailKeeps DEF Op, Sound, Process
  <1> HIDE DEF m, B
  <1>7. Dated(B, ver, coming)
    <2>1. Revision(m).id = m.id /\ Revision(m).ver = m.ver
      BY DEF Revision
    <2>2. \A x \in B.done : x.id < coming /\ x.ver <= ver[x.id]
      BY <1>4, <1>5, <2>1 DEF Dated
    <2> QED
      BY <1>4, <2>2 DEF Dated, Working, Paging
  <1>8. Clearing(proc[p]) => Clearing(B)
    BY <1>2, <1>4, <1>6, EndedClears
  <1>9. ASSUME Promise PROVE Faithful(proc[p], B)
    <2>1. ASSUME NEW o \in DOMAIN history, Awaits(proc[p], history[o], ver)
          PROVE  Awaits(B, history[o], ver)
      BY <1>1, <1>2, <1>4, <2>1, EndedWaits
    <2>2. ASSUME NEW o \in DOMAIN history, Knows(B, Newest(o)) PROVE Known(o)
      <3>1. Knows(proc[p], Newest(o))
        BY <1>1, <1>4, <2>2 DEF Knows, m
      <3> QED
        BY <3>1 DEF Known
    <2>3. ASSUME NEW o, Owes(proc[p], o, dirty) PROVE Owes(B, o, dirty)
      <3>1. ~m.was \/ dirty # 0
        BY <1>1, <2>3 DEF Owes, m, Paging
      <3> QED
        BY <1>4, <1>5, <3>1 DEF Owes
    <2>4. UpToDate(B) /\ B.pc # "write" /\ \A o : Holds(B, o)
      BY <1>4 DEF UpToDate, Working, Holds
    <2> QED
      BY <2>1, <2>2, <2>3, <2>4 DEF Faithful
  <1> QED
    BY <1>1, <1>3, <1>7, <1>8, <1>9, QuietAgrees DEF notes

LEMMA PageFields ==
  ASSUME TypeInv, NEW P, Sound(P)
  PROVE  /\ ReadPage(P).pc = "page" /\ ReadPage(P).queue = P.queue /\ ReadPage(P).timers = P.timers
         /\ ReadPage(P).later = P.later /\ ReadPage(P).done = P.done
         /\ ReadPage(P).reconciled = P.reconciled /\ ReadPage(P).it.final = P.it.final
         /\ \A o \in Ordinal :
              \/ ReadPage(P).it.page[o] = None
              \/ o \in DOMAIN history
                 /\ ReadPage(P).it.page[o] = [id |-> history[o], ver |-> ver[history[o]]]
  <1> DEFINE page == [o \in Ordinal |->
                        IF o \in P.it.cursor + 1..Least(PageEnd(P.it), Len(history))
                        THEN [id |-> history[o], ver |-> ver[history[o]]] ELSE None]
  <1>1. ASSUME NEW o \in Ordinal, o \in P.it.cursor + 1..Least(PageEnd(P.it), Len(history))
        PROVE  o \in DOMAIN history
    <2>1. P.it.cursor \in Nat /\ P.it.final \in Nat /\ Page \in Nat
      BY BoundAssumption DEF Sound, Process, Local, Place
    <2>2. o \in 1..Len(history)
      BY <1>1, <2>1, Ranges, ConstantsSound DEF Least, PageEnd, Place
    <2> QED
      BY <2>2, Ranges
  <1>2. \A o \in Ordinal : page[o] = None \/ (o \in DOMAIN history
                                              /\ page[o] = [id |-> history[o], ver |-> ver[history[o]]])
    BY <1>1
  <1>3. ReadPage(P) = [P EXCEPT !.pc = "page", !.it.page = page]
    BY DEF ReadPage
  <1> HIDE DEF page
  <1>4. /\ ReadPage(P).pc = "page" /\ ReadPage(P).queue = P.queue /\ ReadPage(P).timers = P.timers
        /\ ReadPage(P).later = P.later /\ ReadPage(P).done = P.done
        /\ ReadPage(P).reconciled = P.reconciled /\ ReadPage(P).it.final = P.it.final
        /\ ReadPage(P).it.page = page
    BY <1>3 DEF Sound, Process, Local
  <1> QED
    BY <1>2, <1>4

\* A reconciliation ends; the process is then not reconciled if it owed one to
\* an ordinal that the index does not vouch for.
LEMMA ReconcileEnds ==
  ASSUME Agrees, NEW p \in Proc, NEW Q, Moved(p, Q), UNCHANGED <<host, index, lost, broken>>,
         proc[p].queue # <<>>, Head(proc[p].queue).op \in {"reconcile", "reindex"},
         proc[p].pc = "idle" \/ Paging(proc[p]),
         Q.pc = "idle", Q.queue = Tail(proc[p].queue), Q.timers = proc[p].timers,
         Q.later = proc[p].later, Q.done = proc[p].done,
         \A o \in DOMAIN history : Behind(o) /\ Owes(proc[p], o, dirty) => ~Q.reconciled
  PROVE  AllDated' /\ (Calm => Promise)'
  <1>1. TypeInv /\ Sound(proc[p]) /\ Dated(proc[p], ver, coming)
    BY ProcSound DEF Agrees, Inv, AllDated
  <1>2. Dated(Q, ver, coming)
    BY <1>1 DEF Dated, Working, Paging
  <1>3. Clearing(proc[p]) => Clearing(Q)
    BY <1>1, EndedClears
  <1>4. ASSUME Promise PROVE Faithful(proc[p], Q)
    <2>1. ASSUME NEW o \in DOMAIN history, Awaits(proc[p], history[o], ver)
          PROVE  Awaits(Q, history[o], ver)
      <3>1. Head(proc[p].queue) # Op("single", history[o])
        BY DEF Op
      <3>2. proc[p].pc \notin {"mark", "write"}
        BY DEF Paging
      <3> QED
        BY <1>1, <2>1, <3>1, <3>2, EndedWaits
    <2>2. ASSUME NEW o \in DOMAIN history, Knows(Q, Newest(o)) PROVE Known(o)
      BY <2>2 DEF Knows, Known
    <2>3. \A o \in DOMAIN history : Behind(o) /\ Owes(proc[p], o, dirty) => Owes(Q, o, dirty)
      BY DEF Owes
    <2>4. UpToDate(Q) /\ Q.pc # "write" /\ \A o : Holds(Q, o)
      BY DEF UpToDate, Working, Holds
    <2> QED
      BY <2>1, <2>2, <2>3, <2>4 DEF Faithful
  <1> QED
    BY <1>2, <1>3, <1>4, QuietAgrees

\* A reconciliation goes on, with a page that it has read or to the next.
LEMMA ReconcileGoesOn ==
  ASSUME Agrees, NEW p \in Proc, NEW Q, Moved(p, Q), UNCHANGED <<host, index, lost, broken>>,
         proc[p].queue # <<>>, Head(proc[p].queue).op \in {"reconcile", "reindex"},
         proc[p].pc = "idle" \/ Paging(proc[p]), ~proc[p].reconciled,
         Paging(Q), Q.queue = proc[p].queue, Q.timers = proc[p].timers, Q.reconciled = proc[p].reconciled,
         Q.later = proc[p].later, Q.done = proc[p].done,
         Q.pc = "page" => \A o \in Ordinal :
           \/ Q.it.page[o] = None
           \/ o \in DOMAIN history /\ Q.it.page[o] = [id |-> history[o], ver |-> ver[history[o]]],
         \A o \in DOMAIN history : Owes(proc[p], o, dirty) => o <= Q.it.final
  PROVE  AllDated' /\ (Calm => Promise)'
  <1>1. TypeInv /\ AllDated /\ Sound(proc[p]) /\ Dated(proc[p], ver, coming)
    BY ProcSound DEF Agrees, Inv, AllDated
  <1>2. Head(proc[p].queue) = proc[p].queue[1]
    BY <1>1, TailKeeps DEF Sound, Process
  <1>3. ~Working(Q) /\ ~Working(proc[p]) /\ Q.pc \notin {"mark", "write", "after", "idle"}
        /\ proc[p].pc \notin {"mark", "write", "after"}
    BY DEF Working, Paging
  <1>4. Dated(Q, ver, coming)
    <2>1. ASSUME Q.pc = "page", NEW o \in Ordinal, Q.it.page[o] # None
          PROVE  Q.it.page[o].id < coming /\ Q.it.page[o].ver <= ver[Q.it.page[o].id]
      <3>1. o \in DOMAIN history /\ Q.it.page[o] = [id |-> history[o], ver |-> ver[history[o]]]
        BY <2>1
      <3>2. history[o] < coming /\ ver[history[o]] \in Nat
        BY <1>1, <3>1, Ranges DEF AllDated, DatedHost, TypeInv, HostInv, Rev
      <3> QED
        BY <3>1, <3>2
    <2> QED
      BY <1>1, <1>2, <1>3, <2>1 DEF Dated
  <1>5. Clearing(proc[p]) => Clearing(Q)
    BY DEF Clearing
  <1>6. ASSUME Promise PROVE Faithful(proc[p], Q)
    <2>1. UpToDate(Q)
      <3>1. ASSUME Q.pc = "page", NEW o \in Ordinal, Q.it.page[o] # None
            PROVE  o \in DOMAIN history /\ history[o] = Q.it.page[o].id
        <4>1. o \in DOMAIN history /\ Q.it.page[o] = [id |-> history[o], ver |-> ver[history[o]]]
          BY <3>1
        <4> QED
          BY <4>1
      <3> QED
        BY <1>3, <3>1 DEF UpToDate
    <2>2. ASSUME NEW o \in DOMAIN history
          PROVE  /\ Awaits(proc[p], history[o], ver) => Awaits(Q, history[o], ver)
                 /\ Knows(Q, Newest(o)) => Known(o)
      BY <1>3 DEF Awaits, Knows, Known
    <2>3. \A o \in DOMAIN history : Owes(proc[p], o, dirty) => Owes(Q, o, dirty)
      BY DEF Owes
    <2>4. \A o : Holds(Q, o)
      BY <1>3 DEF Holds
    <2> QED
      BY <1>3, <2>1, <2>2, <2>3, <2>4 DEF Faithful
  <1> QED
    BY <1>4, <1>5, <1>6, QuietAgrees

\* What the end of a reconciliation says of the process.
LEMMA ReconciledFields ==
  ASSUME TypeInv, NEW P, Sound(P), P.queue # <<>>, NEW n \in Place
  PROVE  /\ Reconciled(P, n).pc = "idle" /\ Reconciled(P, n).queue = Tail(P.queue)
         /\ Reconciled(P, n).timers = P.timers /\ Reconciled(P, n).later = P.later
         /\ Reconciled(P, n).done = P.done
         /\ Reconciled(P, n).reconciled => P.reconciled \/ ReconciledThrough(n)
  <1>1. Sound(Ended(P)) /\ Ended(P).pc = "idle"
    BY EndedSound
  <1>2. /\ Ended(P).queue = Tail(P.queue) /\ Ended(P).timers = P.timers /\ Ended(P).later = P.later
        /\ Ended(P).done = P.done /\ Ended(P).reconciled = P.reconciled
    BY EndedFields
  <1> QED
    BY <1>1, <1>2 DEF Reconciled, Sound, Process

LEMMA CoveredIsNotBehind ==
  ASSUME TypeInv, NEW n \in Place, ReconciledThrough(n), NEW o \in DOMAIN history, o <= n
  PROVE  ~Behind(o)
  BY Ranges, ConstantsSound DEF ReconciledThrough, Behind, TypeInv, IndexInv, Place

LEMMA ReconcileAgrees == ASSUME Agrees, NEW p \in Proc, Reconcile(p) PROVE AllDated' /\ (Calm => Promise)'
  <1> DEFINE n == Len(history)
             R == [proc[p] EXCEPT !.it.final = Len(history), !.it.cursor = StartOrdinal]
  <1>1. /\ TypeInv /\ Sound(proc[p]) /\ UNCHANGED <<host, index, lost, broken>>
        /\ proc[p].pc = "idle" /\ proc[p].queue # <<>>
        /\ Head(proc[p].queue).op \in {"reconcile", "reindex"}
    BY ProcSound DEF Agrees, Inv, Reconcile, Is, At, notes
  <1>2. n \in Place /\ StartOrdinal \in Place /\ DOMAIN history = 1..n
    BY <1>1, Ranges
  <1>3. Moved(p, IF proc[p].reconciled THEN Ended(proc[p])
                 ELSE IF StartOrdinal >= n THEN Reconciled(proc[p], n) ELSE ReadPage(R))
    BY DEF Reconcile
  <1>4. CASE proc[p].reconciled
    <2>1. Moved(p, Ended(proc[p]))
      BY <1>3, <1>4
    <2>2. \A o : ~Owes(proc[p], o, dirty)
      BY <1>1, <1>4 DEF Owes, Paging
    <2> QED
      BY <1>1, <2>1, <2>2, EndedFields, ReconcileEnds
  <1>5. CASE ~proc[p].reconciled /\ StartOrdinal >= n
    <2>1. Moved(p, Reconciled(proc[p], n))
      BY <1>3, <1>5
    <2>2. ASSUME NEW o \in DOMAIN history, Behind(o) PROVE ~Reconciled(proc[p], n).reconciled
      <3>1. o <= n
        BY <1>2
      <3>2. ~ReconciledThrough(n)
        BY <1>1, <1>2, <2>2, <3>1, CoveredIsNotBehind
      <3> QED
        BY <1>1, <1>2, <1>5, <3>2, ReconciledFields
    <2> QED
      BY <1>1, <1>2, <2>1, <2>2, ReconciledFields, ReconcileEnds
  <1>6. CASE ~proc[p].reconciled /\ ~(StartOrdinal >= n)
    <2>1. Moved(p, ReadPage(R))
      BY <1>3, <1>6
    <2>2. Sound(R)
      BY <1>1, <1>2 DEF Sound, Process, Local, AtWork, Noted
    <2>3. /\ R.queue = proc[p].queue /\ R.timers = proc[p].timers /\ R.later = proc[p].later
          /\ R.done = proc[p].done /\ R.reconciled = proc[p].reconciled /\ R.it.final = n
      BY <1>1 DEF Sound, Process, Local
    <2> HIDE DEF R
    <2> DEFINE Q == ReadPage(R)
    <2>4. /\ Q.pc = "page" /\ Q.queue = proc[p].queue /\ Q.timers = proc[p].timers
          /\ Q.later = proc[p].later /\ Q.done = proc[p].done
          /\ Q.reconciled = proc[p].reconciled /\ Q.it.final = n
          /\ \A o \in Ordinal :
               \/ Q.it.page[o] = None
               \/ o \in DOMAIN history /\ Q.it.page[o] = [id |-> history[o], ver |-> ver[history[o]]]
      BY <1>1, <2>2, <2>3, PageFields
    <2> HIDE DEF Q
    <2>5. Moved(p, Q) /\ Paging(Q) /\ \A o \in DOMAIN history : o <= Q.it.final
      BY <1>2, <2>1, <2>4 DEF Paging, Q
    <2> QED
      BY <1>1, <1>6, <2>4, <2>5, ReconcileGoesOn
  <1> QED
    BY <1>4, <1>5, <1>6

\* Of a process in a reconciliation.
LEMMA PagingProcess ==
  ASSUME Agrees, NEW p \in Proc, Paging(proc[p])
  PROVE  /\ TypeInv /\ Sound(proc[p]) /\ proc[p].queue # <<>> /\ ~proc[p].reconciled
         /\ Head(proc[p].queue).op \in {"reconcile", "reindex"}
         /\ proc[p].it.final \in Place
         /\ \A o, d : Owes(proc[p], o, d) => o <= proc[p].it.final
  <1>1. TypeInv /\ Dated(proc[p], ver, coming) /\ ~At(p, "idle")
    BY DEF Agrees, Inv, AllDated, At, Paging
  <1>2. Sound(proc[p]) /\ proc[p].queue # <<>> /\ proc[p] \in Process
    BY <1>1, WorkHasQueue
  <1>3. Head(proc[p].queue) = proc[p].queue[1]
    BY <1>2, TailKeeps DEF Process
  <1> QED
    BY <1>1, <1>2, <1>3 DEF Dated, Process, Local, Owes, Paging

LEMMA ResumeAgrees == ASSUME Agrees, NEW p \in Proc, Resume(p) PROVE AllDated' /\ (Calm => Promise)'
  <1> DEFINE Q == ReadPage(proc[p])
  <1>1. Paging(proc[p]) /\ Moved(p, Q) /\ UNCHANGED <<host, index, lost, broken>>
    BY DEF Resume, At, Paging, notes
  <1>2. /\ TypeInv /\ Sound(proc[p]) /\ proc[p].queue # <<>> /\ ~proc[p].reconciled
        /\ Head(proc[p].queue).op \in {"reconcile", "reindex"}
        /\ \A o : Owes(proc[p], o, dirty) => o <= proc[p].it.final
    BY <1>1, PagingProcess
  <1>3. /\ Q.pc = "page" /\ Q.queue = proc[p].queue /\ Q.timers = proc[p].timers
        /\ Q.later = proc[p].later /\ Q.done = proc[p].done
        /\ Q.reconciled = proc[p].reconciled /\ Q.it.final = proc[p].it.final
        /\ \A o \in Ordinal :
             \/ Q.it.page[o] = None
             \/ o \in DOMAIN history /\ Q.it.page[o] = [id |-> history[o], ver |-> ver[history[o]]]
    BY <1>2, PageFields
  <1> HIDE DEF Q
  <1>4. Paging(Q)
    BY <1>3 DEF Paging
  <1> QED
    BY <1>1, <1>2, <1>3, <1>4, ReconcileGoesOn

LEMMA NextPageAgrees == ASSUME Agrees, NEW p \in Proc, NextPage(p) PROVE AllDated' /\ (Calm => Promise)'
  <1> DEFINE m == proc[p].it
             Q == [proc[p] EXCEPT !.pc = "yield", !.it.cursor = StartOrdinal]
             more == StartOrdinal > m.cursor /\ StartOrdinal < m.final
  <1>1. Paging(proc[p]) /\ UNCHANGED <<host, index, lost, broken>>
    BY DEF NextPage, At, Paging, notes
  <1>2. Moved(p, IF more THEN Q ELSE Reconciled(proc[p], m.final))
    BY DEF NextPage
  <1>3. /\ TypeInv /\ Sound(proc[p]) /\ proc[p].queue # <<>> /\ ~proc[p].reconciled
        /\ Head(proc[p].queue).op \in {"reconcile", "reindex"} /\ m.final \in Place
        /\ \A o : Owes(proc[p], o, dirty) => o <= m.final
    BY <1>1, PagingProcess
  <1>4. CASE more
    <2>1. /\ Q.pc = "yield" /\ Q.queue = proc[p].queue /\ Q.timers = proc[p].timers
          /\ Q.later = proc[p].later /\ Q.done = proc[p].done
          /\ Q.reconciled = proc[p].reconciled /\ Q.it.final = m.final
      BY <1>3 DEF Sound, Process, Local
    <2>2. Moved(p, Q)
      BY <1>2, <1>4
    <2> HIDE DEF Q
    <2>3. Paging(Q) /\ Q.pc # "page"
      BY <2>1 DEF Paging
    <2> QED
      BY <1>1, <1>3, <2>1, <2>2, <2>3, ReconcileGoesOn
  <1>5. CASE ~more
    <2>1. Moved(p, Reconciled(proc[p], m.final))
      BY <1>2, <1>5
    <2> HIDE DEF m
    <2>2. ASSUME NEW o \in DOMAIN history, Behind(o), Owes(proc[p], o, dirty)
          PROVE  ~Reconciled(proc[p], m.final).reconciled
      <3>1. o <= m.final
        BY <1>3, <2>2
      <3>2. ~ReconciledThrough(m.final)
        BY <1>3, <2>2, <3>1, CoveredIsNotBehind
      <3> QED
        BY <1>3, <3>2, ReconciledFields
    <2> QED
      BY <1>1, <1>3, <2>1, <2>2, ReconciledFields, ReconcileEnds
  <1> QED
    BY <1>4, <1>5

LEMMA PageFailsAgrees == ASSUME Agrees, NEW p \in Proc, PageFails(p) PROVE AllDated' /\ (Calm => Promise)'
  <1>1. Paging(proc[p]) /\ Moved(p, Ended(proc[p])) /\ UNCHANGED <<host, index, lost, broken>>
    BY DEF PageFails, At, Paging
  <1>2. /\ TypeInv /\ Sound(proc[p]) /\ proc[p].queue # <<>> /\ ~proc[p].reconciled
        /\ Head(proc[p].queue).op \in {"reconcile", "reindex"}
    BY <1>1, PagingProcess
  <1> QED
    BY <1>1, <1>2, EndedFields, ReconcileEnds

\* A write of one message fails: the process owes a reconciliation, which will
\* take in the message unless the notes say that it is missed.
LEMMA WriteIsOwed ==
  ASSUME Agrees, NEW p \in Proc, proc[p].pc \in {"mark", "write"}, Moved(p, Unsettled(proc[p])),
         UNCHANGED <<host, index, broken>>, lost \subseteq lost',
         Promise => \A o \in DOMAIN history :
                      o = proc[p].it.ord => proc[p].it.id \in lost' \/ Behind(o)'
  PROVE  AllDated' /\ (Calm => Promise)'
  <1> DEFINE m == proc[p].it
             Q == Unsettled(proc[p])
  <1>1. TypeInv /\ AllDated /\ Working(proc[p]) /\ ~At(p, "idle")
    BY DEF Agrees, Inv, Working, At
  <1>2. Sound(proc[p]) /\ proc[p].queue # <<>> /\ proc[p] \in Process
    BY <1>1, WorkHasQueue
  <1>3. Dated(proc[p], ver, coming) /\ Head(proc[p].queue) = Op("single", m.id)
    <2>1. Head(proc[p].queue) = proc[p].queue[1]
      BY <1>2, TailKeeps DEF Process
    <2> QED
      BY <1>1, <2>1 DEF AllDated, Dated
  <1>4. /\ Q.pc = "idle" /\ Q.queue = Tail(proc[p].queue) /\ Q.timers = proc[p].timers
        /\ Q.later = proc[p].later /\ Q.done = proc[p].done /\ ~Q.reconciled
    <2>1. Sound(Ended(proc[p]))
      BY <1>2, EndedSound
    <2> QED
      BY <1>2, <2>1, EndedFields DEF Unsettled, Sound, Process
  <1> HIDE DEF m, Q
  <1>5. Dated(Q, ver, coming)
    BY <1>3, <1>4 DEF Dated, Working, Paging
  <1>6. Clearing(proc[p]) => Clearing(Q)
    <2>1. Head(proc[p].queue).op # "clear"
      BY <1>3 DEF Op
    <2> QED
      BY <1>2, <1>4, <2>1, EndedClears
  <1>7. ASSUME Promise PROVE Faithful(proc[p], Q)
    <2>1. \A o : Owes(Q, o, dirty) /\ Holds(Q, o)
      BY <1>4 DEF Owes, Holds
    <2>2. UpToDate(Q)
      BY <1>4 DEF UpToDate, Working
    <2>3. m.ord \in DOMAIN history /\ history[m.ord] = m.id
      BY <1>1, <1>7 DEF Promise, UpToDate, m
    <2>4. ASSUME NEW o \in DOMAIN history, history[o] = m.id
          PROVE  history[o] \in lost' \/ Behind(o)'
      <3>1. o = m.ord
        BY <1>1, <2>3, <2>4 DEF AllDated, DatedHost
      <3> QED
        BY <1>7, <2>4, <3>1 DEF m
    <2>5. ASSUME NEW o \in DOMAIN history, history[o] # m.id, Awaits(proc[p], history[o], ver)
          PROVE  Awaits(Q, history[o], ver)
      BY <1>1, <1>2, <1>4, <2>5, EndedWaits DEF m
    <2>6. ASSUME NEW o \in DOMAIN history, Knows(Q, Newest(o)) PROVE Known(o)
      BY <1>4, <2>6 DEF Knows, Known
    <2> QED
      BY <1>4, <2>1, <2>2, <2>4, <2>5, <2>6 DEF Faithful
  <1> QED
    BY <1>5, <1>6, <1>7, QuietAgrees DEF Q

LEMMA WorkPlace ==
  ASSUME TypeInv, NEW p \in Proc, Working(proc[p])
  PROVE  /\ proc[p].it \in Local /\ proc[p].it.ord \in Ordinal /\ proc[p].it.id \in Id
         /\ proc[p].it.ord \in Nat /\ proc[p].it.ord > 0
         /\ proc[p].it.floor \in Nat /\ water \in Nat /\ dirty \in Nat
  <1>1. Sound(proc[p]) /\ water \in Place /\ dirty \in Place
    BY ProcSound DEF TypeInv, IndexInv
  <1>2. proc[p].it \in Local /\ proc[p].it.ord \in Ordinal /\ proc[p].it.id \in Id
    BY <1>1 DEF Sound, AtWork, Process, Working
  <1>3. proc[p].it.floor \in Place
    BY <1>2 DEF Local
  <1> QED
    BY <1>1, <1>2, <1>3, ConstantsSound DEF Place, Ordinal

LEMMA MarkFailsAgrees == ASSUME Agrees, NEW p \in Proc, MarkFails(p) PROVE AllDated' /\ (Calm => Promise)'
  <1>1. /\ TypeInv /\ proc[p].pc = "mark" /\ Moved(p, Unsettled(proc[p])) /\ UNCHANGED <<host, index, broken>>
        /\ lost' = IF proc[p].it.ord <= water THEN lost \cup {proc[p].it.id} ELSE lost
    BY DEF Agrees, Inv, MarkFails, At
  <1>2. ASSUME NEW o, o > water PROVE Behind(o)'
    BY <1>1, <1>2 DEF Behind, index
  <1>3. proc[p].it.ord > water \/ proc[p].it.ord <= water
    BY <1>1, WorkPlace DEF Working
  <1> QED
    BY <1>1, <1>2, <1>3, WriteIsOwed

LEMMA WriteFailsAgrees == ASSUME Agrees, NEW p \in Proc, WriteFails(p) PROVE AllDated' /\ (Calm => Promise)'
  <1> DEFINE m == proc[p].it
  <1>1. /\ TypeInv /\ proc[p].pc = "write" /\ Moved(p, Unsettled(proc[p]))
        /\ UNCHANGED <<host, index, lost, broken>>
    BY DEF Agrees, Inv, WriteFails, At
  <1>2. m.ord \in Nat /\ m.ord > 0 /\ m.floor \in Nat /\ water \in Nat
    BY <1>1, WorkPlace DEF Working
  <1>3. Unsettled(proc[p]).pc = "idle"
    BY <1>1, WorkHasQueue, UnsettledSound DEF At
  <1>4. ASSUME Promise, NEW o, o = m.ord PROVE Behind(o)'
    <2>1. dirty = Lower(m.floor, Least(m.ord, water + 1))
      BY <1>1, <1>4 DEF Promise, UpToDate
    <2>2. dirty # 0 /\ dirty <= o
      BY <1>2, <1>4, <2>1 DEF Lower, Least
    <2>3. ASSUME NEW q \in Proc PROVE Holds(proc'[q], o)
      <3>1. CASE q = p
        BY <1>1, <1>3, <3>1, MovedTo DEF Holds
      <3>2. CASE q # p
        BY <1>1, <1>4, <3>2, MovedTo DEF Holds, Promise, OneWriter, At
      <3> QED
        BY <3>1, <3>2
    <2> QED
      BY <1>1, <2>2, <2>3 DEF Behind, index
  <1> QED
    BY <1>1, <1>4, WriteIsOwed

LEMMA ClearFailsAgrees == ASSUME Agrees, NEW p \in Proc, ClearFails(p) PROVE AllDated' /\ (Calm => Promise)'
  <1> DEFINE U == [proc[p] EXCEPT !.done = {}]
             Q == Unsettled(U)
  <1>1. Moved(p, Q) /\ broken' = TRUE /\ UNCHANGED <<host, index, lost>>
    BY DEF ClearFails
  <1>2. TypeInv /\ Sound(proc[p]) /\ proc[p].queue # <<>>
    BY ProcSound DEF Agrees, Inv, ClearFails, Is
  <1>3. Sound(U) /\ U.queue # <<>> /\ U.done = {}
    <2>1. {} \in SUBSET Message
      OBVIOUS
    <2>2. Sound(U)
      BY <1>2, <2>1, DoneSound
    <2> QED
      BY <1>2, <2>2 DEF Sound, Process
  <1> HIDE DEF U
  <1>4. Q.pc = "idle" /\ Q.done = {}
    <2>1. Sound(Ended(U)) /\ Ended(U).pc = "idle" /\ Ended(U).done = {}
      BY <1>3, EndedSound, EndedFields
    <2> QED
      BY <2>1 DEF Unsettled, Sound, Process
  <1> HIDE DEF Q
  <1>5. Dated(Q, ver, coming)
    BY <1>4 DEF Dated, Working, Paging
  <1> QED
    BY <1>1, <1>5, QuietAgrees

LEMMA CrashAgrees == ASSUME Agrees, NEW p \in Proc, Crash(p) PROVE AllDated' /\ (Calm => Promise)'
  <1>1. /\ TypeInv /\ AllDated /\ Moved(p, Fresh) /\ UNCHANGED <<host, index>>
        /\ broken' = (broken \/ Clears(p))
        /\ lost' = lost \cup proc[p].timers \cup (Pending(proc[p]) \ {0})
    BY DEF Agrees, Inv, Crash
  <1>2. Sound(proc[p]) /\ Dated(proc[p], ver, coming)
    BY <1>1, ProcSound DEF AllDated
  <1>3. /\ Fresh.pc = "idle" /\ Fresh.done = {} /\ ~Fresh.reconciled
    BY DEF Fresh
  <1>4. Dated(Fresh, ver, coming)
    BY <1>3 DEF Dated, Working, Paging
  <1>5. Clearing(proc[p]) => broken'
    BY <1>1, ClearsIsClearing
  <1>6. ASSUME NEW o \in DOMAIN history, Awaits(proc[p], history[o], ver) PROVE history[o] \in lost'
    <2>1. history[o] # 0
      BY <1>1, Ranges DEF Id
    <2>2. CASE history[o] \in proc[p].timers
      BY <1>1, <2>2
    <2>3. ASSUME NEW k \in DOMAIN proc[p].queue, proc[p].queue[k] = Op("single", history[o])
          PROVE  history[o] \in lost'
      <3>1. history[o] \in Pending(proc[p])
        BY <2>3 DEF Pending, ToSet, Op
      <3> QED
        BY <1>1, <2>1, <3>1
    <2>4. CASE proc[p].pc \in {"mark", "write"} /\ proc[p].it.id = history[o]
      <3>1. proc[p].queue # <<>> /\ proc[p].queue[1] = Op("single", history[o])
        BY <1>2, <2>4 DEF Dated, Working, Sound, AtWork
      <3>2. 1 \in DOMAIN proc[p].queue
        BY <1>2, <3>1 DEF Sound, Process
      <3> QED
        BY <2>3, <3>1, <3>2
    <2> QED
      BY <1>6, <2>2, <2>3, <2>4 DEF Awaits
  <1>7. ASSUME Promise PROVE Faithful(proc[p], Fresh)
    <2>1. \A o : Owes(Fresh, o, dirty) /\ Holds(Fresh, o) /\ ~Knows(Fresh, Newest(o))
      BY <1>3 DEF Owes, Holds, Knows
    <2>2. UpToDate(Fresh)
      BY <1>3 DEF UpToDate, Working
    <2> QED
      BY <1>3, <1>6, <2>1, <2>2 DEF Faithful
  <1> QED
    BY <1>1, <1>4, <1>5, <1>7, QuietAgrees

-----------------------------------------------------------------------------
(* What the host does. *)

LEMMA NoticedAwaits ==
  ASSUME NEW P, Sound(P), ~Working(P), NEW i \in Id, NEW V
  PROVE  Awaits(Noticed(P, i), i, V)
  <1>1. P.queue \in Seq(Job) /\ P \in Process
    BY DEF Sound, Process
  <1>2. CASE i \in P.timers
    BY <1>2 DEF Noticed, Awaits
  <1>3. CASE i \notin P.timers /\ i \in Pending(P)
    <2>1. PICK k \in DOMAIN P.queue : P.queue[k].id = i
      BY <1>3 DEF Pending, ToSet
    <2>2. P.queue[k] \in Job /\ i # 0
      BY <1>1, <2>1 DEF Id
    <2>3. P.queue[k] = Op("single", i)
      BY <2>1, <2>2 DEF Job, Op
    <2> QED
      BY <1>3, <2>3 DEF Noticed, Awaits
  <1>4. CASE i \notin P.timers /\ i \notin Pending(P)
    BY <1>1, <1>4 DEF Noticed, Awaits, Process
  <1> QED
    BY <1>2, <1>3, <1>4

\* The fields of a process that has an event; it is not in an operation on a
\* message, and may be given a timer.
Hears(P, Q) ==
  /\ ~Working(P) /\ Q.pc = P.pc /\ Q.it = P.it /\ Q.reconciled = P.reconciled
  /\ Q.done = P.done /\ Q.queue = P.queue /\ P.timers \subseteq Q.timers
  /\ Clearing(P) => Clearing(Q)

LEMMA EventHeard ==
  ASSUME NEW P, Sound(P), ~Working(P), NEW i \in Id
  PROVE  /\ Hears(P, Scheduled(P)) /\ Hears(P, Scheduled(Noticed(P, i)))
         /\ \A V : Awaits(Scheduled(Noticed(P, i)), i, V)
  <1> DEFINE Q == Noticed(P, i)
  <1>1. Sound(Q) /\ \A V : Awaits(Q, i, V)
    BY NoticedSound, NoticedAwaits
  <1>2. /\ Q.pc = P.pc /\ Q.it = P.it /\ Q.done = P.done /\ Q.reconciled = P.reconciled
        /\ Q.queue = P.queue /\ P.timers \subseteq Q.timers
        /\ Clearing(P) => Clearing(Q)
    BY NoticedFields
  <1>3. Hears(P, Scheduled(P))
    BY ScheduledFields DEF Hears
  <1> HIDE DEF Q
  <1>4. /\ Scheduled(Q).pc = Q.pc /\ Scheduled(Q).it = Q.it /\ Scheduled(Q).reconciled = Q.reconciled
        /\ Scheduled(Q).done = Q.done /\ Scheduled(Q).queue = Q.queue /\ Scheduled(Q).timers = Q.timers
        /\ Clearing(Q) => Clearing(Scheduled(Q))
    BY <1>1, ScheduledFields
  <1>5. \A V : Awaits(Scheduled(Q), i, V)
    BY <1>1, <1>4, SameWaits
  <1>6. Hears(P, Scheduled(Q))
    BY <1>2, <1>4 DEF Hears
  <1> QED
    BY <1>3, <1>5, <1>6 DEF Q

\* What was kept of a message whose last revision stays.
LEMMA HostKeeps ==
  ASSUME TypeInv, NEW p \in Proc, NEW P, Moved(p, P), Hears(proc[p], P), UNCHANGED index,
         NEW o \in DOMAIN history, history'[o] = history[o], ver'[history[o]] = ver[history[o]],
         Excused(o) => Excused(o)', Kept(o)
  PROVE  Kept(o)'
  <1>1. proc'[p] = P /\ \A q \in Proc : q # p => proc'[q] = proc[q]
    BY MovedTo
  <1>2. source' = source /\ doc' = doc /\ water' = water /\ dirty' = dirty
    BY DEF index
  <1>3. Good(o)' = Good(o) /\ Newest(o)' = Newest(o)
    BY <1>2 DEF Good, Newest
  <1>4. \A q \in Proc : Holds(proc[q], o) => Holds(proc'[q], o)
    BY <1>1 DEF Holds, Hears
  <1>5. \A q \in Proc : Owes(proc[q], o, dirty) => Owes(proc'[q], o, dirty)
    BY <1>1 DEF Owes, Hears, Paging
  <1>6. Safe(o) => Safe(o)'
    BY <1>2, <1>3, <1>4, <1>5 DEF Safe, Behind, Owed
  <1>7. Known(o)' => Known(o)
    <2>1. \A q \in Proc : Knows(proc'[q], Newest(o)) => Knows(proc[q], Newest(o))
      BY <1>1 DEF Knows, Hears
    <2> QED
      BY <1>2, <1>3, <2>1 DEF Known
  <1>8. Awaited(o) => Awaited(o)'
    <2>1. ASSUME NEW q \in Proc, Awaits(proc[q], history[o], ver) PROVE Awaits(proc'[q], history[o], ver)
      BY <1>1, <2>1, SameWaits DEF Hears
    <2>2. ASSUME NEW q \in Proc, Awaits(proc'[q], history[o], ver) PROVE Awaits(proc'[q], history[o], ver')
      BY <2>2 DEF Awaits
    <2> QED
      BY <2>1, <2>2 DEF Awaited
  <1> QED
    BY <1>6, <1>7, <1>8 DEF Kept

\* Nobody has read or done anything of a message's next revision.
LEMMA NextIsUnknown ==
  ASSUME TypeInv, TypeInv', AllDated, NEW p \in Proc, NEW P, Moved(p, P), Hears(proc[p], P),
         UNCHANGED index, NEW o \in DOMAIN history', o # 0, NEW i \in Id, history'[o] = i,
         i >= coming \/ ver'[i] > ver[i]
  PROVE  ~Known(o)'
  <1>1. proc'[p] = P /\ \A q \in Proc : q # p => proc'[q] = proc[q]
    BY MovedTo
  <1>2. source' = source /\ ver[i] \in Nat /\ ver'[i] \in Nat /\ i \in Nat /\ coming \in Nat
    BY ConstantsSound DEF index, TypeInv, HostInv, Rev
  <1>3. source[i].ver <= ver[i] /\ (source[i].ord # 0 => i < coming) /\ source[i].ver \in Nat
    BY DEF AllDated, DatedSource, TypeInv, IndexInv, Rev
  <1>4. source[i] # [ord |-> o, ver |-> ver'[i]]
    <2>1. CASE i >= coming
      <3>1. ~(i < coming)
        BY <1>2, <2>1
      <3> QED
        BY <1>3, <3>1
    <2>2. CASE ver'[i] > ver[i]
      <3>1. source[i].ver # ver'[i]
        BY <1>2, <1>3, <2>2
      <3> QED
        BY <3>1
    <2> QED
      BY <2>1, <2>2
  <1>5. ASSUME NEW q \in Proc, NEW m, m.id = i, m.ver = ver'[i], m.id < coming, m.ver <= ver[m.id]
        PROVE  FALSE
    <2>1. i < coming /\ ver'[i] <= ver[i]
      BY <1>5
    <2> QED
      BY <1>2, <2>1
  <1>6. ASSUME NEW q \in Proc, Knows(proc'[q], Newest(o)') PROVE FALSE
    <2>1. Knows(proc[q], Newest(o)')
      BY <1>1, <1>6 DEF Knows, Hears
    <2>2. Newest(o)'.id = i /\ Newest(o)'.ver = ver'[i]
      BY DEF Newest
    <2>3. Dated(proc[q], ver, coming)
      BY DEF AllDated
    <2>4. CASE Newest(o)' \in proc[q].done
      BY <1>5, <2>2, <2>3, <2>4 DEF Dated
    <2>5. CASE proc[q].pc = "after" /\ Revision(proc[q].it) = Newest(o)'
      <3>1. proc[q].it.id = i /\ proc[q].it.ver = ver'[i]
        BY <2>2, <2>5 DEF Revision
      <3> QED
        BY <1>5, <2>3, <2>5, <3>1 DEF Dated, Working
    <2> QED
      BY <2>1, <2>4, <2>5 DEF Knows
  <1>7. history'[o] = i /\ Newest(o)' = [id |-> i, ord |-> o, ver |-> ver'[i]]
    BY DEF Newest
  <1> QED
    BY <1>2, <1>4, <1>6, <1>7 DEF Known

LEMMA EventDated ==
  ASSUME TypeInv, TypeInv', AllDated, NEW p \in Proc, NEW P, Moved(p, P), Hears(proc[p], P),
         coming <= coming', \A i \in Id : ver[i] <= ver'[i]
  PROVE  \A q \in Proc : Dated(proc'[q], ver', coming')
  <1>1. proc'[p] = P /\ \A q \in Proc : q # p => proc'[q] = proc[q]
    BY MovedTo
  <1>2. /\ ver \in [Id -> Rev] /\ ver' \in [Id -> Rev] /\ coming \in Nat /\ coming' \in Nat
    BY BoundAssumption DEF TypeInv, HostInv
  <1>3. \A q \in Proc : Dated(proc[q], ver', coming')
    BY <1>2, ProcSound, DatedStays DEF AllDated
  <1>4. Dated(P, ver', coming')
    BY <1>3 DEF Dated, Hears, Working, Paging
  <1> QED
    BY <1>1, <1>3, <1>4

LEMMA ReadsStay ==
  ASSUME TypeInv, TypeInv', Promise, NEW p \in Proc, NEW P, Moved(p, P), Hears(proc[p], P), UNCHANGED index,
         \A o \in DOMAIN history : o \in DOMAIN history' /\ history'[o] = history[o]
  PROVE  (\A q \in Proc : UpToDate(proc[q]))' /\ IndexPlaced' /\ OneWriter'
  <1>1. proc'[p] = P /\ \A q \in Proc : q # p => proc'[q] = proc[q]
    BY MovedTo
  <1>2. source' = source /\ doc' = doc /\ water' = water /\ dirty' = dirty
    BY DEF index
  <1>3. \A q \in Proc : proc'[q].pc = proc[q].pc /\ proc'[q].it = proc[q].it
    BY <1>1 DEF Hears
  <1>4. ASSUME NEW q \in Proc PROVE UpToDate(proc[q])'
    <2>1. UpToDate(proc[q])
      BY DEF Promise
    <2>2. ASSUME NEW o \in Ordinal, proc[q].pc = "page", proc[q].it.page[o] # None
          PROVE  o \in DOMAIN history' /\ history'[o] = proc[q].it.page[o].id
      BY <2>1, <2>2 DEF UpToDate
    <2>3. Working(proc[q]) => /\ proc[q].it.ord \in DOMAIN history'
                              /\ history'[proc[q].it.ord] = proc[q].it.id
      BY <2>1 DEF UpToDate
    <2>4. /\ proc[q].pc = "mark" => proc[q].it.mark = water /\ proc[q].it.floor = dirty
          /\ proc[q].pc = "write" => dirty = Lower(proc[q].it.floor, Least(proc[q].it.ord, water + 1))
      BY <2>1 DEF UpToDate
    <2> QED
      BY <1>2, <1>3, <2>2, <2>3, <2>4 DEF UpToDate, Working
  <1>5. IndexPlaced'
    <2>1. Len(history) <= Len(history')
      <3>1. DOMAIN history = 1..Len(history) /\ DOMAIN history' = 1..Len(history')
            /\ Len(history) \in Nat /\ Len(history') \in Nat
        BY DEF TypeInv, HostInv
      <3>2. CASE Len(history) = 0
        BY <3>1, <3>2
      <3>3. CASE Len(history) # 0
        <4>1. Len(history) \in DOMAIN history'
          BY <3>1, <3>3
        <4> QED
          BY <3>1, <4>1
      <3> QED
        BY <3>2, <3>3
    <2>2. \A o \in Ordinal : o <= Len(history) => o <= Len(history')
      BY <2>1, ConstantsSound DEF TypeInv, HostInv
    <2> QED
      BY <1>2, <2>2 DEF Promise, IndexPlaced
  <1>6. OneWriter'
    BY <1>3 DEF Promise, OneWriter, At
  <1> QED
    BY <1>4, <1>5, <1>6

LEMMA UsedIsFree == ASSUME NEW p, Used(p) PROVE ~Working(proc[p])
  BY DEF Used, Free, Working

LEMMA AddAgrees == ASSUME Agrees, Inv', NEW p \in Proc, Add(p) PROVE AllDated' /\ (Calm => Promise)'
  <1>1. TypeInv /\ TypeInv' /\ AllDated /\ Sound(proc[p]) /\ ~Working(proc[p])
    BY ProcSound, UsedIsFree DEF Agrees, Inv, Add
  <1>2. coming \in Id /\ coming \in Nat /\ coming' = coming + 1
    BY <1>1, BoundAssumption DEF Add, TypeInv, HostInv, Id
  <1>3. /\ Len(history') = Len(history) + 1 /\ Len(history) \in Nat
        /\ \A o \in DOMAIN history' :
             (o \in DOMAIN history /\ history'[o] = history[o]) \/ (o = Len(history) + 1 /\ history'[o] = coming)
    <2>1. history' = Append(history, coming) /\ history \in Seq(Id)
      BY <1>1 DEF Add, TypeInv, HostInv
    <2> QED
      BY <1>2, <2>1, AppendSeq
  <1>4. \A o \in DOMAIN history : o \in DOMAIN history' /\ history'[o] = history[o]
    BY <1>1, <1>2 DEF Add, TypeInv, HostInv
  <1>5. ver' = ver /\ UNCHANGED index /\ UNCHANGED <<lost, broken>> /\ open \subseteq open'
    BY DEF Add, notes
  <1>6. PICK P : /\ Moved(p, P) /\ Hears(proc[p], P)
                 /\ Awaits(P, coming, ver) \/ coming \in open'
    BY <1>1, <1>2, EventHeard DEF Add
  <1>7. AllDated'
    <2>1. \A q \in Proc : Dated(proc'[q], ver', coming')
      <3>1. coming <= coming' /\ \A i \in Id : ver[i] <= ver'[i]
        BY <1>1, <1>2, <1>5 DEF TypeInv, HostInv, Rev
      <3> QED
        BY <1>1, <1>6, <3>1, EventDated
    <2>2. DatedHost'
      <3>1. \A o \in DOMAIN history : history[o] \in Nat /\ history[o] < coming
        BY <1>1, Ranges, ConstantsSound DEF AllDated, DatedHost
      <3>2. \A o \in DOMAIN history' : history'[o] < coming'
        BY <1>2, <1>3, <3>1
      <3>3. ASSUME NEW a \in DOMAIN history', NEW b \in DOMAIN history', history'[a] = history'[b]
            PROVE  a = b
        BY <1>1, <1>2, <1>3, <3>1, <3>3 DEF AllDated, DatedHost
      <3> QED
        BY <3>2, <3>3 DEF DatedHost
    <2>3. DatedSource'
      BY <1>1, <1>2, <1>5, ConstantsSound DEF AllDated, DatedSource, index
    <2> QED
      BY <2>1, <2>2, <2>3 DEF AllDated
  <1>8. ASSUME Calm' PROVE Promise'
    <2>1. Calm /\ Promise
      BY <1>1, <1>5, <1>6, <1>8, CalmBefore DEF Hears, Agrees
    <2>2. ASSUME NEW o \in DOMAIN history' PROVE Kept(o)'
      <3>1. CASE o \in DOMAIN history /\ history'[o] = history[o]
        <4>1. Excused(o) => Excused(o)'
          BY <1>5, <3>1 DEF Excused
        <4> QED
          BY <1>1, <1>5, <1>6, <2>1, <3>1, <4>1, HostKeeps DEF Promise
      <3>2. CASE o = Len(history) + 1 /\ history'[o] = coming
        <4>1. CASE coming \in open'
          BY <3>2, <4>1 DEF Kept, Safe, Excused
        <4>2. CASE Awaits(P, coming, ver)
          <5>1. Awaited(o)'
            BY <1>1, <1>5, <1>6, <3>2, <4>2, MovedTo DEF Awaited
          <5>2. ~Known(o)'
            <6>1. o # 0 /\ coming >= coming
              BY <1>2, <1>3, <3>2
            <6> QED
              BY <1>1, <1>2, <1>5, <1>6, <3>2, <6>1, NextIsUnknown
          <5> QED
            BY <5>1, <5>2 DEF Kept
        <4> QED
          BY <1>6, <4>1, <4>2
      <3> QED
        BY <1>3, <3>1, <3>2
    <2>3. (\A q \in Proc : UpToDate(proc[q]))' /\ IndexPlaced' /\ OneWriter'
      BY <1>1, <1>4, <1>5, <1>6, <2>1, ReadsStay
    <2> QED
      BY <2>2, <2>3 DEF Promise
  <1> QED
    BY <1>7, <1>8

LEMMA UpdateAgrees == ASSUME Agrees, Inv', NEW p \in Proc, Update(p) PROVE AllDated' /\ (Calm => Promise)'
  <1>1. TypeInv /\ TypeInv' /\ AllDated /\ Sound(proc[p]) /\ ~Working(proc[p])
    BY ProcSound, UsedIsFree DEF Agrees, Inv, Update
  <1>2. PICK i \in ToSet(history) : /\ open' = open \ {i} /\ ver' = [ver EXCEPT ![i] = @ + 1]
                                    /\ lost' = lost \ {i}
                                    /\ Moved(p, Scheduled(Noticed(proc[p], i)))
    BY DEF Update
  <1> DEFINE P == Scheduled(Noticed(proc[p], i))
  <1>3. i \in Id
    BY <1>1, Ranges DEF ToSet
  <1>4. Moved(p, P) /\ Hears(proc[p], P) /\ \A V : Awaits(P, i, V)
    BY <1>1, <1>2, <1>3, EventHeard
  <1> HIDE DEF P
  <1>5. /\ history' = history /\ coming' = coming /\ UNCHANGED index /\ broken' = broken
    BY DEF Update
  <1>6. /\ \A j \in Id : ver[j] <= ver'[j] /\ (j # i => ver'[j] = ver[j])
        /\ ver'[i] > ver[i]
    <2>1. ver \in [Id -> Rev] /\ \A j \in Id : ver[j] \in Nat
      BY <1>1 DEF TypeInv, HostInv, Rev
    <2> QED
      BY <1>2, <1>3, <2>1
  <1>7. AllDated'
    <2>1. \A q \in Proc : Dated(proc'[q], ver', coming')
      <3>1. coming <= coming'
        BY <1>1, <1>5 DEF TypeInv, HostInv
      <3> QED
        BY <1>1, <1>4, <1>6, <3>1, EventDated
    <2>2. DatedHost'
      BY <1>1, <1>5 DEF AllDated, DatedHost
    <2>3. DatedSource'
      <3>1. ASSUME NEW j \in Id PROVE source[j].ver <= ver'[j]
        <4>1. source[j].ver \in Nat /\ ver[j] \in Nat /\ ver'[j] \in Nat
          BY <1>1 DEF TypeInv, HostInv, IndexInv, Rev
        <4>2. source[j].ver <= ver[j] /\ ver[j] <= ver'[j]
          BY <1>1, <1>6 DEF AllDated, DatedSource
        <4> QED
          BY <4>1, <4>2
      <3> QED
        BY <1>1, <1>5, <3>1 DEF AllDated, DatedSource, index
    <2> QED
      BY <2>1, <2>2, <2>3 DEF AllDated
  <1>8. ASSUME Calm' PROVE Promise'
    <2>1. Calm /\ Promise
      BY <1>1, <1>4, <1>5, <1>8, CalmBefore DEF Hears, Agrees
    <2>2. ASSUME NEW o \in DOMAIN history PROVE Kept(o)'
      <3>1. CASE history[o] # i
        <4>1. Excused(o) => Excused(o)'
          BY <1>2, <1>5, <3>1 DEF Excused
        <4>2. ver'[history[o]] = ver[history[o]]
          BY <1>1, <1>6, <3>1, Ranges
        <4> QED
          BY <1>1, <1>4, <1>5, <2>1, <4>1, <4>2, HostKeeps DEF Promise
      <3>2. CASE history[o] = i
        <4>1. Awaited(o)'
          BY <1>1, <1>4, <1>5, <3>2, MovedTo DEF Awaited
        <4>2. ~Known(o)'
          <5>1. o \in DOMAIN history' /\ o # 0 /\ history'[o] = i
            BY <1>1, <1>5, <3>2, Ranges DEF Ordinal
          <5> QED
            BY <1>1, <1>3, <1>4, <1>5, <1>6, <5>1, NextIsUnknown
        <4> QED
          BY <4>1, <4>2 DEF Kept
      <3> QED
        BY <3>1, <3>2
    <2>3. (\A q \in Proc : UpToDate(proc[q]))' /\ IndexPlaced' /\ OneWriter'
      BY <1>1, <1>4, <1>5, <2>1, ReadsStay
    <2> QED
      BY <1>5, <2>2, <2>3 DEF Promise
  <1> QED
    BY <1>7, <1>8

LEMMA RemoveAtPlaces ==
  ASSUME NEW S, NEW s \in Seq(S), NEW o \in DOMAIN s, NEW k \in DOMAIN RemoveAt(s, o)
  PROVE  LET j == IF k < o THEN k ELSE k + 1 IN j \in DOMAIN s /\ RemoveAt(s, o)[k] = s[j]
  <1>1. o \in 1..Len(s) /\ Len(s) \in Nat
    OBVIOUS
  <1> DEFINE a == SubSeq(s, 1, o - 1)
             b == SubSeq(s, o + 1, Len(s))
  <1>2. a \in Seq(S) /\ Len(a) = o - 1 /\ \A x \in 1..o - 1 : a[x] = s[x]
    BY <1>1
  <1>3. b \in Seq(S) /\ Len(b) = Len(s) - o /\ \A x \in 1..Len(s) - o : b[x] = s[o + x]
    BY <1>1
  <1>4. RemoveAt(s, o) = a \o b
    BY DEF RemoveAt
  <1> HIDE DEF a, b
  <1>5. /\ Len(a \o b) = Len(a) + Len(b) /\ a \o b \in Seq(S)
        /\ \A x \in 1..Len(a) + Len(b) : (a \o b)[x] = IF x <= Len(a) THEN a[x] ELSE b[x - Len(a)]
    BY <1>2, <1>3, ConcatProperties
  <1>6. k \in 1..Len(s) - 1
    BY <1>1, <1>2, <1>3, <1>4, <1>5
  <1>7. CASE k < o
    <2>1. k \in 1..Len(a) + Len(b) /\ k <= Len(a) /\ k \in 1..o - 1 /\ k \in 1..Len(s)
      BY <1>1, <1>2, <1>3, <1>6, <1>7
    <2>2. (a \o b)[k] = a[k] /\ a[k] = s[k]
      BY <1>2, <1>5, <2>1
    <2> QED
      BY <1>4, <1>7, <2>1, <2>2
  <1>8. CASE ~(k < o)
    <2> DEFINE x == k - (o - 1)
    <2>1. x \in 1..Len(s) - o /\ o + x = k + 1
      BY <1>1, <1>6, <1>8
    <2>2. (a \o b)[k] = b[x]
      <3>1. Len(a) = o - 1 /\ Len(b) = Len(s) - o
        BY <1>2, <1>3
      <3>2. k \in 1..(o - 1) + (Len(s) - o) /\ ~(k <= o - 1)
        BY <1>1, <1>6, <1>8
      <3>3. (a \o b)[k] = IF k <= o - 1 THEN a[k] ELSE b[k - (o - 1)]
        BY <1>5, <3>1, <3>2
      <3> QED
        BY <3>2, <3>3
    <2>3. b[x] = s[o + x]
      BY <1>3, <2>1
    <2>4. RemoveAt(s, o)[k] = s[k + 1]
      BY <1>4, <2>1, <2>2, <2>3
    <2> QED
      BY <1>1, <1>6, <1>8, <2>4
  <1> QED
    BY <1>7, <1>8

LEMMA RemoveMessageAgrees ==
  ASSUME Agrees, Inv', NEW p \in Proc, RemoveMessage(p) PROVE AllDated' /\ (Calm => Promise)'
  <1> DEFINE R == [proc[p] EXCEPT !.reconciled = FALSE, !.scheduled = FALSE, !.done = {},
                                  !.later = Append(@, "clear")]
             P == Scheduled(R)
  <1>1. TypeInv /\ TypeInv' /\ AllDated /\ Sound(proc[p]) /\ ~Working(proc[p])
    BY ProcSound, UsedIsFree DEF Agrees, Inv, RemoveMessage
  <1>2. proc[p].pc \in {"idle", "yield"} /\ Moved(p, P)
    BY DEF RemoveMessage, Used, Free
  <1>3. PICK o \in DOMAIN history : history' = RemoveAt(history, o)
    BY DEF RemoveMessage
  <1>4. UNCHANGED <<ver, coming, source>>
    BY DEF RemoveMessage, index
  <1>5. /\ R.pc = proc[p].pc /\ R.queue = proc[p].queue /\ R.done = {} /\ ~R.reconciled
        /\ R.later = Append(proc[p].later, "clear") /\ ~R.scheduled
    BY <1>1 DEF Sound, Process
  <1>6. /\ P.pc = proc[p].pc /\ P.queue = proc[p].queue /\ P.done = {} /\ ~P.reconciled
        /\ P.later = Append(R.later, "reconcile")
    <2>1. P = [R EXCEPT !.scheduled = TRUE, !.later = Append(@, "reconcile")]
      BY <1>5 DEF Scheduled
    <2> QED
      BY <1>1, <1>5, <2>1 DEF Sound, Process
  <1> HIDE DEF R, P
  <1>7. Clearing(P)
    <2>1. proc[p].later \in Seq(Later) /\ "clear" \in Later /\ "reconcile" \in Later
      BY <1>1 DEF Sound, Process, Later
    <2>2. R.later \in Seq(Later) /\ \E k \in DOMAIN R.later : R.later[k] = "clear"
      BY <1>5, <2>1, AppendKeeps
    <2>3. \E k \in DOMAIN P.later : P.later[k] = "clear"
      BY <1>6, <2>1, <2>2, AppendKeeps
    <2> QED
      BY <2>3 DEF Clearing
  <1>8. proc'[p] = P /\ \A q \in Proc : q # p => proc'[q] = proc[q]
    BY <1>1, <1>2, MovedTo
  <1>9. ~Calm'
    BY <1>7, <1>8 DEF Calm
  <1>10. AllDated'
    <2>1. DatedHost'
      <3> DEFINE from(k) == IF k < o THEN k ELSE k + 1
      <3>1. \A k \in DOMAIN history' : from(k) \in DOMAIN history /\ history'[k] = history[from(k)]
        BY <1>1, <1>3, RemoveAtPlaces DEF TypeInv, HostInv
      <3>2. \A k \in DOMAIN history' : history'[k] < coming'
        BY <1>1, <1>4, <3>1 DEF AllDated, DatedHost
      <3>3. ASSUME NEW a \in DOMAIN history', NEW b \in DOMAIN history', history'[a] = history'[b]
            PROVE  a = b
        <4>1. from(a) = from(b)
          BY <1>1, <3>1, <3>3 DEF AllDated, DatedHost
        <4>2. a \in Nat /\ b \in Nat /\ o \in Nat
          BY <1>1, <1>3 DEF TypeInv, HostInv
        <4> QED
          BY <4>1, <4>2
      <3> QED
        BY <3>2, <3>3 DEF DatedHost
    <2>2. DatedSource'
      BY <1>1, <1>4 DEF AllDated, DatedSource
    <2>3. \A q \in Proc : Dated(proc'[q], ver, coming)
      <3>1. Dated(P, ver, coming)
        BY <1>1, <1>2, <1>6 DEF AllDated, Dated, Working, Paging
      <3> QED
        BY <1>1, <1>8, <3>1 DEF AllDated
    <2> QED
      BY <1>4, <2>1, <2>2, <2>3 DEF AllDated
  <1> QED
    BY <1>9, <1>10

-----------------------------------------------------------------------------
(* What changes the index: with nothing overlapping, by one process alone. *)

LEMMA Alone ==
  ASSUME NEW p \in Proc, Overlaps(p), ~broken'
  PROVE  ~broken /\ \A q \in Proc : q # p => proc[q].pc = "idle"
  BY DEF Overlaps, Others, At

LEMMA IdleIsUpToDate == ASSUME NEW P, P.pc = "idle" PROVE UpToDate(P) /\ \A o : Holds(P, o)
  BY DEF UpToDate, Working, Holds

\* An idle process owes whatever the floor is.
LEMMA IdleOwes ==
  ASSUME NEW P, P.pc = "idle", NEW o, NEW d, Owes(P, o, d), NEW e
  PROVE  Owes(P, o, e)
  BY DEF Owes, Paging

\* The process goes from one statement of its operation on a message to the next.
LEMMA WorkGoesOn ==
  ASSUME TypeInv, NEW p \in Proc, proc[p].pc \in {"mark", "write"}, NEW pc \in {"write", "after"},
         NEW P, P = [proc[p] EXCEPT !.pc = pc], Moved(p, P)
  PROVE  /\ P.pc = pc /\ P.it = proc[p].it /\ P.queue = proc[p].queue /\ P.timers = proc[p].timers
         /\ P.later = proc[p].later /\ P.done = proc[p].done /\ P.reconciled = proc[p].reconciled
         /\ Working(proc[p]) /\ Working(P) /\ (Clearing(proc[p]) <=> Clearing(P))
         /\ \A V, n : Dated(proc[p], V, n) => Dated(P, V, n)
         /\ \A i, V : Awaits(proc[p], i, V) =>
              Awaits(P, i, V) \/ (pc = "after" /\ i = proc[p].it.id /\ proc[p].it.ver = V[i])
  <1>1. Sound(proc[p])
    BY ProcSound
  <1>2. /\ P.pc = pc /\ P.it = proc[p].it /\ P.queue = proc[p].queue /\ P.timers = proc[p].timers
        /\ P.later = proc[p].later /\ P.done = proc[p].done /\ P.reconciled = proc[p].reconciled
    BY <1>1 DEF Sound, Process
  <1>3. Working(proc[p]) /\ Working(P) /\ ~Paging(proc[p]) /\ ~Paging(P) /\ P.pc # "page"
    BY <1>2 DEF Working, Paging
  <1>4. \A V, n : Dated(proc[p], V, n) => Dated(P, V, n)
    BY <1>2, <1>3 DEF Dated
  <1>5. Clearing(proc[p]) <=> Clearing(P)
    BY <1>2 DEF Clearing
  <1>6. \A i, V : Awaits(proc[p], i, V) =>
          Awaits(P, i, V) \/ (pc = "after" /\ i = proc[p].it.id /\ proc[p].it.ver = V[i])
    BY <1>2, <1>3 DEF Awaits
  <1> QED
    BY <1>2, <1>3, <1>4, <1>5, <1>6

LEMMA MarkAgrees == ASSUME Agrees, NEW p \in Proc, Mark(p) PROVE AllDated' /\ (Calm => Promise)'
  <1> DEFINE m == proc[p].it
             P == [proc[p] EXCEPT !.pc = "write"]
  <1>1. TypeInv /\ AllDated /\ proc[p].pc = "mark" /\ Moved(p, P) /\ Overlaps(p)
    BY DEF Agrees, Inv, Mark, At
  <1>2. /\ P.pc = "write" /\ P.it = m /\ P.done = proc[p].done /\ Working(proc[p]) /\ Working(P)
        /\ (Clearing(proc[p]) <=> Clearing(P))
        /\ \A V, n : Dated(proc[p], V, n) => Dated(P, V, n)
        /\ \A i, V : Awaits(proc[p], i, V) => Awaits(P, i, V)
    BY <1>1, WorkGoesOn
  <1>3. proc'[p] = P /\ \A q \in Proc : q # p => proc'[q] = proc[q]
    BY <1>1, MovedTo
  <1> HIDE DEF P
  <1>4. /\ history' = history /\ ver' = ver /\ coming' = coming /\ open' = open
        /\ source' = source /\ doc' = doc /\ lost' = lost
        /\ dirty' = Lower(dirty, Least(m.ord, m.mark + 1)) /\ water' = Greatest(water, m.mark)
    BY DEF Mark, host
  <1>5. AllDated'
    <2>1. \A q \in Proc : Dated(proc'[q], ver, coming)
      BY <1>1, <1>2, <1>3 DEF AllDated
    <2> QED
      BY <1>1, <1>4, <2>1 DEF AllDated, DatedHost, DatedSource
  <1>6. ASSUME Calm' PROVE Promise'
    <2>1. Calm /\ ~broken' /\ Promise
      BY <1>1, <1>2, <1>6, CalmBefore DEF Agrees, Overlaps
    <2>2. \A q \in Proc : q # p => proc[q].pc = "idle" /\ proc'[q].pc = "idle"
      BY <1>1, <1>3, <2>1, Alone
    <2>3. /\ m.ord \in DOMAIN history /\ history[m.ord] = m.id /\ m.mark = water /\ m.floor = dirty
      BY <1>1, <1>2, <2>1 DEF Promise, UpToDate
    <2>4. m.ord \in Nat /\ m.ord > 0 /\ water \in Nat /\ dirty \in Nat
      BY <1>1, <1>2, WorkPlace
    <2>5. /\ water' = water /\ dirty' \in Nat /\ dirty' = Lower(m.floor, Least(m.ord, water + 1))
          /\ dirty # 0 => dirty' # 0 /\ dirty' <= dirty
      BY <1>4, <2>3, <2>4 DEF Lower, Least, Greatest
    <2>6. ASSUME NEW o \in DOMAIN history PROVE Kept(o)'
      <3>1. Good(o)' = Good(o) /\ Newest(o)' = Newest(o) /\ Excused(o)' = Excused(o)
        BY <1>4 DEF Good, Newest, Excused
      <3>2. Behind(o) => Behind(o)'
        <4>1. CASE o > water
          BY <2>5, <4>1 DEF Behind
        <4>2. CASE dirty # 0 /\ dirty <= o
          <5>1. dirty' # 0 /\ dirty' <= o
            <6>1. o \in Nat
              BY <1>1, Ranges, ConstantsSound
            <6> QED
              BY <2>4, <2>5, <4>2, <6>1
          <5>2. \A q \in Proc : Holds(proc'[q], o)
            BY <1>2, <1>3, <2>2, <2>3, <4>2 DEF Holds
          <5> QED
            BY <5>1, <5>2 DEF Behind
        <4> QED
          BY <4>1, <4>2 DEF Behind
      <3>3. ASSUME NEW q \in Proc, Owes(proc[q], o, dirty) PROVE Owes(proc'[q], o, dirty')
        <4>1. CASE q = p
          BY <1>1, <1>2, <1>3, <3>3, <4>1 DEF Owes, Paging
        <4>2. CASE q # p
          BY <1>3, <2>2, <3>3, <4>2, IdleOwes
        <4> QED
          BY <4>1, <4>2
      <3>4. Safe(o) => Safe(o)'
        BY <3>1, <3>2, <3>3 DEF Safe, Owed
      <3>5. Known(o)' => Known(o)
        <4>1. \A q \in Proc : Knows(proc'[q], Newest(o)) => Knows(proc[q], Newest(o))
          BY <1>2, <1>3 DEF Knows
        <4> QED
          BY <1>4, <3>1, <4>1 DEF Known
      <3>6. Awaited(o) => Awaited(o)'
        BY <1>2, <1>3, <1>4 DEF Awaited
      <3> QED
        BY <2>1, <3>4, <3>5, <3>6 DEF Promise, Kept
    <2>7. ASSUME NEW q \in Proc PROVE UpToDate(proc[q])'
      <3>1. CASE q = p
        BY <1>2, <1>3, <1>4, <2>3, <2>5, <3>1 DEF UpToDate, Working
      <3>2. CASE q # p
        <4>1. proc'[q].pc = "idle"
          BY <2>2, <3>2
        <4> QED
          BY <4>1 DEF UpToDate, Working
      <3> QED
        BY <3>1, <3>2
    <2>8. IndexPlaced'
      BY <1>4, <2>1 DEF Promise, IndexPlaced
    <2>9. OneWriter'
      BY <2>2 DEF OneWriter, At
    <2> QED
      BY <1>4, <2>6, <2>7, <2>8, <2>9 DEF Promise
  <1> QED
    BY <1>5, <1>6

\* What is taken for indexed is right, or noted as missed.
LEMMA MissedOrGood ==
  ASSUME DatedHost, NEW ids, Missed(ids), UNCHANGED <<history, ver>>,
         NEW o \in DOMAIN history, history[o] \in lost \cup ids
  PROVE  history[o] \in lost' \/ Good(o)'
  <1>1. CASE Right(doc', history[o])
    <2>1. PICK k \in DOMAIN history : history[k] = history[o]
                                      /\ doc'[k] = [id |-> history[o], ver |-> ver[history[o]]]
      BY <1>1 DEF Right
    <2>2. k = o
      BY <2>1 DEF DatedHost
    <2> QED
      BY <2>1, <2>2 DEF Good
  <1>2. CASE ~Right(doc', history[o])
    BY <1>2 DEF Missed
  <1> QED
    BY <1>1, <1>2

LEMMA WrittenPlace ==
  ASSUME TypeInv, NEW m \in Local, m.ord \in Ordinal, source[m.id].ord \in {0, m.ord},
         IF Covered(m) THEN Replaced(m) ELSE Extended(m)
  PROVE  \A o \in Ordinal : o # m.ord => doc'[o] = doc[o]
  <1>1. doc \in [Ordinal -> Entry]
    BY DEF TypeInv, IndexInv
  <1>2. CASE Covered(m)
    <2> DEFINE old == source[m.id].ord
               d == IF old = 0 THEN doc ELSE [doc EXCEPT ![old] = None]
    <2>1. d \in [Ordinal -> Entry] /\ \A o \in Ordinal : o # m.ord => d[o] = doc[o]
      BY <1>1 DEF Entry
    <2>2. doc' = [d EXCEPT ![m.ord] = Document(m)]
      BY <1>2 DEF Replaced
    <2> HIDE DEF d
    <2> QED
      BY <2>1, <2>2
  <1>3. CASE ~Covered(m)
    BY <1>1, <1>3 DEF Extended
  <1> QED
    BY <1>2, <1>3

LEMMA WriteAgrees == ASSUME Agrees, Inv', NEW p \in Proc, Write(p) PROVE AllDated' /\ (Calm => Promise)'
  <1> DEFINE m == proc[p].it
             P == [proc[p] EXCEPT !.pc = "after"]
             writes == (Covered(m) /\ ~SourceIs(m)) \/ Extends(m)
  <1>1. TypeInv /\ AllDated /\ proc[p].pc = "write" /\ Moved(p, P) /\ Overlaps(p) /\ UNCHANGED host
    BY DEF Agrees, Inv, Write, At
  <1>2. /\ P.pc = "after" /\ P.it = m /\ P.done = proc[p].done /\ Working(proc[p]) /\ Working(P)
        /\ (Clearing(proc[p]) <=> Clearing(P))
        /\ \A V, n : Dated(proc[p], V, n) => Dated(P, V, n)
        /\ \A i, V : Awaits(proc[p], i, V) => Awaits(P, i, V) \/ (i = m.id /\ m.ver = V[i])
    BY <1>1, WorkGoesOn
  <1>3. proc'[p] = P /\ \A q \in Proc : q # p => proc'[q] = proc[q]
    BY <1>1, MovedTo
  <1> HIDE DEF P
  <1>4. /\ m \in Local /\ m.ord \in Ordinal /\ m.id \in Id /\ m.ord \in Nat /\ m.ord > 0
        /\ m.floor \in Nat /\ water \in Nat /\ dirty \in Nat
    BY <1>1, <1>2, WorkPlace
  <1>5. /\ Dated(proc[p], ver, coming) /\ Dated(P, ver, coming)
        /\ m.id < coming /\ m.ver <= ver[m.id]
    BY <1>1, <1>2 DEF AllDated, Dated
  <1>6. ASSUME NEW o \in DOMAIN history, Owes(proc[p], o, dirty) PROVE ~m.was
    BY <1>1, <1>6 DEF Owes, Paging
  <1>7. CASE ~writes
    <2>1. UNCHANGED <<index, lost>>
      BY <1>7 DEF Write
    <2>2. ASSUME Promise PROVE Faithful(proc[p], P)
      <3>1. /\ m.ord \in DOMAIN history /\ history[m.ord] = m.id
            /\ dirty = Lower(m.floor, Least(m.ord, water + 1))
        BY <1>1, <1>2, <2>2 DEF Promise, UpToDate
      <3>2. UpToDate(P)
        BY <1>2, <3>1 DEF UpToDate
      <3>3. ASSUME NEW o \in DOMAIN history
            PROVE  Holds(P, o) /\ (Owes(proc[p], o, dirty) => Owes(P, o, dirty))
        BY <1>2, <1>6 DEF Holds, Owes
      <3>4. ASSUME NEW o \in DOMAIN history, o # m.ord \/ m.ver # ver[m.id]
            PROVE  /\ Awaits(proc[p], history[o], ver) => Awaits(P, history[o], ver)
                   /\ Knows(P, Newest(o)) => Known(o)
        <4>1. ~(history[o] = m.id /\ m.ver = ver[history[o]])
          BY <1>1, <3>1, <3>4 DEF AllDated, DatedHost
        <4>2. Revision(m) # Newest(o)
          <5>1. CASE Revision(m) = Newest(o)
            <6>1. Revision(m).id = Newest(o).id /\ Revision(m).ver = Newest(o).ver
              BY <5>1
            <6> QED
              BY <4>1, <6>1 DEF Revision, Newest
          <5> QED
            BY <5>1
        <4>3. Awaits(proc[p], history[o], ver) => Awaits(P, history[o], ver)
          BY <1>2, <4>1
        <4>4. Knows(P, Newest(o)) => Known(o)
          BY <1>2, <4>2 DEF Knows, Known
        <4> QED
          BY <4>3, <4>4
      <3>5. ASSUME NEW o \in DOMAIN history, o = m.ord, m.ver = ver[m.id]
            PROVE  Known(o) \/ (Behind(o)' /\ Owes(P, o, dirty))
        <4>1. CASE Covered(m)
          BY <1>7, <3>1, <3>5, <4>1 DEF Known, SourceIs
        <4>2. CASE ~Covered(m)
          <5>1. o > water /\ dirty # 0
            BY <1>4, <3>1, <3>5, <4>2 DEF Covered, Lower, Least
          <5>2. Behind(o)'
            BY <2>1, <5>1 DEF Behind, index
          <5> QED
            BY <1>2, <5>1, <5>2 DEF Owes
        <4> QED
          BY <4>1, <4>2
      <3> QED
        BY <1>2, <3>2, <3>3, <3>4, <3>5 DEF Faithful
    <2> QED
      BY <1>1, <1>2, <1>5, <2>1, <2>2, QuietAgrees DEF Overlaps
  <1>8. CASE writes
    <2>1. /\ IF Covered(m) THEN Replaced(m) ELSE Extended(m)
          /\ source' = [source EXCEPT ![m.id] = [ord |-> m.ord, ver |-> m.ver]]
          /\ water' = Greatest(water, m.ord)
          /\ dirty' = IF m.floor = m.ord THEN 0 ELSE m.floor
          /\ Missed({m.id} \cup LeftBehind(m))
      BY <1>8 DEF Write
    <2>2. history' = history /\ ver' = ver /\ coming' = coming /\ open' = open
      BY <1>1 DEF host
    <2>3. m.ver \in Rev /\ source \in [Id -> [ord : Place, ver : Rev]]
      BY <1>1, <1>4 DEF Local, TypeInv, IndexInv
    <2>4. AllDated'
      <3>1. \A q \in Proc : Dated(proc'[q], ver, coming)
        BY <1>1, <1>3, <1>5 DEF AllDated
      <3>2. DatedSource'
        BY <1>1, <1>4, <1>5, <2>1, <2>2, <2>3 DEF AllDated, DatedSource
      <3> QED
        BY <1>1, <2>2, <3>1, <3>2 DEF AllDated, DatedHost
    <2>5. ASSUME Calm' PROVE Promise'
      <3>1. Calm /\ ~broken' /\ Promise
        BY <1>1, <1>2, <2>5, CalmBefore DEF Agrees, Overlaps
      <3>2. \A q \in Proc : q # p => proc[q].pc = "idle" /\ proc'[q].pc = "idle"
        BY <1>1, <1>3, <3>1, Alone
      <3>3. /\ m.ord \in DOMAIN history /\ history[m.ord] = m.id
            /\ source[m.id].ord \in {0, m.ord}
        <4>1. m.ord \in DOMAIN history /\ history[m.ord] = m.id
          BY <1>1, <1>2, <3>1 DEF Promise, UpToDate
        <4> QED
          BY <1>1, <1>4, <3>1, <4>1 DEF Promise, IndexPlaced, AllDated, DatedHost
      <3>4. \A o \in Ordinal : o # m.ord => doc'[o] = doc[o]
        BY <1>1, <1>4, <2>1, <3>3, WrittenPlace
      <3>5. \A o \in DOMAIN history : history[o] \in lost \cup {m.id} \cup LeftBehind(m) =>
              history[o] \in lost' \/ Good(o)'
        BY <1>1, <2>1, <2>2, MissedOrGood DEF AllDated
      <3>6. ASSUME NEW o \in DOMAIN history, o # m.ord PROVE Kept(o)'
        <4>1. history[o] # m.id /\ o \in Ordinal /\ o \in Nat
          BY <1>1, <3>3, <3>6, Ranges, ConstantsSound DEF AllDated, DatedHost
        <4>2. Good(o) => Good(o)'
          BY <2>2, <3>4, <3>6, <4>1 DEF Good
        <4>3. Excused(o) => Good(o)' \/ Excused(o)'
          BY <2>2, <3>5 DEF Excused
        <4>4. Owed(o) => Owed(o)'
          <5>1. ASSUME NEW q \in Proc, Owes(proc[q], o, dirty) PROVE Owes(proc'[q], o, dirty')
            <6>1. CASE q = p
              BY <1>2, <1>3, <1>6, <5>1, <6>1 DEF Owes
            <6>2. CASE q # p
              BY <1>3, <3>2, <5>1, <6>2, IdleOwes
            <6> QED
              BY <6>1, <6>2
          <5> QED
            BY <5>1 DEF Owed
        <4>5. \A q \in Proc : Holds(proc'[q], o)
          BY <1>2, <1>3, <3>2 DEF Holds
        <4>6. Behind(o) => Behind(o)' \/ history[o] \in LeftBehind(m)
          <5>1. CASE o > water
            <6>1. o > water'
              BY <1>4, <1>8, <2>1, <3>6, <4>1, <5>1 DEF Greatest, Covered, Extends
            <6> QED
              BY <6>1 DEF Behind
          <5>2. CASE ~(o > water) /\ m.floor # 0 /\ m.floor <= o
            <6>1. CASE m.floor = m.ord
              <7>1. Len(history) \in Nat /\ o <= Len(history)
                BY <1>1 DEF TypeInv, HostInv
              <7>2. o \in m.ord..Least(water, Len(history))
                BY <1>4, <4>1, <5>2, <6>1, <7>1 DEF Least
              <7> QED
                BY <6>1, <7>2 DEF LeftBehind
            <6>2. CASE m.floor # m.ord
              BY <2>1, <4>5, <5>2, <6>2 DEF Behind
            <6> QED
              BY <6>1, <6>2
          <5>3. Behind(o) => o > water \/ (m.floor # 0 /\ m.floor <= o)
            BY <1>1 DEF Behind, Holds
          <5> QED
            BY <5>1, <5>2, <5>3
        <4>7. Safe(o) => Safe(o)'
          <5>1. history[o] \in LeftBehind(m) => Good(o)' \/ Excused(o)'
            BY <2>2, <3>5 DEF Excused
          <5> QED
            BY <4>2, <4>3, <4>4, <4>6, <5>1 DEF Safe
        <4>8. Known(o)' => Known(o)
          <5>1. source'[history[o]] = source[history[o]]
            BY <2>1, <2>3, <4>1, <1>1, Ranges
          <5>2. Newest(o)' = Newest(o) /\ Newest(o) # Revision(m)
            BY <2>2, <4>1 DEF Newest, Revision
          <5>3. \A q \in Proc : Knows(proc'[q], Newest(o)) => Knows(proc[q], Newest(o))
            BY <1>2, <1>3, <5>2 DEF Knows
          <5> QED
            BY <2>2, <5>1, <5>2, <5>3 DEF Known
        <4>9. Awaited(o) => Awaited(o)'
          <5>1. \A q \in Proc : Awaits(proc[q], history[o], ver) => Awaits(proc'[q], history[o], ver)
            BY <1>2, <1>3, <4>1
          <5> QED
            BY <2>2, <5>1 DEF Awaited
        <4> QED
          BY <3>1, <4>7, <4>8, <4>9 DEF Promise, Kept
      <3>7. \A o \in DOMAIN history' : Kept(o)'
        <4>1. ASSUME NEW o \in DOMAIN history, o = m.ord PROVE Kept(o)'
          BY <2>2, <3>3, <3>5, <4>1 DEF Kept, Safe, Excused
        <4> QED
          BY <2>2, <3>6, <4>1
      <3>8. \A q \in Proc : UpToDate(proc[q])'
        <4>1. ASSUME NEW q \in Proc, q = p PROVE UpToDate(proc[q])'
          BY <1>2, <1>3, <2>2, <3>3, <4>1 DEF UpToDate
        <4>2. ASSUME NEW q \in Proc, q # p PROVE UpToDate(proc[q])'
          BY <3>2, <4>2 DEF UpToDate, Working
        <4> QED
          BY <4>1, <4>2
      <3>9. IndexPlaced'
        <4>1. \A i \in Id : source'[i].ord = 0 \/ (source'[i].ord \in DOMAIN history
                                                  /\ history[source'[i].ord] = i)
          BY <2>1, <2>3, <3>1, <3>3 DEF Promise, IndexPlaced
        <4>2. m.ord <= Len(history)
          BY <1>1, <3>3 DEF TypeInv, HostInv
        <4>3. \A o \in Ordinal : doc'[o] = None \/ o <= Len(history)
          BY <3>1, <3>4, <4>2 DEF Promise, IndexPlaced
        <4> QED
          BY <2>2, <4>1, <4>3 DEF IndexPlaced
      <3>10. OneWriter'
        BY <1>2, <1>3, <3>2 DEF OneWriter, At
      <3> QED
        BY <3>7, <3>8, <3>9, <3>10 DEF Promise
    <2> QED
      BY <2>4, <2>5
  <1> QED
    BY <1>7, <1>8

LEMMA WritePageAgrees ==
  ASSUME Agrees, Inv', NEW p \in Proc, WritePage(p) PROVE AllDated' /\ (Calm => Promise)'
  <1> DEFINE m == proc[p].it
             end == PageEnd(m)
             cut == IF dirty = 0 THEN {} ELSE dirty..end
             d == [o \in Ordinal |-> IF o \in cut THEN None ELSE doc[o]]
             P == [proc[p] EXCEPT !.pc = "next", !.it.page = NoPage]
             new(c) == StartOrdinal + 1..c
             ids(c) == {m.page[o].id : o \in new(c)}
             placed(c, i) == CHOOSE o \in new(c) : m.page[o].id = i
  <1>1. TypeInv /\ AllDated /\ Sound(proc[p]) /\ proc[p].queue # <<>> /\ proc[p].pc = "page"
    BY WorkHasQueue DEF Agrees, Inv, WritePage, At
  <1>2. PICK c \in Place :
          /\ CoversTo(m, c)
          /\ doc' = [o \in Ordinal |-> IF o \in new(c) /\ d[o] = None THEN m.page[o] ELSE d[o]]
          /\ source' = [i \in Id |->
                          IF \E o \in new(c) : m.page[o].id = i
                          THEN [ord |-> placed(c, i), ver |-> m.page[placed(c, i)].ver]
                          ELSE IF source[i].ord \in cut THEN NoSource ELSE source[i]]
          /\ water' = c
          /\ Missed(ids(c))
    BY DEF WritePage, Place
  <1>3. Moved(p, P) /\ Overlaps(p) /\ UNCHANGED <<host, stray, faults>>
    BY DEF WritePage
  <1>4. /\ P.pc = "next" /\ P.queue = proc[p].queue /\ P.timers = proc[p].timers
        /\ P.later = proc[p].later /\ P.done = proc[p].done /\ P.reconciled = proc[p].reconciled
        /\ P.it.final = m.final
    BY <1>1 DEF Sound, Process, Local
  <1>5. m \in Local /\ doc \in [Ordinal -> Entry] /\ source \in [Id -> [ord : Place, ver : Rev]]
        /\ dirty \in Nat /\ water \in Nat /\ StartOrdinal \in Nat /\ c \in Nat /\ m.final \in Nat
    <2>1. m \in Local /\ m.final \in Place
      BY <1>1 DEF Sound, Process, Local
    <2>2. doc \in [Ordinal -> Entry] /\ source \in [Id -> [ord : Place, ver : Rev]]
          /\ dirty \in Place /\ water \in Place /\ StartOrdinal \in Place
      BY <1>1, Ranges DEF TypeInv, IndexInv
    <2> QED
      <3>1. c \in Place /\ Place \subseteq Nat
        BY ConstantsSound DEF Place
      <3> QED
        BY <2>1, <2>2, <3>1
  <1>6. /\ \A o \in new(c) : o \in Ordinal /\ m.page[o] \in [id : Id, ver : Rev] /\ m.page[o] # None
        /\ end \in Nat /\ end <= m.final /\ c >= StartOrdinal
    <2>1. end <= m.final
      BY <1>5, BoundAssumption DEF PageEnd, Least, Local, Place
    <2>2. CoversTo(m, c) /\ c \in Place
      BY <1>2
    <2> HIDE DEF m, end
    <2>3. c \in StartOrdinal..Greatest(StartOrdinal, PageEnd(m))
          /\ \A o \in StartOrdinal + 1..c : m.page[o] # None
      BY <2>2 DEF CoversTo
    <2>4. c >= StartOrdinal
      BY <1>5, <2>3
    <2> QED
      BY <1>1, <1>5, <2>1, <2>2, <2>3, <2>4, CoveredIsPlaced DEF end
  <1>7. ASSUME NEW i \in Id, \E o \in new(c) : m.page[o].id = i
        PROVE  placed(c, i) \in new(c) /\ m.page[placed(c, i)].id = i
    BY <1>7
  <1>8. \A o \in Ordinal : (o \in cut => d[o] = None) /\ (o \notin cut => d[o] = doc[o])
    OBVIOUS
  <1>9. /\ \A o \in cut : dirty # 0 /\ dirty <= o /\ o <= m.final
        /\ \A o \in Nat : o <= StartOrdinal => o \notin cut /\ o <= water /\ (dirty # 0 => ~(dirty <= o))
    BY <1>5, <1>6 DEF StartOrdinal, Least
  <1>10. proc'[p] = P /\ \A q \in Proc : q # p => proc'[q] = proc[q]
    BY <1>1, <1>3, MovedTo
  <1>11. history' = history /\ ver' = ver /\ coming' = coming /\ open' = open
    BY <1>3 DEF host
  <1> HIDE DEF m, end, cut, d, P, new, placed
  <1>12. ASSUME NEW i \in Id
         PROVE  \/ \E o \in new(c) : m.page[o].id = i /\ source'[i] = [ord |-> o, ver |-> m.page[o].ver]
                \/ (~ \E o \in new(c) : m.page[o].id = i) /\ source'[i] \in {NoSource, source[i]}
    <2>1. CASE \E o \in new(c) : m.page[o].id = i
      BY <1>2, <1>7, <2>1
    <2>2. CASE ~ \E o \in new(c) : m.page[o].id = i
      BY <1>2, <2>2
    <2> QED
      BY <2>1, <2>2
  <1>13. Dated(proc[p], ver, coming) /\ Paging(proc[p]) /\ ~Working(proc[p]) /\ Paging(P) /\ ~Working(P)
    BY <1>1, <1>4 DEF AllDated, Paging, Working
  <1>14. Clearing(proc[p]) <=> Clearing(P)
    BY <1>4 DEF Clearing
  <1>15. AllDated'
    <2>1. \A q \in Proc : Dated(proc'[q], ver, coming)
      <3>1. Dated(P, ver, coming)
        BY <1>4, <1>13 DEF Dated
      <3> QED
        BY <1>1, <1>10, <3>1 DEF AllDated
    <2>2. ASSUME NEW i \in Id PROVE source'[i].ver <= ver[i] /\ (source'[i].ord # 0 => i < coming)
      <3>1. CASE \E o \in new(c) : m.page[o].id = i /\ source'[i] = [ord |-> o, ver |-> m.page[o].ver]
        <4>1. PICK o \in new(c) : m.page[o].id = i /\ source'[i] = [ord |-> o, ver |-> m.page[o].ver]
          BY <3>1
        <4>2. m.page[o].id < coming /\ m.page[o].ver <= ver[m.page[o].id]
          BY <1>1, <1>6, <1>13 DEF Dated, m
        <4> QED
          BY <4>1, <4>2
      <3>2. CASE source'[i] = NoSource
        BY <1>1, <3>2 DEF NoSource, TypeInv, HostInv, Rev
      <3>3. CASE source'[i] = source[i]
        BY <1>1, <3>3 DEF AllDated, DatedSource
      <3> QED
        BY <1>12, <3>1, <3>2, <3>3
    <2> QED
      BY <1>1, <1>11, <2>1, <2>2 DEF AllDated, DatedHost, DatedSource
  <1>16. ASSUME Calm' PROVE Promise'
    <2>1. Calm /\ ~broken' /\ Promise
      BY <1>1, <1>3, <1>14, <1>16, CalmBefore DEF Agrees, Overlaps
    <2>2. \A q \in Proc : q # p => proc[q].pc = "idle" /\ proc'[q].pc = "idle"
      BY <1>3, <1>10, <2>1, Alone
    <2>3. \A o \in new(c) : o \in DOMAIN history /\ history[o] = m.page[o].id
      BY <1>1, <1>6, <2>1 DEF Promise, UpToDate, m
    <2>4. \A o \in DOMAIN history : history[o] \in lost \cup ids(c) => history[o] \in lost' \/ Good(o)'
      BY <1>1, <1>2, <1>11, MissedOrGood DEF AllDated
    <2>5. ASSUME NEW o \in DOMAIN history, o \in new(c) PROVE Kept(o)'
      <3>1. history[o] \in ids(c)
        BY <2>3, <2>5
      <3> QED
        BY <1>11, <2>4, <3>1 DEF Kept, Safe, Excused
    <2>6. ASSUME NEW o \in DOMAIN history, o \notin new(c) PROVE Kept(o)'
      <3>1. o \in Ordinal /\ o \in Nat /\ doc'[o] = d[o]
        BY <1>1, <1>2, <2>6, Ranges, ConstantsSound
      <3>2. Excused(o) => Good(o)' \/ Excused(o)'
        BY <1>11, <2>4 DEF Excused
      <3>3. Good(o) /\ o \notin cut => Good(o)'
        BY <1>8, <1>11, <3>1 DEF Good
      <3>4. Owed(o) => Owed(o)'
        <4>1. ASSUME NEW q \in Proc, Owes(proc[q], o, dirty) PROVE Owes(proc'[q], o, dirty')
          <5>1. CASE q = p
            BY <1>1, <1>4, <1>10, <1>13, <4>1, <5>1 DEF Owes, m
          <5>2. CASE q # p
            BY <1>10, <2>2, <4>1, <5>2, IdleOwes
          <5> QED
            BY <5>1, <5>2
        <4> QED
          BY <4>1 DEF Owed
      <3>5. Known(o)' => Known(o)
        <4>1. ~ \E k \in new(c) : m.page[k].id = history[o]
          BY <1>1, <2>3, <2>6 DEF AllDated, DatedHost
        <4>2. source'[history[o]] \in {NoSource, source[history[o]]}
          BY <1>1, <1>12, <4>1, Ranges
        <4>3. o # 0
          BY <3>1 DEF Ordinal
        <4>4. source'[history[o]] = [ord |-> o, ver |-> ver[history[o]]]
              => source[history[o]] = [ord |-> o, ver |-> ver[history[o]]]
          BY <4>2, <4>3 DEF NoSource
        <4>5. \A q \in Proc : Knows(proc'[q], Newest(o)) => Knows(proc[q], Newest(o))
          BY <1>4, <1>10 DEF Knows
        <4>6. Newest(o)' = Newest(o)
          BY <1>11 DEF Newest
        <4> QED
          BY <1>11, <4>4, <4>5, <4>6 DEF Known
      <3>6. Awaited(o) => Awaited(o)'
        <4>1. Awaits(proc[p], history[o], ver) => Awaits(P, history[o], ver)
          BY <1>1, <1>4, <1>13 DEF Awaits
        <4>2. \A q \in Proc : Awaits(proc[q], history[o], ver) => Awaits(proc'[q], history[o], ver)
          BY <1>10, <4>1
        <4> QED
          BY <1>11, <4>2 DEF Awaited
      <3>7. Safe(o) => Safe(o)'
        <4>1. CASE o <= StartOrdinal
          <5>1. o \notin cut /\ ~Behind(o)
            BY <1>5, <1>9, <3>1, <4>1 DEF Behind
          <5> QED
            BY <3>2, <3>3, <5>1 DEF Safe
        <4>2. CASE ~(o <= StartOrdinal)
          <5>1. o > c
            BY <1>5, <2>6, <3>1, <4>2 DEF new
          <5>2. Behind(o)'
            BY <1>2, <5>1 DEF Behind
          <5>3. o \in cut => Owed(o)'
            BY <1>4, <1>9, <1>10, <1>13 DEF Owed, Owes
          <5> QED
            BY <3>2, <3>3, <3>4, <5>2, <5>3 DEF Safe
        <4> QED
          BY <4>1, <4>2
      <3> QED
        BY <2>1, <3>5, <3>6, <3>7 DEF Promise, Kept
    <2>7. ASSUME NEW q \in Proc PROVE UpToDate(proc[q])'
      <3>1. CASE q = p
        BY <1>4, <1>10, <1>13, <3>1 DEF UpToDate
      <3>2. CASE q # p
        BY <2>2, <3>2 DEF UpToDate, Working
      <3> QED
        BY <3>1, <3>2
    <2>8. IndexPlaced'
      <3>1. ASSUME NEW i \in Id
            PROVE  source'[i].ord = 0 \/ (source'[i].ord \in DOMAIN history /\ history[source'[i].ord] = i)
        <4>1. CASE \E o \in new(c) : m.page[o].id = i /\ source'[i] = [ord |-> o, ver |-> m.page[o].ver]
          BY <2>3, <4>1
        <4>2. CASE source'[i] \in {NoSource, source[i]}
          BY <2>1, <4>2 DEF Promise, IndexPlaced, NoSource
        <4> QED
          BY <1>12, <4>1, <4>2
      <3>2. ASSUME NEW o \in Ordinal, doc'[o] # None PROVE o <= Len(history)
        <4>1. CASE o \in new(c)
          BY <1>1, <2>3, <4>1 DEF TypeInv, HostInv
        <4>2. CASE o \notin new(c)
          BY <1>2, <1>8, <2>1, <3>2, <4>2 DEF Promise, IndexPlaced
        <4> QED
          BY <4>1, <4>2
      <3> QED
        BY <1>11, <3>1, <3>2 DEF IndexPlaced
    <2>9. OneWriter'
      BY <1>4, <1>10, <2>2 DEF OneWriter, At
    <2> QED
      BY <1>11, <2>5, <2>6, <2>7, <2>8, <2>9 DEF Promise
  <1> QED
    BY <1>15, <1>16

LEMMA ClearAgrees == ASSUME Agrees, Inv', NEW p \in Proc, Clear(p) PROVE AllDated' /\ (Calm => Promise)'
  <1> DEFINE U == [Unsettled(proc[p]) EXCEPT !.done = {}]
             P == [U EXCEPT !.queue = Append(@, Op("reindex", 0))]
  <1>1. TypeInv /\ TypeInv' /\ AllDated /\ Sound(proc[p]) /\ proc[p].queue # <<>> /\ Moved(p, P)
    BY ProcSound DEF Agrees, Inv, Clear, Is
  <1>2. /\ source' = [i \in Id |-> NoSource] /\ doc' = NoPage /\ water' = 0 /\ dirty' = 0
        /\ broken' = Others(p) /\ UNCHANGED <<history, ver, coming, open>>
    BY DEF Clear, host
  <1>3. P.pc = "idle" /\ P.done = {} /\ ~P.reconciled
    <2>1. Sound(Unsettled(proc[p])) /\ Unsettled(proc[p]).pc = "idle"
      BY <1>1, UnsettledSound
    <2>2. ~Unsettled(proc[p]).reconciled
      BY <1>1, EndedSound DEF Unsettled, Sound, Process
    <2>3. Sound(U) /\ U.pc = "idle" /\ ~U.reconciled /\ U.done = {}
      <3>1. Sound(U) /\ U.pc = "idle"
        BY <2>1, DoneSound
      <3> QED
        BY <2>1, <2>2, <3>1 DEF Sound, Process
    <2> HIDE DEF U
    <2> QED
      BY <2>3 DEF Sound, Process
  <1> HIDE DEF P
  <1>4. proc'[p] = P /\ \A q \in Proc : q # p => proc'[q] = proc[q]
    BY <1>1, MovedTo
  <1>5. AllDated'
    <2>1. \A q \in Proc : Dated(proc'[q], ver, coming)
      <3>1. Dated(P, ver, coming)
        BY <1>3 DEF Dated, Working, Paging
      <3> QED
        BY <1>1, <1>4, <3>1 DEF AllDated
    <2>2. DatedSource'
      BY <1>1, <1>2 DEF DatedSource, NoSource, TypeInv, HostInv, Rev
    <2> QED
      BY <1>1, <1>2, <2>1, <2>2 DEF AllDated, DatedHost
  <1>6. ASSUME Calm' PROVE Promise'
    <2>1. \A q \in Proc : proc'[q].pc = "idle"
      BY <1>2, <1>3, <1>4, <1>6 DEF Calm, Others, At
    <2>2. ASSUME NEW o \in DOMAIN history PROVE Kept(o)'
      <3>1. o > 0
        BY <1>1, Ranges DEF Ordinal
      <3>2. Behind(o)'
        BY <1>2, <3>1 DEF Behind
      <3>3. Owed(o)'
        BY <1>3, <1>4 DEF Owed, Owes
      <3> QED
        BY <3>2, <3>3 DEF Kept, Safe
    <2>3. (\A q \in Proc : UpToDate(proc[q]))'
      BY <2>1 DEF UpToDate, Working
    <2>4. IndexPlaced'
      BY <1>2 DEF IndexPlaced, NoSource, NoPage
    <2>5. OneWriter'
      BY <2>1 DEF OneWriter, At
    <2> QED
      BY <1>2, <2>2, <2>3, <2>4, <2>5 DEF Promise
  <1> QED
    BY <1>5, <1>6

-----------------------------------------------------------------------------
(* The index is what the host has. *)

LEMMA InitAgrees == Init => Agrees
  <1> SUFFICES ASSUME Init PROVE Agrees
    OBVIOUS
  <1>1. Inv
    BY InitInv
  <1>2. history = <<>> /\ proc = [p \in Proc |-> Fresh] /\ source = [i \in Id |-> NoSource] /\ doc = NoPage
        /\ ver = [i \in Id |-> 0]
    BY DEF Init
  <1>3. Fresh.pc = "idle" /\ Fresh.done = {}
    BY DEF Fresh
  <1>4. \A p \in Proc : proc[p].pc = "idle" /\ proc[p].done = {}
    BY <1>2, <1>3
  <1>5. AllDated
    BY <1>2, <1>4 DEF AllDated, DatedHost, DatedSource, NoSource, Dated, Working, Paging
  <1>6. Promise
    BY <1>2, <1>4 DEF Promise, UpToDate, Working, IndexPlaced, OneWriter, At, NoSource, NoPage
  <1> QED
    BY <1>1, <1>5, <1>6 DEF Agrees

LEMMA NextAgrees == Agrees /\ [Next]_vars => Agrees'
  <1> SUFFICES ASSUME Agrees, [Next]_vars PROVE Agrees'
    OBVIOUS
  <1>1. Inv'
    BY NextInv DEF Agrees
  <1>2. CASE UNCHANGED vars
    <2>1. UNCHANGED <<history, ver, coming, open, source, doc, water, dirty, proc, lost, broken>>
      BY <1>2 DEF vars, host, index, notes
    <2>2. AllDated' <=> AllDated
      BY <2>1 DEF AllDated, DatedHost, DatedSource
    <2>3. Calm' <=> Calm
      BY <2>1 DEF Calm
    <2>4. ASSUME NEW o PROVE Kept(o)' <=> Kept(o)
      BY <2>1 DEF Kept, Safe, Good, Excused, Behind, Owed, Known, Newest, Awaited
    <2>5. Promise' <=> Promise
      BY <2>1, <2>4 DEF Promise, UpToDate, IndexPlaced, OneWriter, At
    <2> QED
      BY <1>1, <2>2, <2>3, <2>5 DEF Agrees
  <1>3. ASSUME NEW p \in Proc, Operation(p) PROVE AllDated' /\ (Calm => Promise)'
    BY <1>1, <1>3, ReadMessageAgrees, MarkAgrees, WriteAgrees, AfterAgrees, ReconcileAgrees,
       ResumeAgrees, WritePageAgrees, NextPageAgrees, ClearAgrees DEF Operation
  <1>4. ASSUME NEW p \in Proc, Fails(p) PROVE AllDated' /\ (Calm => Promise)'
    BY <1>4, MarkFailsAgrees, WriteFailsAgrees, PageFailsAgrees, ClearFailsAgrees, CrashAgrees DEF Fails
  <1> QED
    BY <1>1, <1>2, <1>3, <1>4, AddAgrees, UpdateAgrees, RemoveMessageAgrees, TouchAgrees,
       TimerFiresAgrees, LaterFiresAgrees DEF Next, Agrees

\* When all work is done, every message that is finished and not noted as missed
\* has, at its ordinal, the document of its last revision, and nothing else is
\* in the map: the dirty floor, the watermark, the timers and the note of what a
\* process has done leave no message behind, in whatever order operations
\* fail, die and are begun again (message-index-async.ts:157-298, message-index.ts:401-706).
THEOREM SettledIndexIsExact == Spec => []SettledIsExact
  <1>1. Agrees => SettledIsExact
    <2> SUFFICES ASSUME Agrees, Settled, ~broken, NEW o \in Ordinal
                 PROVE  IF o <= Len(history)
                        THEN history[o] \in lost \cup open \/ doc[o] = [id |-> history[o], ver |-> ver[history[o]]]
                        ELSE doc[o] = None
      BY DEF SettledIsExact
    <2>1. ASSUME NEW p \in Proc
          PROVE  /\ proc[p].reconciled /\ proc[p].timers = {} /\ proc[p].later = <<>>
                 /\ proc[p].queue = <<>> /\ proc[p].pc = "idle"
      <3>1. proc[p].reconciled /\ proc[p].timers = {} /\ proc[p].later = <<>> /\ proc[p].queue = <<>>
        BY DEF Settled
      <3> QED
        BY <3>1, WorkHasQueue DEF At, Agrees, Inv
    <2>2. Calm
      BY <2>1 DEF Calm, Clearing
    <2>3. Promise
      BY <2>2 DEF Agrees
    <2>4. CASE o <= Len(history)
      <3>1. o \in DOMAIN history
        BY <2>4, Ranges DEF Agrees, Inv, Ordinal, TypeInv, HostInv
      <3>2. ~Owed(o)
        BY <2>1 DEF Owed, Owes, Paging
      <3>3. ~Awaited(o)
        BY <2>1 DEF Awaited, Awaits
      <3>4. Good(o) \/ Excused(o)
        BY <2>3, <3>1, <3>2, <3>3 DEF Promise, Kept, Safe
      <3> QED
        BY <2>4, <3>4 DEF Good, Excused
    <2>5. CASE ~(o <= Len(history))
      BY <2>3, <2>5 DEF Promise, IndexPlaced
    <2> QED
      BY <2>4, <2>5
  <1> QED
    BY <1>1, InitAgrees, NextAgrees, PTL DEF Spec
=============================================================================
