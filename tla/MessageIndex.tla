---------------------------- MODULE MessageIndex ----------------------------
(***************************************************************************)
(* The full-text index of a session's messages.  The table of documents is *)
(* kept up to a watermark, a dirty floor remembers the lowest ordinal that *)
(* a write may have left wrong, and a map leads from an ordinal to its     *)
(* document; a document that has lost its place in the map can be found    *)
(* but not be deleted.  Each process brings the index up to date when a    *)
(* message is finished (after a debounce), page by page when it begins to  *)
(* serve the session, and from nothing when a message was removed.         *)
(*                                                                         *)
(* Within a process the operations on a session queue up behind a lock;    *)
(* between their statements other processes may come.                      *)
(***************************************************************************)
EXTENDS Integers, Sequences, SequencesExt

CONSTANTS Proc,        \* processes that have the session open
          Active,      \* those in which it is worked on
          MaxMsg,      \* bound: messages
          MaxEdits,    \* bound: revisions of messages
          MaxRemoved,  \* bound: messages that are removed
          Page,        \* RECONCILIATION_BATCH_SIZE
          Faults,      \* statements that may fail, and "crash"
          MaxFaults,   \* bound: how often
          MaxTrouble   \* bound: revisions, removals and failures together, but failing clears

ASSUME BoundAssumption ==
  /\ MaxMsg \in Nat /\ MaxEdits \in Nat /\ MaxRemoved \in Nat /\ MaxFaults \in Nat
  /\ MaxTrouble \in Nat
  /\ Active \subseteq Proc
  /\ Page \in Nat \ {0} /\ Faults \subseteq {"mark", "write", "page", "clear", "crash"}

VARIABLES
  history,  \* the host: the messages, an ordinal is a place
  ver,      \* the host: the revision of each message
  coming,   \* the host: the next message
  open,     \* the host: the messages that are not finished
  source,   \* message_history_source: what has been indexed of a message
  doc,      \* the document of an ordinal
  stray,    \* documents that are no longer in the map
  water,    \* last_indexed_ordinal
  dirty,    \* dirty_floor_ordinal, 0 for none
  proc,     \* the processes
  lost,     \* history: messages whose last revision may be missed for good
  broken,   \* history: a removal's clear was lost, or operations of two processes overlapped
  edits, faults

host == <<history, ver, coming, open, edits>>
index == <<source, doc, stray, water, dirty>>
notes == <<lost, broken, faults>>
vars == <<host, index, proc, notes>>

Id == 1..MaxMsg
Ordinal == 1..MaxMsg
Rev == 0..MaxEdits
Least(a, b) == IF a < b THEN a ELSE b
Greatest(a, b) == IF a < b THEN b ELSE a

\* Nothing is indexed there.
None == [id |-> 0, ver |-> 0]
NoSource == [ord |-> 0, ver |-> 0]

Op(name, i) == [op |-> name, id |-> i]
NoPage == [o \in Ordinal |-> None]
\* The local variables of an operation, reset when it ends.
NoLocals == [id |-> 0, ord |-> 0, ver |-> 0, was |-> FALSE, mark |-> 0, floor |-> 0,
             final |-> 0, cursor |-> 0, page |-> NoPage]
Fresh == [pc |-> "idle", queue |-> <<>>, later |-> <<>>, timers |-> {}, reconciled |-> FALSE,
          scheduled |-> FALSE, done |-> {}, it |-> NoLocals]

At(p, pc) == proc[p].pc = pc
\* An operation does not let go of its process except between two pages.
Free(p) == proc[p].pc \in {"idle", "yield"}
Used(p) == p \in Active /\ Free(p)
Moved(p, P) == proc' = [proc EXCEPT ![p] = P]
Is(p, name) == At(p, "idle") /\ proc[p].queue # <<>> /\ Head(proc[p].queue).op = name

\* Mutant of Ended: the note that a reconciliation is scheduled stays.
EndedStillScheduled(P) == [P EXCEPT !.pc = "idle", !.it = NoLocals, !.queue = Tail(@)]

\* An operation ends, and with a scheduled reconciliation the note that there is one.
Ended(P) ==
  [P EXCEPT !.pc = "idle", !.it = NoLocals, !.queue = Tail(@),
            !.scheduled = @ /\ Head(P.queue).op # "reconcile"]
Unsettled(P) == [Ended(P) EXCEPT !.reconciled = FALSE]

\* scheduleReconciliation
Scheduled(P) ==
  IF P.reconciled \/ P.scheduled THEN P
  ELSE [P EXCEPT !.scheduled = TRUE, !.later = Append(@, "reconcile")]

\* pendingIncrementalKeys, and scheduleIncrementalIndex.
Pending(P) == {m.id : m \in ToSet(P.queue)}
Noticed(P, i) ==
  IF i \in P.timers \cup Pending(P) THEN P ELSE [P EXCEPT !.timers = @ \cup {i}]

StartOrdinal == IF dirty = 0 THEN water ELSE Least(water, dirty - 1)
ReconciledThrough(n) == water >= n /\ dirty = 0
\* The lower of two floors.
Lower(a, b) == IF a = 0 THEN b ELSE IF b = 0 THEN a ELSE Least(a, b)

\* The document of a message is that of its last revision.
Right(documents, i) ==
  \E o \in DOMAIN history : history[o] = i /\ documents[o] = [id |-> i, ver |-> ver[i]]
\* Of what is taken for indexed, what is not.
Missed(ids) == lost' = {i \in lost \cup ids : ~Right(doc', i)}
\* Another process is within an operation.
Others(p) == \E q \in Proc \ {p} : ~At(q, "idle")
Overlaps(p) == broken' = (broken \/ Others(p))

Removed == coming - 1 - Len(history)
MoreTrouble == edits + Removed + faults < MaxTrouble

Init ==
  /\ history = <<>> /\ ver = [i \in Id |-> 0] /\ coming = 1 /\ open = {} /\ edits = 0
  /\ source = [i \in Id |-> NoSource] /\ doc = NoPage /\ stray = {}
  /\ water = 0 /\ dirty = 0
  /\ proc = [p \in Proc |-> Fresh]
  /\ lost = {} /\ broken = FALSE /\ faults = 0

-----------------------------------------------------------------------------
(* What the host does, and the events the process of the change gets. *)

\* A message of the user, or one of the assistant that is not finished yet.
Add(p) ==
  /\ Used(p) /\ coming <= MaxMsg
  /\ history' = Append(history, coming) /\ coming' = coming + 1
  /\ \/ Moved(p, Scheduled(Noticed(proc[p], coming))) /\ UNCHANGED open
     \/ Moved(p, Scheduled(proc[p])) /\ open' = open \cup {coming}
  /\ UNCHANGED <<ver, edits, index, notes>>

\* A message is finished, or edited: message.updated.
Update(p) ==
  /\ Used(p) /\ edits < MaxEdits /\ MoreTrouble
  /\ \E i \in ToSet(history) :
       /\ open' = open \ {i}
       /\ ver' = [ver EXCEPT ![i] = @ + 1]
       /\ lost' = lost \ {i}
       /\ Moved(p, Scheduled(Noticed(proc[p], i)))
  /\ edits' = edits + 1
  /\ UNCHANGED <<history, coming, index, broken, faults>>

\* A message is removed: scheduleClearAndReindex.  The event itself
\* schedules a reconciliation as every event does.
RemoveMessage(p) ==
  /\ Used(p) /\ Removed < MaxRemoved /\ MoreTrouble
  /\ \E o \in DOMAIN history :
       history' = RemoveAt(history, o) /\ open' = open \ {history[o]}
  /\ Moved(p, Scheduled([proc[p] EXCEPT !.reconciled = FALSE, !.scheduled = FALSE, !.done = {},
                                        !.later = Append(@, "clear")]))
  /\ UNCHANGED <<ver, coming, edits, index, notes>>

\* Any other event, and every pass.
Touch(p) ==
  /\ Free(p) /\ Scheduled(proc[p]) # proc[p]
  /\ Moved(p, Scheduled(proc[p]))
  /\ UNCHANGED <<host, index, notes>>

\* The debounce of a message is over.
TimerFires(p) ==
  /\ Free(p)
  /\ \E i \in proc[p].timers :
       Moved(p, [proc[p] EXCEPT !.timers = @ \ {i}, !.queue = Append(@, Op("single", i))])
  /\ UNCHANGED <<host, index, notes>>

\* After the quiet period of the start, in the order in which they were scheduled.
LaterFires(p) ==
  /\ Free(p) /\ proc[p].later # <<>>
  /\ Moved(p, [proc[p] EXCEPT !.later = Tail(@), !.queue = Append(@, Op(Head(proc[p].later), 0))])
  /\ UNCHANGED <<host, index, notes>>

-----------------------------------------------------------------------------
(* One message: scheduleIncrementalIndex and indexSingleMessage. *)

Revision(m) == [id |-> m.id, ord |-> m.ord, ver |-> m.ver]
Document(m) == [id |-> m.id, ver |-> m.ver]
SourceIs(m) == source[m.id] = [ord |-> m.ord, ver |-> m.ver]

\* The place of a message in the history, 0 when it is gone.
OrdinalOf(i) ==
  IF i \in ToSet(history) THEN CHOOSE o \in DOMAIN history : history[o] = i ELSE 0

\* The message is read when its turn comes; it may be gone, or be indexed
\* already.  The process is not reconciled while it writes.
ReadMessage(p) ==
  /\ Is(p, "single")
  /\ LET i == Head(proc[p].queue).id
         m == [id |-> i, ord |-> OrdinalOf(i), ver |-> ver[i]]
     IN Moved(p, IF m.ord = 0 \/ m \in proc[p].done THEN Ended(proc[p])
                 ELSE IF m.ord <= water /\ SourceIs(m)
                 THEN [Ended(proc[p]) EXCEPT !.done = @ \cup {m}]
                 ELSE [proc[p] EXCEPT !.pc = "mark", !.reconciled = FALSE,
                         !.it = [NoLocals EXCEPT !.id = m.id, !.ord = m.ord, !.ver = m.ver,
                                   !.was = proc[p].reconciled, !.mark = water, !.floor = dirty]])
  /\ UNCHANGED <<host, index, notes>>

\* Mutant of Mark: the floor is not noted.
MarkNothing(p) ==
  /\ At(p, "mark")
  /\ Moved(p, [proc[p] EXCEPT !.pc = "write"])
  /\ Overlaps(p)
  /\ UNCHANGED <<host, index, lost, faults>>

\* markMessageIndexDirty, before and outside the transaction.
Mark(p) ==
  LET m == proc[p].it
  IN /\ At(p, "mark")
     /\ dirty' = Lower(dirty, Least(m.ord, m.mark + 1))
     /\ water' = Greatest(water, m.mark)
     /\ Moved(p, [proc[p] EXCEPT !.pc = "write"])
     /\ Overlaps(p)
     /\ UNCHANGED <<host, source, doc, stray, lost, faults>>

\* Mutant of Replaced: the old document stays.
ReplacedBeside(m) ==
  /\ doc' = [doc EXCEPT ![m.ord] = Document(m)]
  /\ stray' = IF doc[m.ord] = None THEN stray ELSE stray \cup {doc[m.ord]}

\* A document of its message at its ordinal; what the map led to before is
\* deleted with the message's old document, or it is lost to the map.
Replaced(m) ==
  LET old == source[m.id].ord
      d == IF old = 0 THEN doc ELSE [doc EXCEPT ![old] = None]
  IN /\ doc' = [d EXCEPT ![m.ord] = Document(m)]
     /\ stray' = IF d[m.ord] = None THEN stray ELSE stray \cup {d[m.ord]}

\* A message at the end of the prefix gets its document unless there is one.
Extended(m) ==
  /\ doc' = IF doc[m.ord] = None THEN [doc EXCEPT ![m.ord] = Document(m)] ELSE doc
  /\ UNCHANGED stray

\* With the floor at its own ordinal a revision drops it, and with it what
\* the floor was to have rebuilt in the prefix behind.
LeftBehind(m) ==
  IF m.floor = m.ord THEN {history[o] : o \in m.ord..Least(water, Len(history))} ELSE {}

Covered(m) == m.ord <= water
Extends(m) == m.ord = water + 1 /\ dirty \in {0, m.ord}

\* indexSingleMessageInTransaction: a revision replaces the document, the next
\* message extends the prefix, and anything else is left to the dirty floor.
Write(p) ==
  LET m == proc[p].it
  IN /\ At(p, "write")
     /\ Moved(p, [proc[p] EXCEPT !.pc = "after"])
     /\ Overlaps(p)
     /\ IF (Covered(m) /\ ~SourceIs(m)) \/ Extends(m)
        THEN /\ IF Covered(m) THEN Replaced(m) ELSE Extended(m)
             /\ source' = [source EXCEPT ![m.id] = [ord |-> m.ord, ver |-> m.ver]]
             /\ water' = Greatest(water, m.ord)
             /\ dirty' = IF m.floor = m.ord THEN 0 ELSE m.floor
             /\ Missed({m.id} \cup LeftBehind(m))
        ELSE UNCHANGED <<index, lost>>
     /\ UNCHANGED <<host, faults>>

\* Mutant of After: it does not ask for the floor.
AfterAnyway(p) ==
  LET m == proc[p].it
  IN /\ At(p, "after")
     /\ Moved(p, [Ended(proc[p]) EXCEPT !.reconciled = @ \/ m.was, !.done = @ \cup {Revision(m)}])
     /\ UNCHANGED <<host, index, notes>>

\* The process is reconciled again if it was and nothing is open.
After(p) ==
  LET m == proc[p].it
  IN /\ At(p, "after")
     /\ Moved(p, [Ended(proc[p]) EXCEPT !.reconciled = @ \/ (m.was /\ dirty = 0),
                                        !.done = @ \cup {Revision(m)}])
     /\ UNCHANGED <<host, index, notes>>

-----------------------------------------------------------------------------
(* A reconciliation: reconcileSessionIndex and indexMessagesAfterOrdinal. *)

\* A page of the host's history behind a cursor.
PageEnd(m) == Least(m.final, m.cursor + Page)
ReadPage(P) ==
  [P EXCEPT !.pc = "page", !.it.page =
     [o \in Ordinal |-> IF o \in P.it.cursor + 1..Least(PageEnd(P.it), Len(history))
                        THEN [id |-> history[o], ver |-> ver[history[o]]] ELSE None]]

\* It ends; the process is reconciled if the whole snapshot is covered.
Reconciled(P, n) == [Ended(P) EXCEPT !.reconciled = @ \/ ReconciledThrough(n)]

Reconcile(p) ==
  /\ Is(p, "reconcile") \/ Is(p, "reindex")
  /\ Moved(p, IF proc[p].reconciled THEN Ended(proc[p])
              ELSE IF StartOrdinal >= Len(history) THEN Reconciled(proc[p], Len(history))
              ELSE ReadPage([proc[p] EXCEPT !.it.final = Len(history), !.it.cursor = StartOrdinal]))
  /\ UNCHANGED <<host, index, notes>>

\* The event loop comes back to it for the next page.
Resume(p) ==
  /\ At(p, "yield")
  /\ Moved(p, ReadPage(proc[p]))
  /\ UNCHANGED <<host, index, notes>>

\* What a page covers of the prefix: to the first ordinal it does not have.
CoversTo(m, c) ==
  /\ c \in StartOrdinal..Greatest(StartOrdinal, PageEnd(m))
  /\ \A o \in StartOrdinal + 1..c : m.page[o] # None
  /\ c < PageEnd(m) => m.page[c + 1] = None

\* The documents from the dirty floor to the end of the page go; those the page
\* has are indexed again unless there is one at their ordinal.
WritePage(p) ==
  LET m == proc[p].it
      end == PageEnd(m)
      cut == IF dirty = 0 THEN {} ELSE dirty..end
      d == [o \in Ordinal |-> IF o \in cut THEN None ELSE doc[o]]
  IN /\ At(p, "page")
     /\ \E c \in 0..MaxMsg :
          LET new == StartOrdinal + 1..c
          IN /\ CoversTo(m, c)
             /\ doc' = [o \in Ordinal |-> IF o \in new /\ d[o] = None THEN m.page[o] ELSE d[o]]
             /\ source' = [i \in Id |->
                             IF \E o \in new : m.page[o].id = i
                             THEN LET o == CHOOSE o \in new : m.page[o].id = i
                                  IN [ord |-> o, ver |-> m.page[o].ver]
                             ELSE IF source[i].ord \in cut THEN NoSource ELSE source[i]]
             /\ water' = c
             /\ dirty' = Lower(IF c < end THEN c + 1 ELSE 0, IF dirty > end THEN dirty ELSE 0)
             /\ Missed({m.page[o].id : o \in new})
     /\ Moved(p, [proc[p] EXCEPT !.pc = "next", !.it.page = NoPage])
     /\ Overlaps(p)
     /\ UNCHANGED <<host, stray, faults>>

\* Then the next page, if there was progress and there is more.
NextPage(p) ==
  LET m == proc[p].it
  IN /\ At(p, "next")
     /\ Moved(p, IF StartOrdinal > m.cursor /\ StartOrdinal < m.final
                 THEN [proc[p] EXCEPT !.pc = "yield", !.it.cursor = StartOrdinal]
                 ELSE Reconciled(proc[p], m.final))
     /\ UNCHANGED <<host, index, notes>>

-----------------------------------------------------------------------------
(* From nothing: clearIndexedMessages, and then a reconciliation. *)

Clear(p) ==
  /\ Is(p, "clear")
  /\ source' = [i \in Id |-> NoSource] /\ doc' = NoPage /\ water' = 0 /\ dirty' = 0
  /\ LET P == [Unsettled(proc[p]) EXCEPT !.done = {}]
     IN Moved(p, [P EXCEPT !.queue = Append(@, Op("reindex", 0))])
  /\ broken' = Others(p) /\ lost' = {}
  /\ UNCHANGED <<host, stray, faults>>

-----------------------------------------------------------------------------
(* Failures. *)

\* The clear of a removal may fail when there is no room for other trouble.
Fault(kind) ==
  /\ kind \in Faults /\ faults < MaxFaults /\ faults' = faults + 1
  /\ MoreTrouble \/ kind = "clear"

\* The database is busy: the operation ends there, its transaction rolled back.
MarkFails(p) ==
  /\ At(p, "mark") /\ Fault("mark")
  /\ Moved(p, Unsettled(proc[p]))
  /\ lost' = IF proc[p].it.ord <= water THEN lost \cup {proc[p].it.id} ELSE lost
  /\ UNCHANGED <<host, index, broken>>
WriteFails(p) ==
  /\ At(p, "write") /\ Fault("write")
  /\ Moved(p, Unsettled(proc[p]))
  /\ UNCHANGED <<host, index, lost, broken>>
PageFails(p) ==
  /\ At(p, "page") /\ Fault("page")
  /\ Moved(p, Ended(proc[p]))
  /\ UNCHANGED <<host, index, lost, broken>>
ClearFails(p) ==
  /\ Is(p, "clear") /\ Fault("clear")
  /\ Moved(p, Unsettled([proc[p] EXCEPT !.done = {}]))
  /\ broken' = TRUE
  /\ UNCHANGED <<host, index, lost>>

Clears(p) == "clear" \in ToSet(proc[p].later) \cup {m.op : m \in ToSet(proc[p].queue)}
\* A process dies, and what it was still to do is forgotten.
Crash(p) ==
  /\ proc[p] # Fresh /\ Fault("crash")
  /\ Moved(p, Fresh)
  /\ broken' = (broken \/ Clears(p))
  /\ lost' = lost \cup proc[p].timers \cup (Pending(proc[p]) \ {0})
  /\ UNCHANGED <<host, index>>

Operation(p) ==
  \/ ReadMessage(p) \/ Mark(p) \/ Write(p) \/ After(p)
  \/ Reconcile(p) \/ Resume(p) \/ WritePage(p) \/ NextPage(p) \/ Clear(p)
Fails(p) == MarkFails(p) \/ WriteFails(p) \/ PageFails(p) \/ ClearFails(p) \/ Crash(p)

Next == \E p \in Proc :
  \/ Add(p) \/ Update(p) \/ RemoveMessage(p) \/ Touch(p) \/ TimerFires(p) \/ LaterFires(p)
  \/ Operation(p) \/ Fails(p)

\* The session goes on having events, timers fire, and operations go on.
Fairness == \A p \in Proc :
  WF_vars(Touch(p)) /\ WF_vars(TimerFires(p)) /\ WF_vars(LaterFires(p)) /\ WF_vars(Operation(p))

Spec == Init /\ [][Next]_vars /\ Fairness

-----------------------------------------------------------------------------
(* What should hold. *)

Doc == [id : 0..MaxMsg, ver : Rev]
Message == [id : Id, ord : Ordinal, ver : Rev]

TypeOK ==
  /\ history \in Seq(Id) /\ ver \in [Id -> Rev] /\ coming \in 1..MaxMsg + 1 /\ open \subseteq Id /\ edits \in Rev
  /\ source \in [Id -> [ord : 0..MaxMsg, ver : Rev]]
  /\ doc \in [Ordinal -> Doc] /\ stray \subseteq Doc \ {None}
  /\ water \in 0..MaxMsg /\ dirty \in 0..MaxMsg
  /\ \A p \in Proc :
       /\ proc[p].timers \subseteq Id /\ proc[p].done \subseteq Message
       /\ proc[p].reconciled \in BOOLEAN /\ proc[p].scheduled \in BOOLEAN
       /\ ToSet(proc[p].later) \subseteq {"reconcile", "clear"}
       /\ ToSet(proc[p].queue) \subseteq
            [op : {"single"}, id : Id] \cup [op : {"reconcile", "reindex", "clear"}, id : {0}]
       /\ proc[p].it.page \in [Ordinal -> Doc]
       /\ proc[p].scheduled => "reconcile" \in ToSet(proc[p].later) \cup {m.op : m \in ToSet(proc[p].queue)}
  /\ lost \subseteq Id /\ broken \in BOOLEAN /\ faults \in 0..MaxFaults

\* Every process serves the session and has nothing left to do.
Settled == \A p \in Proc :
  LET P == proc[p] IN P.reconciled /\ P.timers = {} /\ P.later = <<>> /\ P.queue = <<>>
Indexed(i) == \E o \in Ordinal : doc[o].id = i

\* When all work is done the index has, at each ordinal, the document of the
\* message's last revision, and none of another.
SettledIsExact ==
  Settled /\ ~broken => \A o \in Ordinal :
    IF o <= Len(history)
    THEN history[o] \in lost \cup open \/ doc[o] = [id |-> history[o], ver |-> ver[history[o]]]
    ELSE doc[o] = None

\* Whatever processes overlap, a message is found once, as long as none has been removed.
FoundOnce ==
  Removed = 0 =>
    /\ stray = {}
    /\ \A o1, o2 \in Ordinal : doc[o1].id = doc[o2].id => o1 = o2 \/ doc[o1] = None

\* A message of the session is indexed in the end.
EveryMessageIsIndexed ==
  \A i \in Id : i \in ToSet(history) ~> (i \notin ToSet(history) \/ i \in lost \cup open \/ broken \/ Indexed(i))

\* "The next reconciliation rebuilds this ordinal from the authoritative source".
RebuildsFromSource ==
  Settled => \A o \in DOMAIN history :
    history[o] \in open \/ doc[o] = [id |-> history[o], ver |-> ver[history[o]]]
=============================================================================
