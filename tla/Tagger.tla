-------------------------------- MODULE Tagger --------------------------------
(***************************************************************************)
(* The tagger: every text and every tool call of a session gets a number,  *)
(* which the model sees in front of it and by which it discards it.  The   *)
(* rows are in a table all processes share; each process mirrors them in a *)
(* map, and reloads the map at the start of a pass if another connection   *)
(* has written since.  Then the pass walks the content in its order.       *)
(*                                                                         *)
(* A walk is not a transaction: each statement is a step, and another      *)
(* process may come between.  Rows of old versions have no owner: Orphan.  *)
(* All tools of the model share one call id, told apart by their owners.   *)
(***************************************************************************)
EXTENDS Integers

CONSTANTS Proc,       \* processes that have the session open
          Entities,   \* texts and tool calls, in the order of the session
          ToolSets,   \* which of them may be the tool calls
          Orphans,    \* bound: how many rows an old version left for their call id
          MaxTries,   \* MAX_TAG_ALLOC_RETRIES
          MaxTag,     \* bound: tag numbers
          MaxFaults   \* bound: crashes and statements that throw

Entity == 1..Entities
Num == 1..MaxTag
Orphan == -1
Free == 0

ASSUME CountAssumption ==
  /\ Entities \in Nat /\ MaxTag \in Nat /\ Orphans \subseteq 0..MaxTag
  /\ MaxTries \in Nat \ {0} /\ MaxFaults \in Nat
ASSUME ToolAssumption == ToolSets \subseteq SUBSET Entity

VARIABLES
  tag,      \* the table: whose row is this number?
  counter,  \* session_meta.counter
  wire,     \* what the session contains now
  coming,   \* the next content to be added
  tool,     \* the contents that are tool calls
  proc,     \* the tagger of each process and its walk
  shown,    \* history: the number each process has last put in front of a content
  retired,  \* history: the numbers of removed rows
  raced,    \* history: contents two processes gave a row at the same time
  faults

vars == <<tag, counter, wire, coming, tool, proc, shown, retired, raced, faults>>
session == <<wire, coming, tool>>
notes == <<retired, raced, faults>>

Pc == {"idle", "counter", "rows", "walk", "claim", "persisted", "lookup", "relook", "max",
       "insert", "recheck", "advance", "orphan", "adopt", "rematch", "sync"}

\* Histories: gone, the numbers removed since the pass began; late, the content
\* got a row after it had been looked up.
NoMap == [e \in Entity |-> {}]
Fresh == [pc |-> "idle", map |-> NoMap, counter |-> 0, sig |-> "none",
          todo |-> {}, num |-> 0, tries |-> 0, gone |-> {}, late |-> FALSE]

At(p, pc) == proc[p].pc = pc
IsFirst(e, S) == e \in S /\ \A f \in S : e <= f
Key(p, e) == IsFirst(e, proc[p].todo)
Larger(a, b) == IF a < b THEN b ELSE a

Rows(e) == {n \in Num : tag[n] = e}
Taken == {n \in Num : tag[n] # Free}
\* The lowest and the highest of a set; none of the empty set.
Lowest(S) == {n \in S : \A m \in S : n <= m}
Highest(S) == {n \in S : \A m \in S : m <= n}

\* A commit of p makes the loads of all the others stale, under way or done.
Committed(p, P) ==
  [q \in Proc |-> IF q = p THEN P
                  ELSE [proc[q] EXCEPT !.sig = IF @ = "current" THEN "stale" ELSE @]]
Moved(p, P) == proc' = [proc EXCEPT ![p] = P]
Shows(p, e, S) == shown' = [shown EXCEPT ![p][e] = S]

-----------------------------------------------------------------------------
TypeOK ==
  /\ tag \in [Num -> Entity \cup {Orphan, Free}]
  /\ counter \in 0..MaxTag
  /\ wire \subseteq Entity /\ coming \in 1..Entities + 1 /\ tool \subseteq Entity
  /\ proc \in [Proc -> [pc : Pc, map : [Entity -> SUBSET Num], counter : 0..MaxTag,
                        sig : {"none", "current", "stale"}, todo : SUBSET Entity,
                        num : 0..MaxTag, tries : 0..MaxTries, gone : SUBSET Num,
                        late : BOOLEAN]]
  /\ shown \in [Proc -> [Entity -> SUBSET Num]]
  /\ retired \subseteq Num /\ raced \subseteq Entity
  /\ faults \in 0..MaxFaults

Init ==
  /\ counter \in Orphans
  /\ tag = [n \in Num |-> IF n <= counter THEN Orphan ELSE Free]
  /\ wire = {} /\ coming = 1 /\ tool \in ToolSets
  /\ proc = [p \in Proc |-> Fresh]
  /\ shown = [p \in Proc |-> NoMap]
  /\ retired = {} /\ raced = {} /\ faults = 0

-----------------------------------------------------------------------------
(* A pass begins: initFromDb. *)

\* Nobody else has written since the last load.
CacheHit(p) ==
  /\ At(p, "idle") /\ proc[p].sig = "current"
  /\ Moved(p, [proc[p] EXCEPT !.pc = "walk", !.todo = wire, !.gone = {}])
  /\ UNCHANGED <<tag, counter, session, shown, notes>>

\* The probe comes first.  A load of another floor, or after a commit of another
\* session, may come at any time.  No load is used before it is complete, so the
\* signature may as well be written now.
Reload(p) ==
  /\ At(p, "idle")
  /\ Moved(p, [proc[p] EXCEPT !.pc = "counter", !.todo = wire, !.sig = "current", !.gone = {}])
  /\ UNCHANGED <<tag, counter, session, shown, notes>>

LoadCounter(p) ==
  /\ At(p, "counter")
  /\ Moved(p, [proc[p] EXCEPT !.pc = "rows", !.num = counter])
  /\ UNCHANGED <<tag, counter, session, shown, notes>>

\* Mutants: the stored counter is left out, so removed rows are forgotten; the
\* counter is taken for the next number.
LoadedCounterOfRows(own, stored, d) == Larger(own, d)
LoadedCounterNext(own, stored, d) == Larger(own, Larger(stored, d)) + 1
LoadedCounter(own, stored, d) == Larger(own, Larger(stored, d))

\* The rows from a floor on; of two rows for one content the last is kept.
LoadRows(p) ==
  /\ At(p, "rows")
  /\ \E floor \in {0} \cup UNION {Rows(e) : e \in wire \ tool} :
       LET live == {n \in Taken : n >= floor}
       IN \E d \in Highest(live \cup {0}) :
            Moved(p, [proc[p] EXCEPT
              !.pc = "walk", !.num = 0, !.counter = LoadedCounter(@, proc[p].num, d),
              !.map = [e \in Entity |-> Highest(Rows(e) \cap live)]])
  /\ UNCHANGED <<tag, counter, session, shown, notes>>

-----------------------------------------------------------------------------
(* The walk: one content after the other. *)

\* The map has it.
Bound(p) ==
  /\ At(p, "walk")
  /\ \E e \in Entity :
       /\ Key(p, e) /\ proc[p].map[e] # {}
       /\ Shows(p, e, proc[p].map[e])
       /\ Moved(p, [proc[p] EXCEPT !.todo = @ \ {e}])
  /\ UNCHANGED <<tag, counter, session, notes>>

\* A row is looked up and bound, or it is not there.  Mutant: it is never found.
FindNothing(p, e, next) == Moved(p, [proc[p] EXCEPT !.pc = next, !.late = FALSE])
Find(p, e, next) ==
  \/ /\ Rows(e) = {}
     /\ Moved(p, [proc[p] EXCEPT !.pc = next, !.late = FALSE])
  \/ \E n \in Lowest(Rows(e)) :
       Moved(p, [proc[p] EXCEPT !.pc = "sync", !.map[e] = {n}, !.num = n])

\* assignTag.
Lookup(p) ==
  /\ At(p, "walk")
  /\ \E e \in Entity \ tool : Key(p, e) /\ proc[p].map[e] = {} /\ Find(p, e, "max")
  /\ UNCHANGED <<tag, counter, session, shown, notes>>

\* syncCounterAtLeast, and the number is put in front of the content.
Sync(p) ==
  LET c == Larger(proc[p].counter, proc[p].num)
  IN /\ At(p, "sync")
     /\ counter' = Larger(counter, c)
     /\ \E e \in Entity :
          /\ Key(p, e)
          /\ Shows(p, e, {proc[p].num})
          /\ proc' = Committed(p, [proc[p] EXCEPT !.pc = "walk", !.counter = c, !.num = 0,
                                                  !.tries = 0, !.todo = @ \ {e}])
     /\ UNCHANGED <<tag, session, notes>>

-----------------------------------------------------------------------------
(* A tool call that is not in the map is observed first: it takes over the *)
(* first orphan of its call id, and only if there is none its own row.     *)

Observe(p) ==
  /\ At(p, "walk")
  /\ \E e \in tool : Key(p, e) /\ proc[p].map[e] = {}
  /\ \/ Rows(Orphan) = {} /\ Moved(p, [proc[p] EXCEPT !.pc = "persisted"])
     \/ \E n \in Lowest(Rows(Orphan)) : Moved(p, [proc[p] EXCEPT !.pc = "claim", !.num = n])
  /\ UNCHANGED <<tag, counter, session, shown, notes>>

\* Mutant: the update does not ask whether the row still has no owner.
StillOrphanOrNot(n) == n \in Num
StillOrphan(n) == tag[n] = Orphan

\* The index on call id and owner lets no second row in: the statement throws, the pass
\* goes on without tags, and the map is lost.
Adopts(p, taken, num, lost) ==
  \E e \in Entity :
    /\ Key(p, e)
    /\ IF StillOrphan(proc[p].num)
       THEN IF Rows(e) = {}
            THEN /\ tag' = [tag EXCEPT ![proc[p].num] = e]
                 /\ proc' = Committed(p, [proc[p] EXCEPT !.pc = taken, !.num = num,
                                                       !.map[e] = {proc[p].num}])
            ELSE /\ Moved(p, Fresh)
                 /\ UNCHANGED tag
       ELSE /\ Moved(p, [proc[p] EXCEPT !.pc = lost, !.num = 0])
            /\ UNCHANGED tag

Claim(p) ==
  /\ At(p, "claim")
  /\ Adopts(p, "walk", 0, "persisted")
  /\ UNCHANGED <<counter, session, shown, notes>>

\* Its own row, which the floor may have kept out of the map.
Persisted(p) ==
  /\ At(p, "persisted")
  /\ \E e \in Entity :
       /\ Key(p, e)
       /\ \/ Rows(e) = {} /\ Moved(p, [proc[p] EXCEPT !.pc = "lookup"])
          \/ \E n \in Lowest(Rows(e)) : Moved(p, [proc[p] EXCEPT !.pc = "walk", !.map[e] = {n}])
  /\ UNCHANGED <<tag, counter, session, shown, notes>>

-----------------------------------------------------------------------------
(* assignToolTag, where the observation found nothing: its row, an orphan, *)
(* and at last a new number.                                               *)

LookupTool(p) ==
  /\ At(p, "lookup")
  /\ \E e \in Entity : Key(p, e) /\ Find(p, e, "orphan")
  /\ UNCHANGED <<tag, counter, session, shown, notes>>

FindOrphan(p) ==
  /\ At(p, "orphan")
  /\ IF Rows(Orphan) = {} \/ proc[p].tries = MaxTries
     THEN Moved(p, [proc[p] EXCEPT !.pc = "relook", !.tries = 0])
     ELSE \E n \in Lowest(Rows(Orphan)) : Moved(p, [proc[p] EXCEPT !.pc = "adopt", !.num = n])
  /\ UNCHANGED <<tag, counter, session, shown, notes>>

Adopt(p) ==
  /\ At(p, "adopt")
  /\ Adopts(p, "sync", proc[p].num, "rematch")
  /\ UNCHANGED <<counter, session, shown, notes>>

\* Another writer was first: perhaps for the same owner.
Rematch(p) ==
  /\ At(p, "rematch")
  /\ \E e \in Entity :
       /\ Key(p, e)
       /\ \/ /\ Rows(e) = {}
             /\ Moved(p, [proc[p] EXCEPT !.pc = "orphan", !.tries = @ + 1])
          \/ Rows(e) # {} /\ Find(p, e, "orphan")
  /\ UNCHANGED <<tag, counter, session, shown, notes>>

-----------------------------------------------------------------------------
(* allocateTag: a new number. *)

\* For a tool call allocateTag looks once more.
Relook(p) ==
  /\ At(p, "relook")
  /\ \E e \in Entity : Key(p, e) /\ Find(p, e, "max")
  /\ UNCHANGED <<tag, counter, session, shown, notes>>

\* Mutant: the last number instead of the next.
ProposedTaken(c, d) == Larger(c, d)
Proposed(c, d) == Larger(c, d) + 1

Propose(p) ==
  /\ At(p, "max")
  /\ \E d \in Highest(Taken \cup {0}) :
       /\ Proposed(proc[p].counter, d) <= MaxTag
       /\ Moved(p, [proc[p] EXCEPT !.pc = "insert", !.num = Proposed(proc[p].counter, d)])
  /\ UNCHANGED <<tag, counter, session, shown, notes>>

Looked(q) == proc[q].pc \in {"max", "insert", "advance"}

\* UNIQUE(session_id, tag_number), and the index on call id and owner.
Collides(n, e) == tag[n] # Free \/ (e \in tool /\ Rows(e) # {})

Insert(p) ==
  LET n == proc[p].num
  IN /\ At(p, "insert")
     /\ \E e \in Entity :
          /\ Key(p, e)
          /\ IF Collides(n, e)
             THEN /\ Moved(p, [proc[p] EXCEPT !.pc = "recheck", !.num = 0])
                  /\ UNCHANGED <<tag, counter, shown, raced>>
             ELSE /\ tag' = [tag EXCEPT ![n] = e]
                  /\ counter' = Larger(counter, n)
                  /\ Shows(p, e, {n})
                  /\ raced' = IF proc[p].late THEN raced \cup {e} ELSE raced
                  /\ LET P == Committed(p, [proc[p] EXCEPT
                                 !.pc = "walk", !.map[e] = {n}, !.counter = n, !.num = 0,
                                 !.tries = 0, !.todo = @ \ {e}, !.late = FALSE])
                     IN proc' = [q \in Proc |-> IF q # p /\ Key(q, e) /\ Looked(q)
                                                THEN [P[q] EXCEPT !.late = TRUE] ELSE P[q]]
     /\ UNCHANGED <<session, retired, faults>>

\* Was it for this content?
Recheck(p) ==
  /\ At(p, "recheck")
  /\ \E e \in Entity : Key(p, e) /\ Find(p, e, "advance")
  /\ UNCHANGED <<tag, counter, session, shown, notes>>

\* No, so another number; after too many tries the pass goes on without tags.
Advance(p) ==
  /\ At(p, "advance")
  /\ \E d \in Highest(Taken \cup {0}) :
       Moved(p, IF proc[p].tries + 1 = MaxTries THEN Fresh
                ELSE [proc[p] EXCEPT !.pc = "max", !.tries = @ + 1, !.counter = Larger(@, d)])
  /\ UNCHANGED <<tag, counter, session, shown, notes>>

Done(p) ==
  /\ At(p, "walk") /\ proc[p].todo = {}
  /\ Moved(p, [proc[p] EXCEPT !.pc = "idle", !.gone = {}])
  /\ UNCHANGED <<tag, counter, session, shown, notes>>

-----------------------------------------------------------------------------
(* Around the walk. *)

\* A statement throws and the pass cleans up, or the process dies: the map is lost.
Fail(p) ==
  /\ ~At(p, "idle") /\ faults < MaxFaults
  /\ Moved(p, Fresh)
  /\ faults' = faults + 1
  /\ UNCHANGED <<tag, counter, session, shown, retired, raced>>

Cleaned(p) == Fresh

\* message.removed: the rows go, and the map of this process.
Remove(p) ==
  /\ At(p, "idle")
  /\ \E e \in wire :
       /\ tag' = [n \in Num |-> IF tag[n] = e THEN Free ELSE tag[n]]
       /\ wire' = wire \ {e}
       /\ retired' = retired \cup Rows(e)
       /\ LET P == Committed(p, Cleaned(p))
          IN proc' = [q \in Proc |-> IF At(q, "idle") THEN P[q]
                                     ELSE [P[q] EXCEPT !.gone = @ \cup Rows(e)]]
  /\ UNCHANGED <<counter, coming, tool, shown, raced, faults>>

\* The clean-up throws: the rows stay, and so does the map.
RemoveFails(p) ==
  /\ At(p, "idle") /\ faults < MaxFaults
  /\ \E e \in wire : wire' = wire \ {e}
  /\ faults' = faults + 1
  /\ UNCHANGED <<tag, counter, coming, tool, proc, shown, retired, raced>>

\* A process starts: the first orphan goes to the first call of its id.
Backfill(p) ==
  /\ proc[p] = Fresh
  /\ \E n \in Lowest(Rows(Orphan)), e \in tool :
       /\ IsFirst(e, tool \cap wire) /\ Rows(e) = {}
       /\ tag' = [tag EXCEPT ![n] = e]
  /\ proc' = Committed(p, proc[p])
  /\ UNCHANGED <<counter, session, shown, notes>>

\* The host adds a text or a tool call.
Add ==
  /\ coming <= Entities
  /\ wire' = wire \cup {coming} /\ coming' = coming + 1
  /\ UNCHANGED <<tag, counter, tool, proc, shown, notes>>

Begin(p) == CacheHit(p) \/ Reload(p)
Step(p) ==
  \/ LoadCounter(p) \/ LoadRows(p) \/ Bound(p) \/ Lookup(p) \/ Sync(p)
  \/ Observe(p) \/ Claim(p) \/ Persisted(p)
  \/ LookupTool(p) \/ FindOrphan(p) \/ Adopt(p) \/ Rematch(p)
  \/ Relook(p) \/ Propose(p) \/ Insert(p) \/ Recheck(p) \/ Advance(p) \/ Done(p)

Next ==
  \/ \E p \in Proc : Begin(p) \/ Step(p) \/ Fail(p) \/ Remove(p) \/ RemoveFails(p) \/ Backfill(p)
  \/ Add

\* The session goes on having passes, and a pass goes on.
Fairness == \A p \in Proc : WF_vars(Begin(p)) /\ WF_vars(Step(p))

Spec == Init /\ [][Next]_vars /\ Fairness

-----------------------------------------------------------------------------
(* What should hold. *)

\* Whatever has come in between, the number the model was shown is the row of
\* the content it was shown with, as long as the session contains it: ctx_reduce
\* discards what was meant, and no two contents carry one number.
ShownIsRow ==
  \A p \in Proc, e \in wire : shown[p][e] \subseteq Rows(e)

\* The number in front of a content never changes from one pass that tags it to a
\* later one, over reloads, failures and restarts (the prompt cache depends on it),
\* unless two processes had looked for its row before either of them inserted one.
\* A pass whose walk throws puts no numbers in front, and is none of these.
PrefixIsStable ==
  [][\A p \in Proc, e \in wire \cap wire' :
       shown[p][e] \in {{}, shown'[p][e]} \/ e \in raced]_vars

\* A number is not given again after its row was removed (source_contents still
\* has the old text under it), except by a pass that was under way at the time.
NoReissue ==
  [][\A n \in retired : tag[n] = Free /\ tag'[n] # Free
       => \E p \in Proc : At(p, "insert") /\ proc[p].num = n /\ n \in proc[p].gone]_vars

\* The pass is about to give an orphan to a call that has a row it has not loaded, and
\* will throw; so may each later one that loads from the same floor.
Ghosted(p) ==
  At(p, "claim") /\ StillOrphan(proc[p].num) /\ \E e \in Entity : Key(p, e) /\ Rows(e) # {}

\* All content is tagged in the end, whatever collides, except in a process whose
\* passes throw again and again because old versions left one orphan too many.
EverythingIsShown ==
  \A p \in Proc : []<>(Ghosted(p) \/ \A e \in wire : shown[p][e] # {})
=============================================================================
