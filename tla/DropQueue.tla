------------------------------- MODULE DropQueue -------------------------------
(***************************************************************************)
(* The drop queue: ctx_reduce and the historian ask for contents to be     *)
(* discarded, and a pass that may change the prompt applies what was asked *)
(* for.  What is dropped stays dropped in one form, which the table        *)
(* remembers and every later pass replays: a tool call is removed ("full") *)
(* or keeps a skeleton, or the mark of an edit.                            *)
(*                                                                         *)
(* A content stands for its tag; its row comes with it.  Contents have to  *)
(* do with one another only through their age: the newest tool calls are   *)
(* protected, and the newest ones keep a skeleton.  Whether a pass may     *)
(* change the prompt, and what its heuristics select, depends on sizes and *)
(* times and is left open.                                                 *)
(***************************************************************************)
EXTENDS Integers

CONSTANTS Proc,        \* processes that have the session open
          Tag,         \* contents
          ToolSets,    \* which of them may be the tool calls; the others are texts
          MaxFailures  \* bound: crashes and transactions that fail

Reduced == {"full", "skeleton", "marker"}
Form == Reduced \cup {"whole"}

ASSUME DropAssumption == ToolSets \subseteq SUBSET Tag /\ MaxFailures \in Nat

VARIABLES
  status,   \* tags.status
  mode,     \* tags.drop_mode
  queue,    \* pending_ops: the contents whose drop is asked for
  tool,     \* the contents that are tool calls
  present,  \* what the session contains
  hidden,   \* what the host has compacted away
  running,  \* tool calls without a result yet
  held,     \* the protected tool calls: newer work has not displaced them yet
  recent,   \* the newest RECENT_TOOL_SKELETON_WINDOW tool calls
  pass,     \* the pass of each process
  shown,    \* history: the form in which a pass that replays it last sent each content
  spoiled,  \* history: contents a transaction that failed left changed in the prompt,
            \* or whose form a clean-up changed after another pass had taken it up
  failures

vars == <<status, mode, queue, tool, present, hidden, running, held, recent, pass,
          shown, spoiled, failures>>
table == <<status, mode, queue>>
ages == <<held, recent>>
host == <<tool, present, hidden, running, ages>>
notes == <<shown, spoiled, failures>>

AllWhole == [t \in Tag |-> "whole"]

\* have: what the pass can reduce; not: what it contains but cannot, a tool being at work;
\* held: as loaded; active, ops: tags and requests as loaded; form: the prompt; marked:
\* tool calls to be removed from it when the batch is finalized; kept: history, what had
\* been sent reduced before the pass began.
NoPass == [pc |-> "none", have |-> {}, not |-> {}, held |-> {}, active |-> {}, ops |-> {},
           form |-> AllWhole, marked |-> {}, kept |-> {}]

In(p, pc) == pass[p].pc = pc
Goes(p, P) == pass' = [pass EXCEPT ![p] = P]
Active == {t \in present : status[t] = "active"}

-----------------------------------------------------------------------------
TypeOK ==
  /\ status \in [Tag -> {"active", "dropped", "compacted"}]
  /\ mode \in [Tag -> Reduced]
  /\ queue \subseteq present \cup hidden
  /\ present \subseteq Tag \ hidden /\ hidden \subseteq Tag
  /\ running \subseteq tool \cap present /\ held \subseteq tool /\ recent \subseteq tool
  /\ pass \in [Proc -> [pc : {"none", "decide", "apply", "load", "clean", "reclaim", "end"},
                        have : SUBSET Tag, not : SUBSET tool, held : SUBSET tool,
                        active : SUBSET Tag, ops : SUBSET Tag, form : [Tag -> Form],
                        marked : SUBSET tool, kept : SUBSET Tag]]
  /\ shown \in [Tag -> Form] /\ spoiled \subseteq Tag /\ failures \in 0..MaxFailures

Init ==
  /\ status = [t \in Tag |-> "active"] /\ mode = [t \in Tag |-> "full"] /\ queue = {}
  /\ tool \in ToolSets
  /\ present = {} /\ hidden = {} /\ running = {} /\ held = {} /\ recent = {}
  /\ pass = [p \in Proc |-> NoPass]
  /\ shown = AllWhole /\ spoiled = {} /\ failures = 0

-----------------------------------------------------------------------------
(* The host, and what is asked for. *)

Add ==
  /\ \E t \in Tag \ (present \cup hidden) :
       /\ present' = present \cup {t}
       /\ running' = running \cup ({t} \cap tool)
       /\ held' = held \cup ({t} \cap tool) /\ recent' = recent \cup ({t} \cap tool)
  /\ UNCHANGED <<table, tool, hidden, pass, notes>>

Completes ==
  /\ \E t \in running : running' = running \ {t}
  /\ UNCHANGED <<table, tool, present, hidden, ages, pass, notes>>

\* Newer work displaces a tool call: its tokens and its place are counted apart.
Displaced ==
  /\ \/ \E t \in held : held' = held \ {t} /\ UNCHANGED recent
     \/ \E t \in recent : recent' = recent \ {t} /\ UNCHANGED held
  /\ UNCHANGED <<table, tool, present, hidden, running, pass, notes>>

\* Mutant of Ask: unknown tags are not refused.
AskUnknown ==
  /\ \E t \in Tag \ queue : queue' = queue \cup {t}
  /\ UNCHANGED <<status, mode, host, pass, notes>>

\* ctx_reduce.  It skips what is dropped or compacted, but another process may have
\* dropped or compacted it since the tool looked.
Ask ==
  /\ \E t \in (present \cup hidden) \ queue : queue' = queue \cup {t}
  /\ UNCHANGED <<status, mode, host, pass, notes>>

\* queueDropsForCompartmentalizedMessages, when compartments are published.
AskThrough ==
  /\ \E S \in SUBSET (Active \ queue) : S # {} /\ queue' = queue \cup S
  /\ UNCHANGED <<status, mode, host, pass, notes>>

\* /ctx-flush: whatever is asked for is dropped, held or not, in the mode its row has.
Flush ==
  /\ queue # {}
  /\ status' = [t \in Tag |-> IF t \in queue THEN "dropped" ELSE status[t]]
  /\ queue' = {}
  /\ UNCHANGED <<mode, host, pass, notes>>

\* The host compacts the session itself: onCompacted.
Compact ==
  /\ present # {}
  /\ hidden' = hidden \cup present /\ present' = {} /\ running' = {}
  /\ status' = [t \in Tag |-> IF t \in present THEN "compacted" ELSE status[t]]
  /\ queue' = {}
  /\ shown' = AllWhole /\ spoiled' = {}
  /\ UNCHANGED <<mode, tool, ages, pass, failures>>

-----------------------------------------------------------------------------
(* A pass begins. *)

\* Parts are removed from the prompt at the end; other changes are made in place.
Change(P, S, f) ==
  [P EXCEPT !.form = [t \in Tag |-> IF t \in S /\ (f[t] # "full" \/ t \notin tool)
                                    THEN f[t] ELSE P.form[t]],
            !.marked = @ \cup {t \in S \cap tool : f[t] = "full"}]
Final(P) == [t \in Tag |-> IF t \in P.marked THEN "full" ELSE P.form[t]]

\* Mutant of Replayed: the form is derived anew.
ReplayedByAge(t) == IF t \in recent THEN "skeleton" ELSE "full"

\* applyFlushedStatuses: what is dropped is shown so, on every pass.
Replayed(t) == IF t \in tool THEN mode[t] ELSE "full"

\* The messages and their targets, and the active tags.
Loaded(have) ==
  [NoPass EXCEPT !.pc = "decide", !.have = have, !.not = running, !.active = Active \cap have,
                 !.kept = {t \in have : shown[t] # "whole"}]
Flushed(have) == {t \in have : status[t] = "dropped"}

Begin(p) ==
  LET have == present \ running
  IN /\ In(p, "none")
     /\ Goes(p, [Loaded(have) EXCEPT
          !.form = [t \in Tag |-> IF t \in Flushed(have) THEN Replayed(t) ELSE "whole"]])
     /\ UNCHANGED <<table, host, notes>>

\* The replay throws half way: what it has not come to, S, stays whole.  The pass goes
\* on, and what was only marked is removed when it ends.
ReplayFails(p) ==
  LET all == present \ running
  IN /\ In(p, "none") /\ failures < MaxFailures
     /\ Flushed(all) # {}
     /\ \E S \in SUBSET Flushed(all) :
          Goes(p, Change(Loaded(all \ S), Flushed(all \ S), [t \in Tag |-> Replayed(t)]))
     /\ failures' = failures + 1
     /\ UNCHANGED <<table, host, shown, spoiled>>

\* The tag walk throws: the pass has no targets, replays nothing, and goes on.  What is
\* asked for is then absent for it, a call at work too.
Untagged(p) ==
  /\ In(p, "none") /\ failures < MaxFailures
  /\ Goes(p, [NoPass EXCEPT !.pc = "decide"])
  /\ failures' = failures + 1
  /\ UNCHANGED <<table, host, shown, spoiled>>

\* After several awaits the pass knows whether it may change the prompt, and reads what
\* is protected and what is asked for.  Some passes only clean up, by the active tags
\* they loaded at first: a subagent's in the emergency band, one that carries a
\* published history.
Defers(p) ==
  /\ In(p, "decide")
  /\ Goes(p, [pass[p] EXCEPT !.pc = "end", !.active = {}, !.not = {}])
  /\ UNCHANGED <<table, host, notes>>

Executes(p) ==
  /\ In(p, "decide")
  /\ Goes(p, [pass[p] EXCEPT !.pc = "apply", !.ops = queue, !.held = held, !.active = {}])
  /\ UNCHANGED <<table, host, notes>>

OnlyCleans(p) ==
  /\ In(p, "decide")
  /\ Goes(p, [pass[p] EXCEPT !.pc = "clean", !.held = held, !.not = {}])
  /\ UNCHANGED <<table, host, notes>>

-----------------------------------------------------------------------------
(* What is asked for is applied. *)

Dropped(S, f) ==
  /\ status' = [t \in Tag |-> IF t \in S THEN "dropped" ELSE status[t]]
  /\ mode' = [t \in Tag |-> IF t \in S \cap tool THEN f[t] ELSE mode[t]]

FormNow == [t \in Tag |-> IF t \in recent THEN "skeleton" ELSE "full"]

\* The transaction loads the tags again.
StillActive(t) == status[t] = "active"

\* What another has dropped is done; what is held or at work is asked for again; what
\* this pass does not contain is dropped all the same.
Applicable(P) == {t \in P.ops \ (P.held \cup P.not) : StillActive(t)}

\* Mutant of Answered: every request is.
AnsweredAll(P) == P.ops
Answered(P) == Applicable(P) \cup {t \in P.ops : ~StillActive(t)}

\* applyPendingOperations; the heuristics may follow.
Apply(p) ==
  LET P == pass[p]
      S == Applicable(P)
  IN /\ In(p, "apply")
     /\ Dropped(S, FormNow)
     /\ queue' = queue \ Answered(P)
     /\ \E next \in {"load", "reclaim"} :
          Goes(p, [Change(P, S \cap P.have, FormNow) EXCEPT
                     !.pc = next, !.not = {}, !.ops = @ \ Answered(P)])
     /\ UNCHANGED <<host, notes>>

-----------------------------------------------------------------------------
(* What nobody asked for. *)

\* getActiveTagsBySession.
Load(p) ==
  /\ In(p, "load")
  /\ Goes(p, [pass[p] EXCEPT !.pc = "clean", !.active = Active \cap pass[p].have])
  /\ UNCHANGED <<table, host, notes>>

\* applyHeuristicCleanup: the emergency drop, duplicates, injections, one after the other
\* over the tags as loaded: a skeleton the first has made the second may remove.
Cleanable(P, m) ==
  {t \in P.active \ (P.held \cup P.marked) :
     /\ P.form[t] # m
     /\ t \in tool \/ m = "full"}
TakenUp(p, t, m) ==
  \/ shown[t] \notin {"whole", m}
  \/ \E q \in Proc \ {p} : Final(pass[q])[t] \notin {"whole", m}

Clean(p) ==
  /\ In(p, "clean")
  /\ \E m \in {"full", "skeleton"} : \E t \in Cleanable(pass[p], m) :
       /\ Dropped({t}, [u \in Tag |-> m])
       /\ Goes(p, Change(pass[p], {t}, [u \in Tag |-> m]))
       /\ spoiled' = IF TakenUp(p, t, m) THEN spoiled \cup {t} ELSE spoiled
  /\ UNCHANGED <<queue, host, shown, failures>>

Cleaned(p) ==
  /\ In(p, "clean")
  /\ Goes(p, [pass[p] EXCEPT !.pc = "reclaim", !.active = {}])
  /\ UNCHANGED <<table, host, notes>>

\* The synthetic requests: old tool calls, superseded ones, superseded edits.
Reclaimable(P, m) ==
  {t \in (P.have \cap tool) \ (P.ops \cup P.held) : StillActive(t) /\ m \in {"marker", FormNow[t]}}

Reclaim(p) ==
  /\ In(p, "reclaim")
  /\ \E m \in Reduced : \E t \in Reclaimable(pass[p], m) :
       /\ Dropped({t}, [u \in Tag |-> m])
       /\ Goes(p, Change(pass[p], {t}, [u \in Tag |-> m]))
  /\ UNCHANGED <<queue, host, notes>>

-----------------------------------------------------------------------------
(* A pass ends. *)

\* The batch is finalized, and the prompt is sent.
Sent(p) ==
  /\ In(p, "reclaim") \/ In(p, "end")
  /\ shown' = [t \in Tag |-> IF t \in pass[p].have \ hidden THEN Final(pass[p])[t] ELSE shown[t]]
  /\ Goes(p, NoPass)
  /\ UNCHANGED <<table, host, spoiled, failures>>

\* A transaction fails and has changed part of the prompt.  What was marked stays in it:
\* if it is whole, the request is none of this pass's as far as that content goes.
Broken(P, S, f) ==
  LET Q == Change(P, S, f)
      lost == {t \in Q.marked : Q.form[t] = "whole"}
  IN [Q EXCEPT !.pc = "end", !.have = @ \ lost, !.kept = @ \ lost, !.marked = {},
               !.active = {}, !.not = {}, !.held = {}, !.ops = {}]

\* Or the pass throws between two of them, and what it has made of the prompt is sent.
Fails(p) ==
  LET P == pass[p]
  IN /\ failures < MaxFailures
     /\ \E m \in Reduced : \E S \in SUBSET P.have :
          /\ \/ In(p, "apply") /\ S \subseteq Applicable(P) /\ \A t \in S : FormNow[t] = m
             \/ In(p, "clean") /\ S \subseteq Cleanable(P, m) /\ m # "marker"
             \/ In(p, "reclaim") /\ S \subseteq Reclaimable(P, m)
             \/ (In(p, "decide") \/ In(p, "load")) /\ S = {}
          /\ LET Q == Broken(P, S, [t \in Tag |-> m])
             IN /\ Goes(p, Q)
                /\ spoiled' = spoiled \cup {t \in Tag : Q.form[t] # P.form[t]}
                                      \cup {t \in P.marked : P.form[t] # "whole"}
     /\ failures' = failures + 1
     /\ UNCHANGED <<table, host, shown>>

\* The process dies; or the transform throws and the host sends its messages as they
\* came, or those of the last good pass.
Crash(p) ==
  /\ ~In(p, "none") /\ failures < MaxFailures
  /\ Goes(p, NoPass)
  /\ failures' = failures + 1
  /\ UNCHANGED <<table, host, shown, spoiled>>

Step(p) ==
  \/ Defers(p) \/ Executes(p) \/ OnlyCleans(p) \/ Apply(p) \/ Load(p) \/ Clean(p)
  \/ Cleaned(p) \/ Reclaim(p) \/ Sent(p)

Next ==
  \/ Add \/ Completes \/ Displaced \/ Ask \/ AskThrough \/ Flush \/ Compact
  \/ \E p \in Proc : \/ Begin(p) \/ ReplayFails(p) \/ Untagged(p)
                     \/ Step(p) \/ Fails(p) \/ Crash(p)

\* Passes begin and go on, and again and again one may execute: the cache has expired,
\* or the pressure is up.
Fairness ==
  \A p \in Proc : WF_vars(Begin(p)) /\ WF_vars(Step(p)) /\ SF_vars(Executes(p))

Spec == Init /\ [][Next]_vars /\ Fairness

-----------------------------------------------------------------------------
(* What should hold. *)

\* The form a content was sent in, once it was reduced, is its form in every pass that
\* begins later and replays it, in whichever process, over flushes, crashes and the
\* content's age; except for what a failed transaction left in the prompt, and for a
\* clean-up that changed the form after another pass had taken it up.  It says nothing of
\* a request whose walk, replay or transform threw: a content such a request has not
\* replayed goes out whole, and the next pass that does replay it must show the old form.
FormIsKept ==
  [][\A p \in Proc, t \in Tag :
       /\ t \in pass[p].kept /\ shown[t] # "whole"
       /\ ~In(p, "none") /\ pass'[p].pc = "none"
       => shown'[t] = shown[t] \/ t \in spoiled']_vars

\* What the agent or the historian asked to discard, once it is complete and no longer
\* protected, is sent reduced in the end, or the host compacts it away; it is not lost
\* because it was held, at work or absent at the time, or a transaction failed.
RequestIsServed ==
  \A t \in Tag : t \in queue \ (held \cup running) ~> (shown[t] # "whole" \/ t \in hidden)
=============================================================================
