-------------------------- MODULE CompartmentTable --------------------------
(***************************************************************************)
(* The rows of one session's `compartments` table (and of its              *)
(* `recomp_compartments` staging table), and the questions the runners ask *)
(* of them.  A table is a function from sequence numbers, of which the     *)
(* schema makes (session_id, sequence) UNIQUE, to cells; a cell is the     *)
(* range of raw message ordinals the compartment summarises.  Titles,      *)
(* tiers, ids and timestamps are not kept: no property here reads them.    *)
(***************************************************************************)
EXTENDS Naturals

CONSTANTS MaxMsg,      \* number of raw messages in the session
          MaxCells     \* most compartments one historian pass emits

ASSUME MaxMsgAssumption == MaxMsg \in Nat \ {0}
ASSUME MaxCellsAssumption == MaxCells \in Nat \ {0}

Ordinal == 1..MaxMsg
Cell == [s : Ordinal, e : Ordinal]

\* A session that has no compartment yet.
NoRows == [i \in {} |-> [s |-> 1, e |-> 1]]

\* A table holds finitely many rows, so one of them is the last.
IsTable(t) == /\ DOMAIN t \subseteq Nat
              /\ t \in [DOMAIN t -> Cell]
              /\ DOMAIN t # {} => \E i \in DOMAIN t : \A j \in DOMAIN t : j <= i

\* The row ORDER BY sequence puts last, and the one it puts just before row i.
LastSeq(t) == CHOOSE i \in DOMAIN t : \A j \in DOMAIN t : j <= i
PrevSeq(t, i) == CHOOSE j \in DOMAIN t :
                   j < i /\ \A k \in DOMAIN t : k < i => k <= j

\* MAX(sequence) + 1, and the ordinal after the last compartment's end.
NextSeq(t) == IF DOMAIN t = {} THEN 0 ELSE LastSeq(t) + 1
NextOrdinal(t) == IF DOMAIN t = {} THEN 1 ELSE t[LastSeq(t)].e + 1

\* MAX(end_message); the code answers -1 for an empty table, 0 serves here
\* because it is only compared with ordinals and with itself.
LastEnd(t) == IF DOMAIN t = {} THEN 0
              ELSE LET i == CHOOSE i \in DOMAIN t :
                              \A j \in DOMAIN t : t[j].e <= t[i].e
                   IN t[i].e

\* validateStoredCompartments returns null: in sequence order the cells leave
\* no gap and no overlap, from message 1 on.
Contiguous(t) ==
  \A i \in DOMAIN t :
    /\ t[i].s <= t[i].e
    /\ t[i].s = IF \A j \in DOMAIN t : i <= j THEN 1
                ELSE t[PrevSeq(t, i)].e + 1

\* INSERT OR REPLACE of every row of u into t.
Overwrite(t, u) == [i \in DOMAIN t \cup DOMAIN u |->
                      IF i \in DOMAIN u THEN u[i] ELSE t[i]]

\* f is numbered q..r and splits the messages a..b in order.
Chain(f, q, r, a, b) ==
  /\ f[q].s = a
  /\ f[r].e = b
  /\ \A i \in q..r : /\ f[i].s <= f[i].e
                     /\ i > q => f[i].s = f[i - 1].e + 1

\* What a validated historian pass may return for the chunk that starts at
\* message a, when it consumes the messages up to b: compartments numbered
\* from q that cover a..b (validateParsedCompartments).
Splits(q, a, b) ==
  UNION { { f \in [q..(q + n - 1) -> [s : a..b, e : a..b]] :
              Chain(f, q, q + n - 1, a, b) } : n \in 1..MaxCells }
=============================================================================
