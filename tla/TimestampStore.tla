--------------------------- MODULE TimestampStore ---------------------------
(***************************************************************************)
(* What the two timestamp ordering schemes of DBx1000 promise: committed   *)
(* transactions are serial in the order of their timestamps, whatever the  *)
(* order in which they commit.                                             *)
(*                                                                         *)
(* As in SerialStore a row is a counter and a write adds one to what it    *)
(* read, so what a transaction reads tells which writes it has seen.       *)
(***************************************************************************)
EXTENDS Naturals, FiniteSets

CONSTANTS Queries,     \* the transactions: sequences of [row, type] accesses
          Timestamps   \* what they are ordered by

VARIABLE log         \* the committed transactions, each [ts, query, saw]

Writes(q, r)  == \E i \in DOMAIN q : q[i].row = r /\ q[i].type = "WR"
Touches(q, r) == \E i \in DOMAIN q : q[i].row = r

\* The value of row r at timestamp ts.
Version(ts, r) == Cardinality({c \in log : c.ts < ts /\ Writes(c.query, r)})

Init == log = {}

\* A transaction commits at timestamp ts, unless one that is later in the
\* order has already read what it writes.
Commit(ts, q) ==
  /\ \A c \in log : c.ts # ts
  /\ \A c \in log, i \in DOMAIN q :
       q[i].type = "WR" /\ Touches(c.query, q[i].row) => c.ts < ts
  /\ log' = log \union
       {[ts |-> ts, query |-> q, saw |-> [i \in DOMAIN q |-> Version(ts, q[i].row)]]}

Next == \E ts \in Timestamps, q \in Queries : Commit(ts, q)

Spec == Init /\ [][Next]_log
==============================================================================
