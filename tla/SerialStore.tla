----------------------------- MODULE SerialStore -----------------------------
(***************************************************************************)
(* What every concurrency control scheme of DBx1000 promises its           *)
(* transactions: a committed transaction behaves as if it had run alone,   *)
(* at one instant, on a store that holds the writes of the transactions    *)
(* committed before it and nothing else.                                   *)
(*                                                                         *)
(* The store is a counter per row; a write adds one to the counter it      *)
(* read, as the TPC-C transactions do with D_NEXT_O_ID or W_YTD.  So a     *)
(* lost, dirty or unrepeatable access shows in the values read.            *)
(***************************************************************************)
EXTENDS Naturals

CONSTANTS Threads,   \* the worker threads, each running one transaction
          Rows,      \* the rows of the database
          Queries    \* the transactions: sequences of [row, type] accesses

VARIABLES store,     \* the committed value of every row
          out        \* what the last committed transaction of a thread read

vars == <<store, out>>

\* The value of `out` for a thread that has not committed anything.
NoOutput == [query |-> <<>>, saw |-> <<>>]

Writes(q, r) == \E i \in DOMAIN q : q[i].row = r /\ q[i].type = "WR"

Init == /\ store = [r \in Rows |-> 0]
        /\ out = [t \in Threads |-> NoOutput]

\* Query q runs in isolation on behalf of thread t.
Commit(t, q) ==
  /\ out' = [out EXCEPT ![t] =
               [query |-> q, saw |-> [i \in DOMAIN q |-> store[q[i].row]]]]
  /\ store' = [r \in Rows |-> IF Writes(q, r) THEN store[r] + 1 ELSE store[r]]

Next == \E t \in Threads, q \in Queries : Commit(t, q)

Spec == Init /\ [][Next]_vars
==============================================================================
