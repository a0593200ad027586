------------------------------- MODULE Reorder -------------------------------
(***************************************************************************)
(* The ordering of the statements of a transaction by QURO (reorderCode,   *)
(* SORT_QUERIES): queries on contended tables go to the end, as far as     *)
(* the definitions and uses of the program's variables allow.              *)
(*                                                                         *)
(* The program is what the Clang front end and the analysis of reaching    *)
(* definitions leave of a transaction without branches and loops: blocks   *)
(* 1, 2, ... in their order in the source, and for each the blocks that    *)
(* define a variable it uses.  The renaming of variables that follows the  *)
(* ordering is not modelled.                                               *)
(***************************************************************************)
EXTENDS Naturals, Sequences, FiniteSets, SequencesExt, FiniteSetsExt

CONSTANTS N,          \* blocks of the program
          Conflicts   \* values of conflict_index

ASSUME ProgramAssumption == N \in Nat /\ Conflicts \subseteq Nat

Blocks == 1..N

VARIABLES
  \* the program, which does not change
  queries,         \* the blocks of type QUERY
  conflict_index,  \* block -> how contended its table is
  definers,        \* block -> those that define what it uses (isDefinedBy)
  \* reorderCode
  phase,           \* "sort" the queries, "emit" them, emit the "rest", "done"
  query_seq,       \* the order of the queries
  q_index,         \* how many of them are in tempQ
  processed_blocks,
  que,             \* the blocks that an emission has to get through
  limit,           \* the block the emission is for
  tempQ            \* the new program

program == <<queries, conflict_index, definers>>
vars == <<program, phase, query_seq, q_index, processed_blocks, que, limit, tempQ>>

Init ==
  /\ queries \in SUBSET Blocks
  /\ conflict_index \in [Blocks -> Conflicts \union {0}]
  /\ \A b \in Blocks : conflict_index[b] \in IF b \in queries THEN Conflicts ELSE {0}
  /\ definers \in [Blocks -> SUBSET Blocks]
  /\ \A b \in Blocks : definers[b] \subseteq 1..(b - 1)
  /\ phase = "sort"
  /\ query_seq = <<>> /\ q_index = 0
  /\ processed_blocks = {}
  /\ que = <<>> /\ limit = 0
  /\ tempQ = <<>>

------------------------------------------------------------------------------
(***************************************************************************)
(* The order of the queries                                                *)
(***************************************************************************)

\* Block -> those it depends on, directly or not.
Ancestors ==
  LET anc[b \in Blocks] == definers[b] \union UNION {anc[d] : d \in definers[b]} IN anc

\* Mutant of map_parent: only what the query uses itself.
map_parent_Direct(q) == definers[q] \intersect queries

\* The queries that have to come before q: those it uses, and all those that
\* the statements it uses depend on.
map_parent(q) ==
  queries \intersect
    (definers[q] \union UNION {Ancestors[d] : d \in definers[q] \ queries})

Ready(q) == map_parent(q) \subseteq processed_blocks

\* Mutant of NextQuery: a query that is not ready is not passed over.
NextQuery_First(q) ==
  LET left == queries \ processed_blocks
  IN q \in left /\ Ready(q) /\ \A p \in left : conflict_index[q] <= conflict_index[p]

\* The first query, in ascending order of conflict_index, that is ready.  sort
\* does not say which of two with the same index comes first.
NextQuery(q) ==
  LET ready == {p \in queries \ processed_blocks : Ready(p)}
  IN q \in ready /\ \A p \in ready : conflict_index[q] <= conflict_index[p]

SortQuery(q) ==
  /\ phase = "sort"
  /\ NextQuery(q)
  /\ query_seq' = Append(query_seq, q)
  /\ processed_blocks' = processed_blocks \union {q}
  /\ UNCHANGED <<program, phase, q_index, que, limit, tempQ>>

EndSort ==
  /\ phase = "sort" /\ processed_blocks = queries
  /\ phase' = "emit"
  /\ processed_blocks' = {}
  /\ UNCHANGED <<program, query_seq, q_index, que, limit, tempQ>>

------------------------------------------------------------------------------
(***************************************************************************)
(* The order of all blocks                                                 *)
(***************************************************************************)

Emitting == phase = "emit" /\ q_index < Len(query_seq)
cur_qblock == query_seq[q_index + 1]

\* The statements to emit now: those that the next query uses or, at the end,
\* all that are left.
Wanted ==
  (IF Emitting THEN definers[cur_qblock] \ queries ELSE Blocks) \ processed_blocks

\* The loop over the blocks comes to one of them.
WantBlock ==
  /\ Emitting \/ phase = "rest"
  /\ que = <<>> /\ Wanted # {}
  /\ limit' = Min(Wanted)
  /\ que' = <<Min(Wanted)>>
  /\ UNCHANGED <<program, phase, query_seq, q_index, processed_blocks, tempQ>>

\* Mutant of Missing: the block's own definitions are not looked at.
Missing_None(cb) == {}

\* What has to come before cb and is not there yet.
Missing(cb) == {d \in definers[cb] : d < limit} \ processed_blocks

\* The blocks of S in their order in the source.
InOrder(S) ==
  CHOOSE s \in [1..Cardinality(S) -> S] :
    \A i, j \in 1..Cardinality(S) : i < j => s[i] < s[j]

\* A block whose definers are all there is emitted, as often as it is in the
\* queue; another one goes to the end of the queue behind what it misses.
PopBlock ==
  /\ que # <<>>
  /\ LET cb == Head(que)
     IN IF Missing(cb) = {}
        THEN /\ tempQ' = Append(tempQ, cb)
             /\ processed_blocks' = processed_blocks \union {cb}
             /\ que' = Tail(que)
        ELSE /\ que' = Tail(que) \o InOrder(Missing(cb)) \o <<cb>>
             /\ UNCHANGED <<tempQ, processed_blocks>>
  /\ UNCHANGED <<program, phase, query_seq, q_index, limit>>

\* The statements that use the query's result and whose definers are all there
\* follow it at once, in their order in the source.
Followers(q, done) ==
  FoldLeft(LAMBDA out, b :
             IF b \notin queries /\ q \in definers[b]
                /\ definers[b] \subseteq done \union Range(out)
             THEN Append(out, b) ELSE out,
           <<>>, [b \in Blocks |-> b])

EmitQuery ==
  /\ Emitting
  /\ que = <<>> /\ Wanted = {}
  /\ LET done == processed_blocks \union {cur_qblock}
         next == Followers(cur_qblock, done)
     IN /\ tempQ' = Append(tempQ, cur_qblock) \o next
        /\ processed_blocks' = done \union Range(next)
  /\ q_index' = q_index + 1
  /\ UNCHANGED <<program, phase, query_seq, que, limit>>

\* All queries are emitted.
EndEmit ==
  /\ phase = "emit" /\ q_index = Len(query_seq)
  /\ phase' = "rest"
  /\ UNCHANGED <<program, query_seq, q_index, processed_blocks, que, limit, tempQ>>

EndRest ==
  /\ phase = "rest" /\ que = <<>> /\ Wanted = {}
  /\ phase' = "done"
  /\ UNCHANGED <<program, query_seq, q_index, processed_blocks, que, limit, tempQ>>

Next ==
  \/ \E q \in Blocks : SortQuery(q)
  \/ EndSort \/ WantBlock \/ PopBlock \/ EmitQuery \/ EndEmit \/ EndRest

\* reorderCode is a sequential program.
Spec == Init /\ [][Next]_vars /\ WF_vars(Next)

------------------------------------------------------------------------------
(***************************************************************************)
(* Correctness                                                             *)
(***************************************************************************)

\* Every block comes after all those that define a variable it uses, whichever
\* of the three ways it was emitted in (CBlocks.cpp:876, 922, 935).
DefinersFirst ==
  \A i \in DOMAIN tempQ : definers[tempQ[i]] \subseteq Range(SubSeq(tempQ, 1, i - 1))

\* A query p comes before a less contended one q only if p, or a query that is
\* as contended and comes later, is an ancestor of q: contention moves to the
\* end of the new program as far as it can, although the queries are emitted one
\* by one with the statements they need (CBlocks.cpp:830, 870).
ContendedLast ==
  \A i, j \in DOMAIN tempQ :
    LET p == tempQ[i]
        q == tempQ[j]
    IN i < j /\ {p, q} \subseteq queries /\ conflict_index[q] < conflict_index[p] =>
         \E k \in i..(j - 1) : /\ tempQ[k] \in Ancestors[q] \intersect queries
                               /\ conflict_index[tempQ[k]] >= conflict_index[p]

\* A statement may be emitted more than once, a query never is: it is not queued
\* behind a statement, since it was emitted before all that depend on it
\* (CBlocks.cpp:894, 906).
QueriesOnce ==
  \A i, j \in DOMAIN tempQ : tempQ[i] = tempQ[j] /\ tempQ[i] \in queries => i = j

\* QURO ends, with no statement of the program lost: the queue of blocks that
\* wait for their definers runs empty every time (CBlocks.cpp:885, 940).
NothingLost == <>(phase = "done" /\ Range(tempQ) = Blocks)
==============================================================================
