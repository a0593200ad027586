------------------------------ MODULE MCRowLock ------------------------------
(***************************************************************************)
(* Instances of RowLock for TLC.                                           *)
(***************************************************************************)
EXTENDS RowLock, TLC

CONSTANTS t1, t2, t3, x, y

rd(r) == [row |-> r, type |-> "RD"]
wr(r) == [row |-> r, type |-> "WR"]
sc(r) == [row |-> r, type |-> "SCAN"]

MCThreads == {t1, t2, t3}
MCRows == {x, y}

\* Both orders of two writes, a reader that upgrades nothing, a read before a
\* write in each order, and a transaction of a single read.
MCQueries == {<<wr(x), wr(y)>>, <<wr(y), wr(x)>>, <<rd(x), wr(y)>>,
              <<rd(y), rd(x)>>, <<sc(x)>>}

\* The timestamps wait-die is meant for: one per thread.
DistinctTs == t1 :> 1 @@ t2 :> 2 @@ t3 :> 3

\* The timestamps the workers have: txn_man::timestamp is never set.
CodeTs == [t \in Threads |-> 0]

Perms == Permutations(Threads)
==============================================================================
