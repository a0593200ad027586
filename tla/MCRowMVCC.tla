------------------------------ MODULE MCRowMVCC ------------------------------
(***************************************************************************)
(* Instances of RowMVCC for TLC.                                           *)
(***************************************************************************)
EXTENDS RowMVCC, TLC

CONSTANTS t1, t2, x, y

rd(r) == [row |-> r, type |-> "RD"]
wr(r) == [row |-> r, type |-> "WR"]

\* Two writes, a read before a write, two reads.
MCQueries == {<<wr(y), wr(x)>>, <<rd(x), wr(y)>>, <<rd(y), rd(x)>>}

\* The state in which every run of the program begins.
Cold == [t \in Threads |-> UINT64_MAX]
==============================================================================
