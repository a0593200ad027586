------------------------------- MODULE MCPLock -------------------------------
(***************************************************************************)
(* Instances of PLock for TLC.                                             *)
(***************************************************************************)
EXTENDS PLock, TLC

CONSTANTS t1, t2, t3, p1, p2

rd(p) == [row |-> p, type |-> "RD"]
wr(p) == [row |-> p, type |-> "WR"]

\* Opposite orders, a partition that is only read, and a single partition.
MCQueries == {<<wr(p1), wr(p2)>>, <<wr(p2), rd(p1)>>, <<wr(p1)>>}
==============================================================================
