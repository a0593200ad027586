------------------------------- MODULE MCRowTS -------------------------------
(***************************************************************************)
(* Instances of RowTS for TLC.                                             *)
(***************************************************************************)
EXTENDS RowTS, TLC

CONSTANTS t1, t2, t3, x, y

rd(r) == [row |-> r, type |-> "RD"]
wr(r) == [row |-> r, type |-> "WR"]

\* Writers in opposite orders, a read before a write, two reads.
MCQueries == {<<wr(x), wr(y)>>, <<wr(y), wr(x)>>, <<rd(x), wr(y)>>,
              <<rd(y), rd(x)>>}
==============================================================================
