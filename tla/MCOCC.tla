-------------------------------- MODULE MCOCC --------------------------------
(***************************************************************************)
(* Instances of OCC for TLC.                                               *)
(***************************************************************************)
EXTENDS OCC, TLC

CONSTANTS t1, t2, x, y

rd(r) == [row |-> r, type |-> "RD"]
wr(r) == [row |-> r, type |-> "WR"]

MCKey == x :> 1 @@ y :> 2

\* Write skew, opposite orders, and a transaction that only reads.
MCQueries == {<<wr(y), wr(x)>>, <<rd(x), wr(y)>>, <<rd(y), wr(x)>>,
              <<rd(y), rd(x)>>}
==============================================================================
