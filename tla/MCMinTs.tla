------------------------------- MODULE MCMinTs -------------------------------
(***************************************************************************)
(* Instances of MinTs for TLC.                                             *)
(***************************************************************************)
EXTENDS MinTs

Three == 0..2

\* No thread has run a transaction.
Cold == [t \in Threads |-> UINT64_MAX]
==============================================================================
