------------------------------ MODULE MCReorder ------------------------------
(***************************************************************************)
(* All programs of four blocks with two levels of contention.              *)
(***************************************************************************)
EXTENDS Reorder

MCConflicts == {1, 2}
==============================================================================
