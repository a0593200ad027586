----------------------------- MODULE MCDLDetect -----------------------------
(***************************************************************************)
(* The instance of DLDetect for TLC: the transactions of one thread wait   *)
(* twice, those of the others once, and that thread has run for so long    *)
(* that its numbers are past 2^31.                                         *)
(***************************************************************************)
EXTENDS DLDetect

CONSTANTS t1, t2, t3

MCWaits == [t \in Threads |-> IF t = t1 THEN 2 ELSE 1]

MCSizes == [t \in Threads |-> {t = t1}]
==============================================================================
