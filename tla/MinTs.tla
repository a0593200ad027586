-------------------------------- MODULE MinTs --------------------------------
(***************************************************************************)
(* The timestamps of the Manager under MVCC: get_ts and add_ts by the      *)
(* workers, and get_min_ts, which scans all_ts without a latch while they  *)
(* go on, and which two threads that hold different rows may run at once.  *)
(* RowMVCC takes from here what get_min_ts may return.                     *)
(*                                                                         *)
(* MIN_TS_INTVL is any amount of time: a call may or may not scan.         *)
(***************************************************************************)
EXTENDS Naturals, FiniteSets

CONSTANTS Threads,   \* worker threads, numbered from 0
          FirstTs,   \* thread -> its entry in all_ts when the run begins
          MAX_TS     \* bound: the last timestamp that is given out

UINT64_MAX == MAX_TS + 1

ASSUME ThreadsAssumption ==
  IsFiniteSet(Threads) /\ Threads # {} /\ Threads = 0..Cardinality(Threads) - 1

\* A thread that has not run a transaction has the entry UINT64_MAX, others
\* have the timestamp of their last one.
ASSUME FirstTsAssumption ==
  /\ MAX_TS \in Nat
  /\ FirstTs \in [Threads -> 1..UINT64_MAX]
  /\ \A t, u \in Threads : FirstTs[t] = FirstTs[u] => t = u \/ FirstTs[t] = UINT64_MAX

VARIABLES timestamp,   \* the next timestamp
          all_ts,      \* thread -> the timestamp it has registered
          min_ts,      \* the last minimum
          ts,          \* thread -> the timestamp of its transaction
          min,         \* thread -> the minimum so far of its scan
          i,           \* thread -> the next entry it reads
          t_th,        \* thread -> what its last get_min_ts returned
          pc

vars == <<timestamp, all_ts, min_ts, ts, min, i, t_th, pc>>

PC == {"idle", "begin", "run", "scan"}

Init ==
  /\ timestamp \in 1..UINT64_MAX
  /\ \A t \in Threads : FirstTs[t] # UINT64_MAX => FirstTs[t] < timestamp
  /\ timestamp = 1 \/ \E t \in Threads : FirstTs[t] = timestamp - 1
  /\ all_ts = FirstTs
  /\ min_ts = 0
  /\ ts = FirstTs
  /\ min = [t \in Threads |-> UINT64_MAX]
  /\ i = [t \in Threads |-> 0]
  /\ t_th = [t \in Threads |-> 0]
  /\ pc = [t \in Threads |-> "idle"]

Goto(t, label) == pc' = [pc EXCEPT ![t] = label]

\* A transaction begins, in the first round or after an abort ...
get_ts(t) ==
  /\ pc[t] = "idle" /\ timestamp <= MAX_TS
  /\ ts' = [ts EXCEPT ![t] = timestamp]
  /\ timestamp' = timestamp + 1
  /\ Goto(t, "begin")
  /\ UNCHANGED <<all_ts, min_ts, min, i, t_th>>

\* Mutant of Registered: a new transaction takes its old entry away.
Registered_Late(t) == [all_ts EXCEPT ![t] = UINT64_MAX]

Registered(t) == [all_ts EXCEPT ![t] = ts[t]]

\* ... and registers.
add_ts(t) ==
  /\ pc[t] = "begin"
  /\ all_ts' = Registered(t)
  /\ Goto(t, "run")
  /\ UNCHANGED <<timestamp, min_ts, ts, min, i, t_th>>

\* An access of it wants to recycle: the minimum is recent enough, ...
UseLast(t) ==
  /\ pc[t] = "run"
  /\ t_th' = [t_th EXCEPT ![t] = min_ts]
  /\ UNCHANGED <<timestamp, all_ts, min_ts, ts, min, i, pc>>

\* ... or the entries are read one by one ...
StartScan(t) ==
  /\ pc[t] = "run"
  /\ min' = [min EXCEPT ![t] = UINT64_MAX]
  /\ i' = [i EXCEPT ![t] = 0]
  /\ Goto(t, "scan")
  /\ UNCHANGED <<timestamp, all_ts, min_ts, ts, t_th>>

ReadEntry(t) ==
  /\ pc[t] = "scan" /\ i[t] \in Threads
  /\ min' = [min EXCEPT ![t] = IF all_ts[i[t]] < @ THEN all_ts[i[t]] ELSE @]
  /\ i' = [i EXCEPT ![t] = @ + 1]
  /\ UNCHANGED <<timestamp, all_ts, min_ts, ts, t_th, pc>>

\* ... and the minimum is stored.
EndScan(t) ==
  /\ pc[t] = "scan" /\ i[t] \notin Threads
  /\ min_ts' = min[t]
  /\ t_th' = [t_th EXCEPT ![t] = min[t]]
  /\ Goto(t, "run")
  /\ UNCHANGED <<timestamp, all_ts, ts, min, i>>

\* The transaction ends; its entry stays.
EndTxn(t) == pc[t] = "run" /\ Goto(t, "idle") /\
             UNCHANGED <<timestamp, all_ts, min_ts, ts, min, i, t_th>>

Step(t) == \/ get_ts(t) \/ add_ts(t) \/ UseLast(t) \/ StartScan(t) \/ ReadEntry(t)
           \/ EndScan(t) \/ EndTxn(t)

Terminated == timestamp > MAX_TS /\ (\A t \in Threads : pc[t] = "idle") /\ UNCHANGED vars

Next == (\E t \in Threads : Step(t)) \/ Terminated

Spec == Init /\ [][Next]_vars

\* Thread t has drawn its first timestamp and not registered it yet.
Registering(t) == pc[t] = "begin" /\ all_ts[t] = UINT64_MAX

\* No scan reads the entry of a thread between the two.
OnTime == \A t \in Threads : ReadEntry(t) => ~ Registering(i[t])

OnTimeSpec == Init /\ [][Next /\ OnTime]_vars

------------------------------------------------------------------------------
\* What get_min_ts has returned is not greater than the timestamp of any
\* transaction that runs or is yet to register, although the entries are read
\* at different times and two scans may end in the wrong order: the versions
\* it allows to recycle are needed by nobody (manager.cpp:55-69).
MinSafe ==
  \A t, u \in Threads :
    t_th[t] <= all_ts[u] /\ (pc[u] \in {"begin", "run", "scan"} => t_th[t] <= ts[u])
==============================================================================
