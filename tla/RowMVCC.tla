------------------------------- MODULE RowMVCC -------------------------------
(***************************************************************************)
(* Multi-version timestamp ordering in DBx1000 (CC_ALG = MVCC): the        *)
(* manager of a row (Row_mvcc), the access path above it, the worker loop, *)
(* and the timestamps of the Manager that tell which versions may go.      *)
(*                                                                         *)
(* A row keeps the versions that were written and the timestamps that read *)
(* it, buffers prewrites and the reads that wait for them, and drops old   *)
(* history.  A transaction that reads holds a pointer into the versions    *)
(* until it ends.  Every Row_mvcc::access runs under the latch of the row  *)
(* and is one action; a thread that waits spins on ts_ready.               *)
(*                                                                         *)
(* The lists are kept in descending order of timestamps, so here they are  *)
(* sets.  MAX_PRE_REQ and MAX_READ_REQ (1024 requests per row, more than   *)
(* there are threads) are left out.                                        *)
(***************************************************************************)
EXTENDS Naturals, FiniteSets, SequencesExt

CONSTANTS Threads,          \* worker threads
          Rows,             \* rows of the database
          Queries,          \* sequences of [row, type], no row twice
          FirstTs,          \* thread -> its entry in all_ts when the run begins
          HIS_RECYCLE_LEN,  \* config.h: history that is not worth recycling
          PTS_BOUND,        \* where debuffer_req starts its search, 1 << 32
          MAX_TS            \* bound: the last timestamp that is given out

UINT64_MAX == MAX_TS + 1

ASSUME QueriesAssumption ==
  \A q \in Queries :
     /\ q \in Seq([row : Rows, type : {"RD", "WR"}])
     /\ \A i, j \in DOMAIN q : q[i].row = q[j].row => i = j

\* A thread that has not run a transaction has the entry UINT64_MAX, others
\* have the timestamp of their last one.
ASSUME FirstTsAssumption ==
  /\ FirstTs \in [Threads -> 1..UINT64_MAX]
  /\ \A t, u \in Threads : FirstTs[t] = FirstTs[u] => t = u \/ FirstTs[t] = UINT64_MAX

ASSUME ConfigAssumption ==
  HIS_RECYCLE_LEN \in Nat /\ PTS_BOUND \in Nat /\ MAX_TS \in Nat

VARIABLES
  \* Manager
  timestamp,   \* the next timestamp
  all_ts,      \* thread -> the timestamp it has registered
  \* Row_mvcc
  readreq, prereq,     \* row -> requests [txn, ts]
  readhis,             \* row -> timestamps that have read it
  writehis,            \* row -> versions [ts, data]
  base,                \* row -> _row: what is left of the older versions
  \* txn_man and thread_t
  ts,          \* thread -> its timestamp
  ts_ready,    \* thread -> its buffered read has been performed
  cur_row,     \* thread -> version its last read got (0: base)
  query,       \* thread -> the query it runs
  accesses,    \* thread -> its accesses, each [row, type, version, data]
  rc,          \* thread -> the argument of cleanup
  pc,          \* thread -> where it is in the code
  committed    \* history: the committed transactions

tsVars  == <<timestamp, all_ts, ts>>
rowVars == <<readreq, prereq, readhis, writehis, base>>
vars == <<tsVars, rowVars, ts_ready, cur_row, query, accesses, rc, pc, committed>>

PC == {"idle", "retry", "begin", "run", "read", "granted", "spin", "cleanup"}

Init ==
  /\ timestamp = CHOOSE n \in 1..UINT64_MAX :
       /\ \A t \in Threads : FirstTs[t] # UINT64_MAX => FirstTs[t] < n
       /\ n = 1 \/ \E t \in Threads : FirstTs[t] = n - 1
  /\ all_ts = FirstTs
  /\ readreq = [r \in Rows |-> {}]
  /\ prereq = [r \in Rows |-> {}]
  /\ readhis = [r \in Rows |-> {}]
  /\ writehis = [r \in Rows |-> {}]
  /\ base = [r \in Rows |-> 0]
  /\ ts = FirstTs
  /\ ts_ready = [t \in Threads |-> FALSE]
  /\ cur_row = [t \in Threads |-> 0]
  /\ query = [t \in Threads |-> <<>>]
  /\ accesses = [t \in Threads |-> <<>>]
  /\ rc = [t \in Threads |-> "RCOK"]
  /\ pc = [t \in Threads |-> "idle"]
  /\ committed = {}

------------------------------------------------------------------------------
(***************************************************************************)
(* Row_mvcc                                                                *)
(***************************************************************************)

Greatest(S) == CHOOSE n \in S : \A k \in S : k <= n
Least(S)    == CHOOSE n \in S : \A k \in S : n <= k

\* No version was written between a prewrite and a read.
NoneBetween(r, pts, rts) == \A v \in writehis[r] : ~ (pts < v.ts /\ v.ts < rts)

\* A read conflicts with the last prewrite before it.
conflict_read(r, n) ==
  LET P == {p.ts : p \in {q \in prereq[r] : q.ts < n}}
  IN P # {} /\ NoneBetween(r, Greatest(P), n)

\* A prewrite conflicts with the first read after it.
conflict_prewrite(r, n) ==
  LET R == {k \in readhis[r] : k > n}
  IN R # {} /\ NoneBetween(r, n, Least(R))

\* Mutant of VersionAt: the versions are searched from the wrong end.
VersionAt_First(W, n) ==
  IF \E v \in W : v.ts <= n THEN Least({v.ts : v \in W}) ELSE 0

\* The version of the versions W that a read at n gets; 0 stands for _row.
VersionAt(W, n) ==
  IF \E v \in W : v.ts <= n
  THEN Greatest({v.ts : v \in {w \in W : w.ts <= n}}) ELSE 0

\* Mutant of Runnable: a read of the limit's own timestamp stays.
Runnable_Before(P, reads) ==
  {e \in reads : e.ts < Least({p.ts : p \in P} \union {PTS_BOUND})}

\* The buffered reads that debuffer_req finds free of the prewrites P.
Runnable(P, reads) ==
  {e \in reads : e.ts <= Least({p.ts : p \in P} \union {PTS_BOUND})}

\* Mutant of Kept: the version that the oldest transaction reads goes, too.
Kept_Newer(H, n) == {h \in H : h >= n}

\* What clear_history leaves of the timestamps H: from n on, and the last one
\* before n.
Kept(H, n) == {h \in H : h >= n \/ \A k \in H : k < n => k <= h}

\* What get_min_ts may return: the least entry of all_ts, or what that was
\* when it was last computed, or anything between as the scan goes on (MinTs;
\* a scan that misses a first timestamp may even store more).
MinTs == 0..Least({all_ts[t] : t \in Threads})

\* The end of access: with reads R and versions W of row r, history that is
\* long enough is cut off at some minimum.
Recycled(r, R, W) ==
  IF Cardinality(W) <= HIS_RECYCLE_LEN /\ Cardinality(R) <= HIS_RECYCLE_LEN
  THEN /\ readhis' = [readhis EXCEPT ![r] = R]
       /\ writehis' = [writehis EXCEPT ![r] = W]
       /\ UNCHANGED base
  ELSE \E n \in MinTs :
         LET kept    == Kept({v.ts : v \in W}, n)
             dropped == {v \in W : v.ts \notin kept}
         IN /\ readhis' = [readhis EXCEPT ![r] = Kept(R, n)]
            /\ writehis' = [writehis EXCEPT ![r] = W \ dropped]
            /\ base' = IF dropped = {} THEN base
                       ELSE [base EXCEPT ![r] =
                         (CHOOSE v \in dropped :
                            \A w \in dropped : w.ts <= v.ts).data]

\* update_buffer: with prewrites P and versions W, the reads that can are
\* performed, then the history is cut.
Released(r, P, W) ==
  LET reads == Runnable(P, readreq[r])
      Got(t) == {e \in reads : e.txn = t}
  IN /\ prereq' = [prereq EXCEPT ![r] = P]
     /\ readreq' = [readreq EXCEPT ![r] = @ \ reads]
     /\ ts_ready' = [t \in Threads |-> ts_ready[t] \/ Got(t) # {}]
     /\ cur_row' = [t \in Threads |->
          IF Got(t) # {} THEN VersionAt(W, ts[t]) ELSE cur_row[t]]
     /\ Recycled(r, readhis[r] \union {e.ts : e \in reads}, W)

------------------------------------------------------------------------------
(***************************************************************************)
(* The transaction                                                         *)
(***************************************************************************)

Goto(t, label) == pc' = [pc EXCEPT ![t] = label]

\* The worker takes the next query, or the aborted one again; every attempt
\* draws a timestamp of its own, ...
StartTxn(t) ==
  /\ pc[t] \in {"idle", "retry"} /\ timestamp <= MAX_TS
  /\ \E q \in (IF pc[t] = "idle" THEN Queries ELSE {query[t]}) :
       query' = [query EXCEPT ![t] = q]
  /\ ts' = [ts EXCEPT ![t] = timestamp]
  /\ timestamp' = timestamp + 1
  /\ Goto(t, "begin")
  /\ UNCHANGED <<all_ts, rowVars, ts_ready, cur_row, accesses, rc, committed>>

\* ... and registers it a little later.
add_ts(t) ==
  /\ pc[t] = "begin"
  /\ all_ts' = [all_ts EXCEPT ![t] = ts[t]]
  /\ Goto(t, "run")
  /\ UNCHANGED <<timestamp, ts, rowVars, ts_ready, cur_row, query, accesses, rc,
                 committed>>

Cur(t) == query[t][Len(accesses[t]) + 1]
Row(t) == Cur(t).row

Requests(t) == pc[t] = "run" /\ Len(accesses[t]) < Len(query[t])

\* A write announces itself with a P_REQ ...
Prewrite(t) ==
  /\ Requests(t) /\ Cur(t).type = "WR" /\ ~ conflict_prewrite(Row(t), ts[t])
  /\ prereq' = [prereq EXCEPT ![Row(t)] = @ \union {[txn |-> t, ts |-> ts[t]]}]
  /\ Recycled(Row(t), readhis[Row(t)], writehis[Row(t)])
  /\ Goto(t, "read")
  /\ UNCHANGED <<tsVars, readreq, ts_ready, cur_row, query, accesses, rc, committed>>

\* ... that may come too late.
PrewriteAborts(t) ==
  /\ Requests(t) /\ Cur(t).type = "WR" /\ conflict_prewrite(Row(t), ts[t])
  /\ rc' = [rc EXCEPT ![t] = "Abort"]
  /\ Goto(t, "cleanup")
  /\ UNCHANGED <<tsVars, rowVars, ts_ready, cur_row, query, accesses, committed>>

\* Every access then makes an R_REQ.
Reads(t) == pc[t] = "read" \/ (Requests(t) /\ Cur(t).type = "RD")

\* It gets its version at once ...
ReadRow(t) ==
  /\ Reads(t) /\ ~ conflict_read(Row(t), ts[t])
  /\ cur_row' = [cur_row EXCEPT ![t] = VersionAt(writehis[Row(t)], ts[t])]
  /\ Recycled(Row(t), readhis[Row(t)] \union {ts[t]}, writehis[Row(t)])
  /\ Goto(t, "granted")
  /\ UNCHANGED <<tsVars, readreq, prereq, ts_ready, query, accesses, rc, committed>>

\* ... or waits.
ReadWaits(t) ==
  /\ Reads(t) /\ conflict_read(Row(t), ts[t])
  /\ readreq' = [readreq EXCEPT ![Row(t)] = @ \union {[txn |-> t, ts |-> ts[t]]}]
  /\ ts_ready' = [ts_ready EXCEPT ![t] = FALSE]
  /\ Goto(t, "spin")
  /\ UNCHANGED <<tsVars, prereq, readhis, writehis, base, cur_row, query, accesses,
                 rc, committed>>

\* The value behind a pointer; that of a version that is gone is arbitrary.
Deref(r, version) ==
  IF version = 0 THEN base[r]
  ELSE IF \E v \in writehis[r] : v.ts = version
  THEN (CHOOSE v \in writehis[r] : v.ts = version).data
  ELSE UINT64_MAX

\* The read has ended: the version is used, and copied for a write.
UseRow(t) ==
  /\ pc[t] = "granted" \/ (pc[t] = "spin" /\ ts_ready[t])
  /\ accesses' = [accesses EXCEPT ![t] =
       Append(@, [row |-> Row(t), type |-> Cur(t).type, version |-> cur_row[t],
                  data |-> Deref(Row(t), cur_row[t])])]
  /\ Goto(t, "run")
  /\ UNCHANGED <<tsVars, rowVars, ts_ready, cur_row, query, rc, committed>>

\* run_txn calls finish(RCOK).
FinishTxn(t) ==
  /\ pc[t] = "run" /\ Len(accesses[t]) = Len(query[t])
  /\ rc' = [rc EXCEPT ![t] = "RCOK"]
  /\ committed' = committed \union
       {[ts |-> ts[t], query |-> query[t],
         saw |-> [i \in DOMAIN accesses[t] |-> accesses[t][i].data]]}
  /\ Goto(t, "cleanup")
  /\ UNCHANGED <<tsVars, rowVars, ts_ready, cur_row, query, accesses>>

\* The versions after access a was returned: W_REQ adds one, XP_REQ does not.
Versions(t, a) ==
  IF rc[t] = "Abort" THEN writehis[a.row]
  ELSE writehis[a.row] \union {[ts |-> ts[t], data |-> a.data + 1]}

\* One turn of cleanup's loop.
ReturnRow(t) ==
  /\ pc[t] = "cleanup" /\ accesses[t] # <<>>
  /\ LET a == Last(accesses[t])
     IN IF a.type = "WR"
        THEN Released(a.row, {p \in prereq[a.row] : p.txn # t}, Versions(t, a))
        ELSE UNCHANGED <<rowVars, ts_ready, cur_row>>
  /\ accesses' = [accesses EXCEPT ![t] = Front(@)]
  /\ UNCHANGED <<tsVars, query, rc, pc, committed>>

TxnEnds(t) ==
  /\ pc[t] = "cleanup" /\ accesses[t] = <<>>
  /\ Goto(t, IF rc[t] = "Abort" THEN "retry" ELSE "idle")
  /\ UNCHANGED <<tsVars, rowVars, ts_ready, cur_row, query, accesses, rc, committed>>

Step(t) == \/ StartTxn(t) \/ add_ts(t) \/ Prewrite(t) \/ PrewriteAborts(t)
           \/ ReadRow(t) \/ ReadWaits(t) \/ UseRow(t) \/ FinishTxn(t)
           \/ ReturnRow(t) \/ TxnEnds(t)

\* The bound is reached and every transaction has ended.
Terminated ==
  /\ timestamp > MAX_TS /\ \A t \in Threads : pc[t] \in {"idle", "retry"}
  /\ UNCHANGED vars

Next == (\E t \in Threads : Step(t)) \/ Terminated

Spec == Init /\ [][Next]_vars

\* Thread t has drawn its first timestamp and not registered it yet: get_min_ts
\* takes it for a thread without a transaction.
Registering(t) == pc[t] = "begin" /\ all_ts[t] = UINT64_MAX

\* No history is cut between the two, a few instructions of each thread.
OnTime ==
  (\E t \in Threads : Registering(t)) =>
    \A r \in Rows : readhis[r] \subseteq readhis'[r] /\ writehis[r] \subseteq writehis'[r]

OnTimeSpec == Init /\ [][Next /\ OnTime]_vars

\* Worker threads keep running; nothing else is assumed.  A thread that registers
\* does so at last, so OnTime keeps nobody from its step for ever.
FairSpec == OnTimeSpec /\ \A t \in Threads : WF_vars(Step(t))

------------------------------------------------------------------------------
(***************************************************************************)
(* Correctness                                                             *)
(***************************************************************************)

Stamp   == 0..UINT64_MAX
Request == [txn : Threads, ts : Stamp]

\* Every variable has the type of the field it stands for; in particular no
\* transaction has got a value through a dangling pointer.
TypeOK ==
  /\ timestamp \in 1..UINT64_MAX /\ all_ts \in [Threads -> Stamp]
  /\ readreq \in [Rows -> SUBSET Request] /\ prereq \in [Rows -> SUBSET Request]
  /\ readhis \in [Rows -> SUBSET Stamp]
  /\ \A r \in Rows : writehis[r] \subseteq [ts : Stamp, data : 0..MAX_TS]
  /\ base \in [Rows -> 0..MAX_TS]
  /\ ts \in [Threads -> Stamp] /\ ts_ready \in [Threads -> BOOLEAN]
  /\ cur_row \in [Threads -> Stamp]
  /\ query \in [Threads -> Queries \union {<<>>}]
  /\ accesses \in [Threads ->
       Seq([row : Rows, type : {"RD", "WR"}, version : Stamp, data : 0..MAX_TS])]
  /\ rc \in [Threads -> {"RCOK", "Abort"}] /\ pc \in [Threads -> PC]

\* The version a running transaction reads is not recycled: its pointer still
\* leads to what it led to, whatever the others write and cut off
\* (row_mvcc.cpp:281-299).
VersionsKept ==
  \A t \in Threads : \A i \in DOMAIN accesses[t] :
    LET a == accesses[t][i]
    IN pc[t] # "cleanup" /\ a.type = "RD" => Deref(a.row, a.version) = a.data

\* Thread t has announced a write to row r and not yet returned it.
Announced(t, r) ==
  \/ \E i \in DOMAIN accesses[t] :
       accesses[t][i].row = r /\ accesses[t][i].type = "WR"
  \/ pc[t] \in {"read", "granted", "spin"} /\ Cur(t) = [row |-> r, type |-> "WR"]

\* The prewrites of a row are those of the running transactions that write it,
\* and a reader that waits, waits for a smaller one of them: no wake-up is
\* lost (row_mvcc.cpp:310).
NoLostWakeup ==
  /\ \A r \in Rows :
       /\ prereq[r] = {[txn |-> t, ts |-> ts[t]] :
                         t \in {u \in Threads : Announced(u, r)}}
       /\ \A e \in readreq[r] : \E p \in prereq[r] : p.ts < e.ts
  /\ \A t \in Threads :
       pc[t] = "spin" /\ ~ ts_ready[t] =>
         [txn |-> t, ts |-> ts[t]] \in readreq[Row(t)]

Ordered == INSTANCE TimestampStore WITH log <- committed, Timestamps <- Stamp

\* Committed transactions are serial in the order of their timestamps, also
\* when they read versions older than what others have written meanwhile: they
\* implement TimestampStore.
TimestampOrder == Ordered!Spec

\* A thread that waits for older transactions does not wait for ever.
WaitEnds == \A t \in Threads : pc[t] = "spin" ~> pc[t] # "spin"
==============================================================================
