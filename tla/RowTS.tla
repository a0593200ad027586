-------------------------------- MODULE RowTS --------------------------------
(***************************************************************************)
(* Basic timestamp ordering in DBx1000 (CC_ALG = TIMESTAMP): the manager   *)
(* of a row (Row_ts), the access path above it and the worker loop.        *)
(*                                                                         *)
(* A row keeps the timestamps of its last read and write, and buffers of   *)
(* prewrites, reads and writes.  A write announces itself with a prewrite; *)
(* a read waits for the prewrites of smaller timestamps.  Every            *)
(* Row_ts::access runs under the latch of the row (or of its hash bucket,  *)
(* with CENTRAL_MAN) and is one action; a thread that waits spins on       *)
(* ts_ready.                                                               *)
(*                                                                         *)
(* The buffers are sets: of their order nothing depends.                   *)
(***************************************************************************)
EXTENDS Naturals, FiniteSets, SequencesExt

CONSTANTS Threads,   \* worker threads
          Rows,      \* rows of the database
          Queries,   \* sequences of [row, type], no row twice
          TS_TWR,    \* config.h: Thomas' write rule
          MAX_TS     \* bound: the last timestamp that is given out

ASSUME QueriesAssumption ==
  \A q \in Queries :
     /\ q \in Seq([row : Rows, type : {"RD", "WR"}])
     /\ \A i, j \in DOMAIN q : q[i].row = q[j].row => i = j

ASSUME ConfigAssumption == TS_TWR \in BOOLEAN /\ MAX_TS \in Nat

VARIABLES
  timestamp,   \* Manager: the next timestamp
  manager,     \* row -> its Row_ts, with the value of the row
  ts,          \* txn_man: timestamp
  ts_ready,    \* thread -> its buffered read has been performed
  cur_row,     \* thread -> the copy the last read made
  query,       \* thread -> the query it runs
  accesses,    \* thread -> its accesses, each [row, type, data]
  rc,          \* thread -> the argument of cleanup
  pc,          \* thread -> where it is in the code
  committed    \* history: the committed transactions

threadVars == <<timestamp, ts, query>>
vars == <<timestamp, manager, ts, ts_ready, cur_row, query, accesses, rc, pc,
          committed>>

PC == {"idle", "retry", "run", "read", "spin", "cleanup"}

UINT64_MAX == MAX_TS + 1

Init ==
  /\ timestamp = 1
  /\ manager = [r \in Rows |->
       [wts |-> 0, rts |-> 0, min_rts |-> UINT64_MAX, min_pts |-> UINT64_MAX,
        readreq |-> {}, writereq |-> {}, prereq |-> {}, data |-> 0]]
  /\ ts = [t \in Threads |-> 0]
  /\ ts_ready = [t \in Threads |-> FALSE]
  /\ cur_row = [t \in Threads |-> 0]
  /\ query = [t \in Threads |-> <<>>]
  /\ accesses = [t \in Threads |-> <<>>]
  /\ rc = [t \in Threads |-> "RCOK"]
  /\ pc = [t \in Threads |-> "idle"]
  /\ committed = {}

------------------------------------------------------------------------------
(***************************************************************************)
(* Row_ts, as functions on the state m of a manager                        *)
(***************************************************************************)

Lesser(a, b) == IF a < b THEN a ELSE b

\* The least timestamp of a buffer.
cal_min(buffer) ==
  CHOOSE n \in {e.ts : e \in buffer} \union {UINT64_MAX} :
    \A e \in buffer : n <= e.ts

buffer_read(m, t) ==
  [m EXCEPT !.readreq = @ \union {[txn |-> t, ts |-> ts[t]]},
            !.min_rts = Lesser(@, ts[t])]

buffer_prewrite(m, t) ==
  [m EXCEPT !.prereq = @ \union {[txn |-> t, ts |-> ts[t]]},
            !.min_pts = Lesser(@, ts[t])]

buffer_write(m, t, row) ==
  [m EXCEPT !.writereq = @ \union {[txn |-> t, ts |-> ts[t], row |-> row]}]

debuffer_prewrite(m, t) == [m EXCEPT !.prereq = {e \in @ : e.txn # t}]

\* Mutant of due: a request of the limit's own timestamp stays.
due_Before(buffer, limit) == {e \in buffer : e.ts < limit}

\* The requests of a buffer that are let through up to a timestamp.
due(buffer, limit) == {e \in buffer : e.ts <= limit}

\* update_buffer performs the reads that wait for no prewrite any more ...
perform_reads(m, reads) ==
  [m EXCEPT !.readreq = @ \ reads,
            !.rts = IF reads = {} THEN @
                    ELSE CHOOSE n \in {@} \union {e.ts : e \in reads} :
                           n >= @ /\ \A e \in reads : n >= e.ts,
            !.min_rts = IF reads = {} THEN @ ELSE cal_min(m.readreq \ reads)]

\* ... and of the writes that wait for no read the one of the least timestamp.
perform_writes(m, writes) ==
  IF writes = {} THEN m
  ELSE LET young == CHOOSE e \in writes : e.ts = cal_min(writes)
       IN [m EXCEPT !.writereq = @ \ writes,
                    !.prereq = {e \in @ : \A w \in writes : e.txn # w.txn},
                    !.data = young.row,
                    !.wts = IF @ < young.ts THEN young.ts ELSE @]

\* One turn of its loop, with the reads it performs and the value they get.
\* A turn after the last one changes nothing.
turn(s) ==
  LET m1    == [s.m EXCEPT !.min_pts = cal_min(s.m.prereq)]
      reads == IF m1.min_pts > s.m.min_pts THEN due(m1.readreq, m1.min_pts) ELSE {}
      m2    == perform_reads(m1, reads)
  IN [m |-> IF m2.min_rts > m1.min_rts
            THEN perform_writes(m2, due(m2.writereq, m2.min_rts)) ELSE m2,
      reads |-> s.reads \union
                  {[txn |-> e.txn, data |-> s.m.data] : e \in reads}]

\* Every turn but the last one takes a prewrite away.  (Each set has the one
\* member that TLC is to compute once.)
update_buffer(m) ==
  LET s[n \in 0..Cardinality(m.prereq) + 1] ==
        IF n = 0 THEN [m |-> m, reads |-> {}]
        ELSE CHOOSE v \in {turn(u) : u \in {s[n - 1]}} : TRUE
  IN s[Cardinality(m.prereq) + 1]

\* The manager of row r becomes s.m, and the reads of s have been performed.
Released(r, s) ==
  /\ manager' = [manager EXCEPT ![r] = s.m]
  /\ ts_ready' = [t \in Threads |->
                    ts_ready[t] \/ \E e \in s.reads : e.txn = t]
  /\ cur_row' = [t \in Threads |->
       IF \E e \in s.reads : e.txn = t
       THEN (CHOOSE e \in s.reads : e.txn = t).data ELSE cur_row[t]]

------------------------------------------------------------------------------
(***************************************************************************)
(* The transaction                                                         *)
(***************************************************************************)

Goto(t, label) == pc' = [pc EXCEPT ![t] = label]

\* The worker takes the next query, or the aborted one again, with a timestamp
\* of its own for every attempt.
StartTxn(t) ==
  /\ pc[t] \in {"idle", "retry"} /\ timestamp <= MAX_TS
  /\ \E q \in (IF pc[t] = "idle" THEN Queries ELSE {query[t]}) :
       query' = [query EXCEPT ![t] = q]
  /\ ts' = [ts EXCEPT ![t] = timestamp]
  /\ timestamp' = timestamp + 1
  /\ Goto(t, "run")
  /\ UNCHANGED <<manager, ts_ready, cur_row, accesses, rc, committed>>

Cur(t) == query[t][Len(accesses[t]) + 1]
M(t)   == manager[Cur(t).row]

Requests(t) == pc[t] = "run" /\ Len(accesses[t]) < Len(query[t])

\* get_row returned NULL: the access is not recorded.
AbortTxn(t) == rc' = [rc EXCEPT ![t] = "Abort"] /\ Goto(t, "cleanup")

\* Mutant of MayPrewrite: the last read is not looked at.
MayPrewrite_Write(t) == ts[t] >= M(t).wts

\* A prewrite comes too late when a younger transaction has read or written.
MayPrewrite(t) == ts[t] >= M(t).rts /\ (TS_TWR \/ ts[t] >= M(t).wts)

\* A write announces itself with a P_REQ.
Prewrite(t) ==
  /\ Requests(t) /\ Cur(t).type = "WR"
  /\ IF MayPrewrite(t)
     THEN /\ manager' = [manager EXCEPT ![Cur(t).row] = buffer_prewrite(@, t)]
          /\ Goto(t, "read") /\ UNCHANGED rc
     ELSE AbortTxn(t) /\ UNCHANGED manager
  /\ UNCHANGED <<threadVars, ts_ready, cur_row, accesses, committed>>

\* Every access then makes an R_REQ.
Reads(t) == pc[t] = "read" \/ (Requests(t) /\ Cur(t).type = "RD")

MustWait(t) == ts[t] > M(t).min_pts

Recorded(t, row) ==
  /\ accesses' = [accesses EXCEPT ![t] =
       Append(@, [row |-> Cur(t).row, type |-> Cur(t).type, data |-> row])]
  /\ Goto(t, "run")

\* Mutant of NewRts: the read leaves no trace.
NewRts_Kept(t) == M(t).rts

NewRts(t) == IF M(t).rts < ts[t] THEN ts[t] ELSE M(t).rts

\* The R_REQ is granted and the row copied, ...
ReadRow(t) ==
  /\ Reads(t) /\ ts[t] >= M(t).wts /\ ~ MustWait(t)
  /\ manager' = [manager EXCEPT ![Cur(t).row].rts = NewRts(t)]
  /\ cur_row' = [cur_row EXCEPT ![t] = M(t).data]
  /\ Recorded(t, M(t).data)
  /\ UNCHANGED <<threadVars, ts_ready, rc, committed>>

\* ... buffered, ...
ReadWaits(t) ==
  /\ Reads(t) /\ ts[t] >= M(t).wts /\ MustWait(t)
  /\ manager' = [manager EXCEPT ![Cur(t).row] = buffer_read(@, t)]
  /\ ts_ready' = [ts_ready EXCEPT ![t] = FALSE]
  /\ Goto(t, "spin")
  /\ UNCHANGED <<threadVars, cur_row, accesses, rc, committed>>

\* ... or refused.
ReadAborts(t) ==
  /\ Reads(t) /\ ts[t] < M(t).wts
  /\ AbortTxn(t)
  /\ UNCHANGED <<threadVars, manager, ts_ready, cur_row, accesses, committed>>

\* The thread sees ts_ready.
LeaveSpin(t) ==
  /\ pc[t] = "spin" /\ ts_ready[t]
  /\ Recorded(t, cur_row[t])
  /\ UNCHANGED <<threadVars, manager, ts_ready, cur_row, rc, committed>>

\* run_txn calls finish(RCOK).
FinishTxn(t) ==
  /\ pc[t] = "run" /\ Len(accesses[t]) = Len(query[t])
  /\ rc' = [rc EXCEPT ![t] = "RCOK"]
  /\ committed' = committed \union
       {[ts |-> ts[t], query |-> query[t],
         saw |-> [i \in DOMAIN accesses[t] |-> accesses[t][i].data]]}
  /\ Goto(t, "cleanup")
  /\ UNCHANGED <<threadVars, manager, ts_ready, cur_row, accesses>>

------------------------------------------------------------------------------
(***************************************************************************)
(* cleanup                                                                 *)
(***************************************************************************)

\* Mutant of write_row: the row keeps the timestamp of its last write.
write_row_Wts(m, t, row) ==
  update_buffer(debuffer_prewrite([m EXCEPT !.data = row], t))

\* A W_REQ that is performed at once.
write_row(m, t, row) ==
  update_buffer(debuffer_prewrite(
    [m EXCEPT !.data = row, !.wts = IF @ < ts[t] THEN ts[t] ELSE @], t))

\* Mutant of XP_REQ: the reads that waited for t are not released.
XP_REQ_Forgets(m, t) == [m |-> debuffer_prewrite(m, t), reads |-> {}]

\* An aborted transaction takes its prewrite back.
XP_REQ(m, t) == update_buffer(debuffer_prewrite(m, t))

\* A committed one asks to write; the write may be stale or have to wait.
W_REQ(m, t, row) ==
  IF TS_TWR /\ ts[t] < m.wts THEN XP_REQ(m, t)
  ELSE IF (~ TS_TWR /\ ts[t] > m.min_pts) \/ ts[t] > m.min_rts
  THEN [m |-> buffer_write(m, t, row), reads |-> {}]
  ELSE write_row(m, t, row)

\* One turn of the loop: the last access is returned.
ReturnRow(t) ==
  /\ pc[t] = "cleanup" /\ accesses[t] # <<>>
  /\ LET a == Last(accesses[t])
     IN IF a.type = "WR"
        THEN \E s \in {IF rc[t] = "Abort" THEN XP_REQ(manager[a.row], t)
                       ELSE W_REQ(manager[a.row], t, a.data + 1)} :
               Released(a.row, s)
        ELSE UNCHANGED <<manager, ts_ready, cur_row>>
  /\ accesses' = [accesses EXCEPT ![t] = Front(@)]
  /\ UNCHANGED <<threadVars, rc, pc, committed>>

TxnEnds(t) ==
  /\ pc[t] = "cleanup" /\ accesses[t] = <<>>
  /\ Goto(t, IF rc[t] = "Abort" THEN "retry" ELSE "idle")
  /\ UNCHANGED <<threadVars, manager, ts_ready, cur_row, accesses, rc, committed>>

Step(t) == \/ StartTxn(t) \/ Prewrite(t) \/ ReadRow(t) \/ ReadWaits(t)
           \/ ReadAborts(t) \/ LeaveSpin(t) \/ FinishTxn(t) \/ ReturnRow(t)
           \/ TxnEnds(t)

\* The bound is reached and every transaction has ended.
Terminated ==
  /\ timestamp > MAX_TS /\ \A t \in Threads : pc[t] \in {"idle", "retry"}
  /\ UNCHANGED vars

Next == (\E t \in Threads : Step(t)) \/ Terminated

Spec == Init /\ [][Next]_vars

\* Worker threads keep running; nothing else is assumed.
FairSpec == Spec /\ \A t \in Threads : WF_vars(Step(t))

------------------------------------------------------------------------------
(***************************************************************************)
(* Correctness                                                             *)
(***************************************************************************)

Stamp   == 0..UINT64_MAX
Request == [txn : Threads, ts : Stamp]

\* Every variable has the type of the field it stands for.  A row was never
\* written later than it was read: every write comes with a read, so that the
\* check that TS_TWR leaves out (row_ts.cpp:182) is implied by the first one.
TypeOK ==
  /\ timestamp \in 1..UINT64_MAX
  /\ \A r \in Rows :
       /\ DOMAIN manager[r] = {"wts", "rts", "min_rts", "min_pts", "readreq",
                               "writereq", "prereq", "data"}
       /\ manager[r].rts \in 0..timestamp - 1
       /\ manager[r].wts \in 0..manager[r].rts
       /\ {manager[r].min_rts, manager[r].min_pts} \subseteq Stamp
       /\ manager[r].readreq \subseteq Request
       /\ manager[r].prereq \subseteq Request
       /\ manager[r].writereq \subseteq [txn : Threads, ts : Stamp, row : 0..MAX_TS]
       /\ manager[r].data \in 0..MAX_TS
  /\ ts \in [Threads -> Stamp] /\ ts_ready \in [Threads -> BOOLEAN]
  /\ cur_row \in [Threads -> 0..MAX_TS]
  /\ query \in [Threads -> Queries \union {<<>>}]
  /\ accesses \in [Threads ->
       Seq([row : Rows, type : {"RD", "WR"}, data : 0..MAX_TS])]
  /\ rc \in [Threads -> {"RCOK", "Abort"}] /\ pc \in [Threads -> PC]

\* Thread t has announced a write to row r and not yet returned it.
Announced(t, r) ==
  \/ \E i \in DOMAIN accesses[t] :
       accesses[t][i].row = r /\ accesses[t][i].type = "WR"
  \/ pc[t] \in {"read", "spin"} /\ Cur(t) = [row |-> r, type |-> "WR"]

\* No prewrite is orphaned: a request that was announced and whose read is
\* then refused would leave its prewrite behind (row.cpp:213-218 records the
\* access only after both), and every later read would wait for it for ever.
NoOrphanPrewrite ==
  \A r \in Rows :
    manager[r].prereq = {[txn |-> t, ts |-> ts[t]] :
                           t \in {u \in Threads : Announced(u, r)}}

\* No wake-up is lost: a buffered read waits for a prewrite of a smaller
\* timestamp, and a spinning thread is buffered or has been let through, in
\* every order of prewrites, aborts and writes (row_ts.cpp:243-266).
NoLostWakeup ==
  /\ \A r \in Rows : \A e \in manager[r].readreq :
       /\ pc[e.txn] = "spin" /\ ~ ts_ready[e.txn]
       /\ \E p \in manager[r].prereq : p.ts < e.ts
  /\ \A t \in Threads :
       pc[t] = "spin" /\ ~ ts_ready[t] =>
         [txn |-> t, ts |-> ts[t]] \in M(t).readreq

Ordered == INSTANCE TimestampStore WITH log <- committed, Timestamps <- Stamp

\* Committed transactions are serial in the order of their timestamps: they
\* implement TimestampStore.
TimestampOrder == Ordered!Spec

\* A thread that waits for older transactions does not wait for ever.
WaitEnds == \A t \in Threads : pc[t] = "spin" ~> pc[t] # "spin"
==============================================================================
