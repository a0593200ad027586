--------------------------------- MODULE OCC ---------------------------------
(***************************************************************************)
(* Optimistic concurrency control in DBx1000 (CC_ALG = OCC): Row_occ, the  *)
(* two validation schemes of OptCC, and the part of the worker loop and of *)
(* txn_man that drives them.                                               *)
(*                                                                         *)
(* A transaction copies every row it touches.  With PER_ROW_VALID it then  *)
(* latches its rows in primary-key order, checks that none was written     *)
(* since it started, takes a timestamp, writes and unlatches.  Without it  *)
(* it compares its sets of rows with those of the transactions that        *)
(* committed since it started or that are validating right now.            *)
(*                                                                         *)
(* Whatever runs under one latch is one action: Row_occ::access, and the   *)
(* two critical sections of central_validate.  A worker stops after        *)
(* MAX_TXN_PER_PART commits (sim_done, which RowLock models, can only stop *)
(* it earlier).                                                            *)
(***************************************************************************)
EXTENDS Naturals, FiniteSets, SequencesExt

CONSTANTS Threads,           \* worker threads
          Rows,              \* rows of the database
          Queries,           \* sequences of [row, type], no row twice
          Key,               \* row -> its place in the order of the latches
          PER_ROW_VALID,     \* config.h: the validation scheme
          MAX_TXN_PER_PART,  \* bound: commits of a thread
          NoThread           \* the holder of a free latch

ASSUME QueriesAssumption ==
  \A q \in Queries :
     /\ q \in Seq([row : Rows, type : {"RD", "WR"}])
     /\ \A i, j \in DOMAIN q : q[i].row = q[j].row => i = j

ASSUME KeyAssumption ==
  /\ Key \in [Rows -> Nat]
  /\ \A r, s \in Rows : Key[r] = Key[s] => r = s

ASSUME ConfigAssumption ==
  /\ PER_ROW_VALID \in BOOLEAN /\ MAX_TXN_PER_PART \in Nat \ {0}
  /\ IsFiniteSet(Threads) /\ NoThread \notin Threads

VARIABLES
  timestamp,   \* Manager: the next timestamp
  \* Row_occ and row_t
  latch,       \* row -> the thread that holds its latch
  wts,         \* row -> end_ts of the last transaction that wrote it
  data,        \* row -> its value
  \* OptCC, central validation
  active,      \* write sets [txn, rows] of the validating writers
  history,     \* write sets of the committed writers; the tn of one is its index
  \* txn_man and thread_t
  query,       \* thread -> the query it runs
  accesses,    \* thread -> its accesses, each [row, type, data] with a copy
  start_ts, end_ts,
  check,       \* thread -> what central_validate copied under the latch
  rc,          \* thread -> outcome of the validation
  pc,
  txn_cnt,
  out          \* history: what the last committed transaction of a thread read

rowVars     == <<latch, wts, data>>
centralVars == <<active, history, check>>
vars == <<timestamp, rowVars, centralVars, query, accesses, start_ts, end_ts,
          rc, pc, txn_cnt, out>>

PC == {"idle", "retry", "run", "validate", "check", "write", "leave",
       "unlatch", "finished"}

NoCheck  == [finish_tn |-> 0, finish_active |-> {}]
NoOutput == [query |-> <<>>, saw |-> <<>>]

Init ==
  /\ timestamp = 1
  /\ latch = [r \in Rows |-> NoThread]
  /\ wts = [r \in Rows |-> 0]
  /\ data = [r \in Rows |-> 0]
  /\ active = {}
  /\ history = <<>>
  /\ query = [t \in Threads |-> <<>>]
  /\ accesses = [t \in Threads |-> <<>>]
  /\ start_ts = [t \in Threads |-> 0]
  /\ end_ts = [t \in Threads |-> 0]
  /\ check = [t \in Threads |-> NoCheck]
  /\ rc = [t \in Threads |-> "RCOK"]
  /\ pc = [t \in Threads |-> "idle"]
  /\ txn_cnt = [t \in Threads |-> 0]
  /\ out = [t \in Threads |-> NoOutput]

------------------------------------------------------------------------------
(***************************************************************************)
(* The transaction runs on copies                                          *)
(***************************************************************************)

Goto(t, label) == pc' = [pc EXCEPT ![t] = label]

\* Mutant of DrawStartTs: a retried transaction keeps its start timestamp.
DrawStartTs_Kept(t) ==
  IF pc[t] = "retry" THEN UNCHANGED <<start_ts, timestamp>>
  ELSE start_ts' = [start_ts EXCEPT ![t] = timestamp] /\ timestamp' = timestamp + 1

\* Every attempt draws a timestamp of its own.
DrawStartTs(t) ==
  /\ start_ts' = [start_ts EXCEPT ![t] = timestamp]
  /\ timestamp' = timestamp + 1

\* The worker begins query q, or begins it again after an abort.
Begin(t, q) ==
  /\ query' = [query EXCEPT ![t] = q]
  /\ DrawStartTs(t)
  /\ accesses' = [accesses EXCEPT ![t] = <<>>]
  /\ Goto(t, "run")
  /\ UNCHANGED <<rowVars, centralVars, end_ts, rc, txn_cnt, out>>

StartTxn(t) == pc[t] = "idle" /\ \E q \in Queries : Begin(t, q)

RetryTxn(t) == pc[t] = "retry" /\ Begin(t, query[t])

\* The next access of thread t.
Cur(t) == query[t][Len(accesses[t]) + 1]

Requests(t) == pc[t] = "run" /\ Len(accesses[t]) < Len(query[t])

\* Mutant of valid_at: a row is valid until it is written twice.
valid_at_Late(ts, r) == ~ (ts + 2 < wts[r])

\* Row r was not written by a transaction that ended after timestamp ts.
valid_at(ts, r) == ~ (ts < wts[r])

\* Row_occ::access copies the row ...
ReadRow(t) ==
  /\ Requests(t)
  /\ LET r == Cur(t).row
     IN /\ latch[r] = NoThread
        /\ valid_at(start_ts[t], r)
        /\ accesses' = [accesses EXCEPT ![t] =
             Append(@, [row |-> r, type |-> Cur(t).type, data |-> data[r]])]
  /\ UNCHANGED <<timestamp, rowVars, centralVars, query, start_ts, end_ts, rc,
                 pc, txn_cnt, out>>

\* ... or tells the transaction to abort.
ReadAborts(t) ==
  /\ Requests(t)
  /\ latch[Cur(t).row] = NoThread
  /\ ~ valid_at(start_ts[t], Cur(t).row)
  /\ accesses' = [accesses EXCEPT ![t] = <<>>]
  /\ Goto(t, "retry")
  /\ UNCHANGED <<timestamp, rowVars, centralVars, query, start_ts, end_ts, rc,
                 txn_cnt, out>>

\* Mutant of sorted: the order of the accesses is kept.
sorted_Not(s, p) == p = [i \in DOMAIN s |-> i]

\* Taking the accesses s in the order p puts them in the order of their keys.
sorted(s, p) ==
  \A i, j \in DOMAIN s : i < j => Key[s[p[i]].row] < Key[s[p[j]].row]

\* run_txn calls finish(RCOK) and with it the validation; per_row_validate
\* first sorts the accesses.
FinishTxn(t) ==
  /\ pc[t] = "run" /\ Len(accesses[t]) = Len(query[t])
  /\ \E p \in [DOMAIN accesses[t] -> DOMAIN accesses[t]] :
       /\ IF PER_ROW_VALID THEN sorted(accesses[t], p)
                           ELSE \A i \in DOMAIN p : p[i] = i
       /\ accesses' = [accesses EXCEPT ![t] =
                         [i \in DOMAIN accesses[t] |-> accesses[t][p[i]]]]
  /\ Goto(t, "validate")
  /\ UNCHANGED <<timestamp, rowVars, centralVars, query, start_ts, end_ts, rc,
                 txn_cnt, out>>

RowsOf(t)   == {accesses[t][i].row : i \in DOMAIN accesses[t]}
WriteSet(t) == {accesses[t][i].row :
                  i \in {j \in DOMAIN accesses[t] : accesses[t][j].type = "WR"}}
ReadSet(t)  == RowsOf(t) \ WriteSet(t)

\* What transaction t read, in the order of its query.
Saw(t) ==
  [k \in DOMAIN query[t] |->
     (CHOOSE i \in DOMAIN accesses[t] :
        accesses[t][i].row = query[t][k].row)]

Commits(t) ==
  out' = [out EXCEPT ![t] =
            [query |-> query[t],
             saw |-> [k \in DOMAIN query[t] |-> accesses[t][Saw(t)[k]].data]]]

------------------------------------------------------------------------------
(***************************************************************************)
(* OptCC::per_row_validate                                                 *)
(***************************************************************************)

Held(t) == {r \in Rows : latch[r] = t}

\* Mutant of LatchRow: the row is latched whoever holds its latch.
LatchRow_Held(t) ==
  /\ PER_ROW_VALID /\ pc[t] = "validate"
  /\ \E i \in DOMAIN accesses[t] :
       LET r == accesses[t][i].row
       IN /\ i = Cardinality(Held(t)) + 1
          /\ latch' = [latch EXCEPT ![r] = t]
          /\ IF valid_at(start_ts[t], r)
             THEN UNCHANGED <<rc, pc>>
             ELSE rc' = [rc EXCEPT ![t] = "Abort"] /\ Goto(t, "unlatch")
  /\ UNCHANGED <<timestamp, wts, data, centralVars, query, accesses, start_ts,
                 end_ts, txn_cnt, out>>

\* The loop latches the next row and checks it.
LatchRow(t) ==
  /\ PER_ROW_VALID /\ pc[t] = "validate"
  /\ \E i \in DOMAIN accesses[t] :
       LET r == accesses[t][i].row
       IN /\ i = Cardinality(Held(t)) + 1
          /\ latch[r] = NoThread
          /\ latch' = [latch EXCEPT ![r] = t]
          /\ IF valid_at(start_ts[t], r)
             THEN UNCHANGED <<rc, pc>>
             ELSE rc' = [rc EXCEPT ![t] = "Abort"] /\ Goto(t, "unlatch")
  /\ UNCHANGED <<timestamp, wts, data, centralVars, query, accesses, start_ts,
                 end_ts, txn_cnt, out>>

\* All rows are valid: the transaction is committed at end_ts.
TakeEndTs(t) ==
  /\ PER_ROW_VALID /\ pc[t] = "validate"
  /\ Held(t) = RowsOf(t)
  /\ end_ts' = [end_ts EXCEPT ![t] = timestamp]
  /\ timestamp' = timestamp + 1
  /\ rc' = [rc EXCEPT ![t] = "RCOK"]
  /\ Commits(t)
  /\ Goto(t, "write")
  /\ UNCHANGED <<rowVars, centralVars, query, accesses, start_ts, txn_cnt>>

\* The timestamp Row_occ::write leaves in row r.
NewWts(t, r) == IF PER_ROW_VALID THEN end_ts[t] ELSE wts[r]

\* One turn of cleanup's loop: a written row is copied back.
WriteRow(t) ==
  /\ pc[t] = "write" /\ accesses[t] # <<>>
  /\ LET a == Last(accesses[t])
     IN IF a.type = "WR"
        THEN /\ data' = [data EXCEPT ![a.row] = a.data + 1]
             /\ wts' = [wts EXCEPT ![a.row] = NewWts(t, a.row)]
        ELSE UNCHANGED <<data, wts>>
  /\ accesses' = [accesses EXCEPT ![t] = Front(@)]
  /\ UNCHANGED <<timestamp, latch, centralVars, query, start_ts, end_ts, rc, pc,
                 txn_cnt, out>>

\* Both schemes: cleanup has returned every row.
Written(t) ==
  /\ pc[t] = "write" /\ accesses[t] = <<>>
  /\ Goto(t, IF PER_ROW_VALID THEN "unlatch" ELSE "leave")
  /\ UNCHANGED <<timestamp, rowVars, centralVars, query, accesses, start_ts,
                 end_ts, rc, txn_cnt, out>>

\* The last loop releases what was latched, smallest key first.
UnlatchRow(t) ==
  /\ pc[t] = "unlatch"
  /\ \E r \in Held(t) :
       /\ \A s \in Held(t) : Key[r] <= Key[s]
       /\ latch' = [latch EXCEPT ![r] = NoThread]
  /\ UNCHANGED <<timestamp, wts, data, centralVars, query, accesses, start_ts,
                 end_ts, rc, pc, txn_cnt, out>>

------------------------------------------------------------------------------
(***************************************************************************)
(* OptCC::central_validate                                                 *)
(***************************************************************************)

\* The first critical section.
EnterValidation(t) ==
  /\ ~ PER_ROW_VALID /\ pc[t] = "validate"
  /\ check' = [check EXCEPT ![t] = [finish_tn |-> Len(history),
                                    finish_active |-> active]]
  /\ active' = IF WriteSet(t) = {} THEN active
               ELSE active \union {[txn |-> t, rows |-> WriteSet(t)]}
  /\ Goto(t, "check")
  /\ UNCHANGED <<timestamp, rowVars, history, query, accesses, start_ts, end_ts,
                 rc, txn_cnt, out>>

\* No transaction that committed between start_ts, taken for a transaction
\* number, and the start of the validation wrote what t read, and none that
\* was validating writes what t reads or writes.
central_valid(t) ==
  /\ \A tn \in DOMAIN history :
       start_ts[t] < tn /\ tn <= check[t].finish_tn
         => history[tn].rows \intersect ReadSet(t) = {}
  /\ \A w \in check[t].finish_active : w.rows \intersect RowsOf(t) = {}

\* Between the critical sections.
CheckSets(t) ==
  /\ pc[t] = "check"
  /\ IF central_valid(t)
     THEN rc' = [rc EXCEPT ![t] = "RCOK"] /\ Commits(t) /\ Goto(t, "write")
     ELSE rc' = [rc EXCEPT ![t] = "Abort"] /\ Goto(t, "leave") /\ UNCHANGED out
  /\ UNCHANGED <<timestamp, rowVars, centralVars, query, accesses, start_ts,
                 end_ts, txn_cnt>>

\* The second critical section.  A read-only transaction skips it.
LeaveValidation(t) ==
  /\ pc[t] = "leave"
  /\ active' = {w \in active : w.txn # t}
  /\ history' = IF rc[t] = "RCOK"
                THEN history \o SetToSeq({w \in active : w.txn = t})
                ELSE history
  /\ Goto(t, "unlatch")
  /\ UNCHANGED <<timestamp, rowVars, check, query, accesses, start_ts, end_ts,
                 rc, txn_cnt, out>>

------------------------------------------------------------------------------
(***************************************************************************)
(* thread_t::run                                                           *)
(***************************************************************************)

\* Mutant of Done: the thread runs one transaction too many.
Done_Late(t) == txn_cnt[t] >= MAX_TXN_PER_PART

\* The commit that t is about to count is its last.
Done(t) == txn_cnt[t] + 1 >= MAX_TXN_PER_PART

TxnEnds(t) ==
  /\ pc[t] = "unlatch" /\ Held(t) = {}
  /\ accesses' = [accesses EXCEPT ![t] = <<>>]
  /\ rc' = [rc EXCEPT ![t] = "RCOK"]
  /\ IF rc[t] = "Abort"
     THEN Goto(t, "retry") /\ UNCHANGED txn_cnt
     ELSE /\ txn_cnt' = [txn_cnt EXCEPT ![t] = @ + 1]
          /\ Goto(t, IF Done(t) THEN "finished" ELSE "idle")
  /\ UNCHANGED <<timestamp, rowVars, centralVars, query, start_ts, end_ts, out>>

Step(t) == \/ StartTxn(t) \/ RetryTxn(t) \/ ReadRow(t) \/ ReadAborts(t)
           \/ FinishTxn(t) \/ LatchRow(t) \/ TakeEndTs(t) \/ WriteRow(t)
           \/ Written(t) \/ UnlatchRow(t) \/ TxnEnds(t)
           \/ EnterValidation(t) \/ CheckSets(t) \/ LeaveValidation(t)

Terminated == (\A t \in Threads : pc[t] = "finished") /\ UNCHANGED vars

Next == (\E t \in Threads : Step(t)) \/ Terminated

Spec == Init /\ [][Next]_vars

\* The steps of a worker with PER_ROW_VALID, which never calls central_validate.
PerRowWorker(t) ==
  \/ StartTxn(t) \/ RetryTxn(t) \/ ReadRow(t) \/ ReadAborts(t) \/ FinishTxn(t)
  \/ LatchRow(t) \/ TakeEndTs(t) \/ WriteRow(t) \/ Written(t)
  \/ UnlatchRow(t) \/ TxnEnds(t)

\* Every worker keeps running, and a free latch is taken by a thread that
\* keeps asking for it.
FairSpec ==
  /\ Init /\ [][(\E t \in Threads : PerRowWorker(t)) \/ Terminated]_vars
  /\ \A t \in Threads : SF_vars(PerRowWorker(t))

------------------------------------------------------------------------------
(***************************************************************************)
(* Correctness                                                             *)
(***************************************************************************)

Access == [row : Rows, type : {"RD", "WR"}, data : Nat]

\* Every variable has the type of the field it stands for.
TypeOK ==
  /\ timestamp \in Nat
  /\ latch \in [Rows -> Threads \union {NoThread}]
  /\ wts \in [Rows -> Nat]
  /\ data \in [Rows -> Nat]
  /\ active \subseteq [txn : Threads, rows : SUBSET Rows]
  /\ history \in Seq([txn : Threads, rows : SUBSET Rows])
  /\ query \in [Threads -> Queries \union {<<>>}]
  /\ accesses \in [Threads -> Seq(Access)]
  /\ start_ts \in [Threads -> Nat] /\ end_ts \in [Threads -> Nat]
  /\ rc \in [Threads -> {"RCOK", "Abort"}]
  /\ pc \in [Threads -> PC]
  /\ txn_cnt \in [Threads -> 0..MAX_TXN_PER_PART]

\* A copy is current or its transaction cannot commit: as long as the
\* timestamp of a row allows transaction t to validate it, the row still has
\* the value t copied, although other transactions latch, write and unlatch
\* rows between the copy and the validation, and draw their end_ts while t
\* runs (row_occ.cpp:22, occ.cpp:64-74).
CopiesCurrent ==
  PER_ROW_VALID =>
    \A t \in Threads : \A i \in DOMAIN accesses[t] :
      LET a == accesses[t][i]
      IN /\ pc[t] \in {"run", "validate"}
         /\ valid_at(start_ts[t], a.row)
         => data[a.row] = a.data

\* No set of validating transactions can each wait for a latch that another
\* one of them holds, whatever the order in which their queries touched the
\* rows (the sort of occ.cpp:38-49).
NoLatchCycle ==
  PER_ROW_VALID =>
    ~ \E S \in (SUBSET Threads) \ {{}} : \A t \in S :
        /\ pc[t] = "validate"
        /\ \E u \in S \ {t}, i \in DOMAIN accesses[t] :
             i = Cardinality(Held(t)) + 1 /\ latch[accesses[t][i].row] = u

\* Under both schemes, two transactions never copy the same row back at the
\* same time, so that Row_occ::write needs no latch of its own: the latch taken
\* for the validation, or the set of active transactions, keeps them apart
\* (row_occ.cpp:45, occ.cpp:103-108).
WritersExclude ==
  \A t, u \in Threads :
    t # u /\ pc[t] = "write" /\ pc[u] = "write"
      => WriteSet(t) \intersect WriteSet(u) = {}

\* The value transaction t is about to write to row r, if it is committed.
Pending(t, r) == pc[t] = "write" /\ r \in WriteSet(t)

CommittedData ==
  [r \in Rows |->
     IF \E t \in Threads : Pending(t, r)
     THEN LET t == CHOOSE t \in Threads : Pending(t, r)
              i == CHOOSE i \in DOMAIN accesses[t] : accesses[t][i].row = r
          IN accesses[t][i].data + 1
     ELSE data[r]]

Serial == INSTANCE SerialStore WITH store <- CommittedData

\* Optimistic transactions are serializable in the order of their end_ts: they
\* implement the store that runs one transaction at a time.
Serializable == Serial!Spec

\* No latch deadlock and no livelock: a transaction aborts only because
\* another one committed, so every worker finishes.
AllFinish == <>(\A t \in Threads : pc[t] = "finished")
==============================================================================
