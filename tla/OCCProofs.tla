------------------------------ MODULE OCCProofs ------------------------------
(***************************************************************************)
(* Proofs about OCC for every set of threads, rows and queries.            *)
(*                                                                         *)
(* The argument, with PER_ROW_VALID: a validating thread holds the latches *)
(* of the first rows of its sorted accesses, and a writing one those of    *)
(* all it has still to write.  A copy of a latched row was made before its *)
(* writer drew end_ts, by a thread that had started before; so what is     *)
(* valid at the time of a latch is current, and stays so until the thread  *)
(* writes.  Without it, of two validating writers the second has the first *)
(* one's write set among those it checks.                                  *)
(***************************************************************************)
EXTENDS OCC, SeqLemmas, FiniteSetTheorems, TLAPS

------------------------------------------------------------------------------
(***************************************************************************)
(* Sequences of accesses                                                   *)
(***************************************************************************)

\* No row is accessed twice.
OneEach(s) == \A i, j \in 1..Len(s) : s[i].row = s[j].row => i = j

\* The accesses are in the order in which their rows are latched.
Ascending(s) == \A i, j \in 1..Len(s) : i < j => Key[s[i].row] < Key[s[j].row]

LEMMA AccessFields ==
  ASSUME NEW a \in Access
  PROVE  a.row \in Rows /\ a.type \in {"RD", "WR"} /\ a.data \in Nat
  BY DEF Access

\* The places of a query.
LEMMA QueryType ==
  ASSUME NEW q \in Queries
  PROVE  /\ Len(q) \in Nat /\ DOMAIN q = 1..Len(q)
         /\ \A k \in 1..Len(q) : q[k].row \in Rows /\ q[k].type \in {"RD", "WR"}
         /\ \A j, k \in 1..Len(q) : q[j].row = q[k].row => j = k
  <1> DEFINE R == [row : Rows, type : {"RD", "WR"}]
  <1>1. q \in Seq(R)
    BY QueriesAssumption
  <1>2. \A j, k \in DOMAIN q : q[j].row = q[k].row => j = k
    BY QueriesAssumption
  <1>3. \A r \in R : r.row \in Rows /\ r.type \in {"RD", "WR"}
    OBVIOUS
  <1> HIDE DEF R
  <1>4. Len(q) \in Nat /\ DOMAIN q = 1..Len(q) /\ \A k \in 1..Len(q) : q[k] \in R
    BY <1>1
  <1> QED BY <1>2, <1>3, <1>4

\* The bubble sort of per_row_validate, like no sort at all, keeps every access.
LEMMA Permuted ==
  ASSUME NEW s \in Seq(Access), OneEach(s), NEW p \in [DOMAIN s -> DOMAIN s],
         sorted(s, p) \/ \A i \in DOMAIN p : p[i] = i,
         NEW r \in Seq(Access), Len(r) = Len(s), \A i \in 1..Len(s) : r[i] = s[p[i]]
  PROVE  /\ OneEach(r)
         /\ \A i \in 1..Len(r) : \E j \in 1..Len(s) : r[i] = s[j]
         /\ \A j \in 1..Len(s) : \E i \in 1..Len(r) : r[i] = s[j]
         /\ sorted(s, p) => Ascending(r)
  <1>1. /\ DOMAIN s = 1..Len(s) /\ Len(s) \in Nat
        /\ \A i \in 1..Len(s) : s[i] \in Access /\ p[i] \in 1..Len(s) /\ r[i] = s[p[i]]
    <2>1. DOMAIN s = 1..Len(s) /\ Len(s) \in Nat /\ \A i \in 1..Len(s) : s[i] \in Access
      OBVIOUS
    <2> QED BY <2>1
  <1>2. r \in Seq(Access) /\ Len(r) = Len(s)
    OBVIOUS
  <1>3. ASSUME sorted(s, p), NEW i \in 1..Len(r), NEW j \in 1..Len(r), i < j
        PROVE  Key[r[i].row] < Key[r[j].row]
    <2>1. r[i] = s[p[i]] /\ r[j] = s[p[j]] /\ i \in DOMAIN s /\ j \in DOMAIN s
      BY <1>1, <1>2
    <2> QED BY <1>3, <2>1 DEF sorted
  <1>4. \A i, j \in 1..Len(s) : p[i] = p[j] => i = j
    <2>1. CASE sorted(s, p)
      <3>1. \A i \in 1..Len(s) : Key[s[p[i]].row] \in Nat
        BY <1>1, AccessFields, KeyAssumption
      <3>2. ASSUME NEW i \in 1..Len(s), NEW j \in 1..Len(s), i < j PROVE p[i] # p[j]
        <4>1. i \in DOMAIN s /\ j \in DOMAIN s
          BY <1>1
        <4>2. Key[s[p[i]].row] < Key[s[p[j]].row]
          BY <2>1, <3>2, <4>1 DEF sorted
        <4> QED BY <3>1, <4>2
      <3> QED BY <1>1, <3>2
    <2>2. CASE \A i \in DOMAIN p : p[i] = i
      BY <1>1, <2>2
    <2> QED BY <2>1, <2>2
  <1>5. OneEach(r)
    BY <1>1, <1>2, <1>4 DEF OneEach
  <1>6. \A j \in 1..Len(s) : \E i \in 1..Len(s) : p[i] = j
    <2> DEFINE P == 1..Len(s)
    <2>1. IsFiniteSet(P)
      <3>1. 1 \in Int /\ Len(s) \in Int
        BY <1>1
      <3> QED BY <3>1, FS_Interval
    <2>2. p \in Injection(P, P)
      BY <1>1, <1>4 DEF Injection, IsInjective
    <2> HIDE DEF P
    <2>3. p \in Surjection(P, P)
      BY <2>1, <2>2, FS_Injection
    <2> QED BY <2>3 DEF Surjection, P
  <1> QED BY <1>1, <1>2, <1>3, <1>5, <1>6 DEF Ascending

------------------------------------------------------------------------------
(***************************************************************************)
(* The inductive invariant                                                 *)
(***************************************************************************)

Entry == [txn : Threads, rows : SUBSET Rows]

CentralTypes ==
  /\ IsFiniteSet(active)
  /\ check \in [Threads -> [finish_tn : Nat, finish_active : SUBSET Entry]]

\* The accesses s are those of a prefix of query q, in order.
Prefix(s, q) ==
  /\ Len(s) <= Len(q)
  /\ \A k \in 1..Len(s) : s[k].row = q[k].row /\ s[k].type = q[k].type

\* The accesses s are those of query q, in any order.
Covers(s, q) ==
  /\ \A j \in 1..Len(s) : \E k \in 1..Len(q) : s[j].row = q[k].row /\ s[j].type = q[k].type
  /\ \A k \in 1..Len(q) : \E j \in 1..Len(s) : s[j].row = q[k].row /\ s[j].type = q[k].type

\* Where thread t is in its query.
Progress(t) ==
  /\ pc[t] \notin {"idle", "finished"} => query[t] \in Queries
  /\ pc[t] # "finished" => txn_cnt[t] < MAX_TXN_PER_PART
  /\ OneEach(accesses[t])
  /\ pc[t] = "run" => Prefix(accesses[t], query[t])
  /\ pc[t] = "validate" => Covers(accesses[t], query[t])
  /\ pc[t] \in {"check", "leave"} => ~ PER_ROW_VALID

\* The latches t has are those of its first accesses.
LatchedPrefix(t) ==
  /\ IsFiniteSet(Held(t)) /\ Held(t) \subseteq RowsOf(t)
  /\ \A k \in 1..Len(accesses[t]) :
       latch[accesses[t][k].row] = t <=> k <= Cardinality(Held(t))

\* The latches of t, by what it does; those it has validated stay valid.
Latches(t) ==
  /\ pc[t] \in {"idle", "retry", "run", "finished"} => Held(t) = {}
  /\ pc[t] = "validate" /\ PER_ROW_VALID =>
       /\ Ascending(accesses[t]) /\ LatchedPrefix(t)
       /\ \A r \in Held(t) : valid_at(start_ts[t], r)
  /\ pc[t] = "write" /\ PER_ROW_VALID => RowsOf(t) \subseteq Held(t)

\* Timestamps in use were drawn.
Drawn ==
  /\ \A t \in Threads : start_ts[t] < timestamp /\ end_ts[t] < timestamp
  /\ \A r \in Rows : wts[r] < timestamp

\* A copy of a row that u is going to write back is older than the end of u.
StartedBefore(t, u) ==
  pc[u] = "write" /\ pc[t] \in {"run", "validate"} =>
    \A k \in 1..Len(accesses[t]) :
      latch[accesses[t][k].row] = u => start_ts[t] < end_ts[u]

\* A copy whose row is still valid for t is current.
CopyCurrent(t) ==
  pc[t] \in {"run", "validate"} =>
    \A k \in 1..Len(accesses[t]) :
      valid_at(start_ts[t], accesses[t][k].row)
        => data[accesses[t][k].row] = accesses[t][k].data

\* Set w stands for the rows u writes.
Stands(w, u) == w.txn = u /\ WriteSet(u) \subseteq w.rows

\* A validated writer is active; what it checked against is none of its rows.
Entered(t) ==
  /\ pc[t] \in {"check", "write"} /\ WriteSet(t) # {} => \E w \in active : Stands(w, t)
  /\ pc[t] = "write" => \A w \in check[t].finish_active : w.rows \intersect RowsOf(t) = {}

\* Of two validated writers, one has the write set of the other to check.
OneChecks(t, u) ==
  /\ pc[t] \in {"check", "write"} /\ WriteSet(t) # {}
  /\ pc[u] \in {"check", "write"} /\ WriteSet(u) # {}
  => \/ \E w \in check[t].finish_active : Stands(w, u)
     \/ \E w \in check[u].finish_active : Stands(w, t)

Central == ~ PER_ROW_VALID =>
  /\ \A t \in Threads : Entered(t)
  /\ \A t, u \in Threads : t # u => OneChecks(t, u)

PerRow == PER_ROW_VALID =>
  /\ \A t, u \in Threads : StartedBefore(t, u)
  /\ \A t \in Threads : CopyCurrent(t)

ThreadInv == TypeOK /\ CentralTypes /\ \A t \in Threads : Progress(t)

IInv == /\ ThreadInv /\ Drawn
        /\ \A t \in Threads : Latches(t)
        /\ PerRow /\ Central

------------------------------------------------------------------------------
(***************************************************************************)
(* Types, and where a thread is                                            *)
(***************************************************************************)

LEMMA ThreadFacts ==
  ASSUME TypeOK, NEW t \in Threads
  PROVE  /\ accesses[t] \in Seq(Access) /\ Len(accesses[t]) \in Nat
         /\ DOMAIN accesses[t] = 1..Len(accesses[t])
         /\ \A k \in 1..Len(accesses[t]) :
              /\ accesses[t][k] \in Access /\ accesses[t][k].row \in Rows
              /\ accesses[t][k].type \in {"RD", "WR"} /\ accesses[t][k].data \in Nat
         /\ RowsOf(t) = {accesses[t][k].row : k \in 1..Len(accesses[t])}
         /\ WriteSet(t) = {accesses[t][k].row :
                             k \in {j \in 1..Len(accesses[t]) : accesses[t][j].type = "WR"}}
         /\ RowsOf(t) \subseteq Rows /\ WriteSet(t) \subseteq RowsOf(t)
         /\ pc[t] \in PC /\ txn_cnt[t] \in Nat
  <1>1. accesses[t] \in Seq(Access) /\ pc[t] \in PC /\ txn_cnt[t] \in Nat
    BY DEF TypeOK
  <1>2. /\ Len(accesses[t]) \in Nat /\ DOMAIN accesses[t] = 1..Len(accesses[t])
        /\ \A k \in 1..Len(accesses[t]) : accesses[t][k] \in Access
    BY <1>1
  <1>3. \A k \in 1..Len(accesses[t]) :
          /\ accesses[t][k].row \in Rows /\ accesses[t][k].type \in {"RD", "WR"}
          /\ accesses[t][k].data \in Nat
    BY <1>2, AccessFields
  <1>4. /\ RowsOf(t) = {accesses[t][k].row : k \in 1..Len(accesses[t])}
        /\ WriteSet(t) = {accesses[t][k].row :
                            k \in {j \in 1..Len(accesses[t]) : accesses[t][j].type = "WR"}}
    BY <1>2 DEF RowsOf, WriteSet
  <1>5. RowsOf(t) \subseteq Rows /\ WriteSet(t) \subseteq RowsOf(t)
    BY <1>3, <1>4
  <1> QED BY <1>1, <1>2, <1>3, <1>4, <1>5

\* A step of t leaves the other threads and their latches alone.
LEMMA OthersStay ==
  ASSUME TypeOK, CentralTypes, NEW t \in Threads, Step(t), NEW u \in Threads, u # t
  PROVE  /\ query'[u] = query[u] /\ accesses'[u] = accesses[u] /\ pc'[u] = pc[u]
         /\ start_ts'[u] = start_ts[u] /\ end_ts'[u] = end_ts[u]
         /\ check'[u] = check[u] /\ rc'[u] = rc[u] /\ txn_cnt'[u] = txn_cnt[u]
         /\ \A r \in Rows : latch'[r] = u <=> latch[r] = u
         /\ Held(u)' = Held(u)
  <1> USE DEF TypeOK, CentralTypes
  <1>1. query'[u] = query[u] /\ pc'[u] = pc[u] /\ rc'[u] = rc[u]
    BY DEF Step, StartTxn, RetryTxn, Begin, ReadRow, ReadAborts, FinishTxn, LatchRow,
       TakeEndTs, WriteRow, Written, UnlatchRow, TxnEnds, EnterValidation, CheckSets,
       LeaveValidation, Goto, centralVars, rowVars
  <1>2. accesses'[u] = accesses[u]
    BY DEF Step, StartTxn, RetryTxn, Begin, ReadRow, ReadAborts, FinishTxn, LatchRow,
       TakeEndTs, WriteRow, Written, UnlatchRow, TxnEnds, EnterValidation, CheckSets,
       LeaveValidation
  <1>3. start_ts'[u] = start_ts[u] /\ end_ts'[u] = end_ts[u] /\ txn_cnt'[u] = txn_cnt[u]
    BY DEF Step, StartTxn, RetryTxn, Begin, DrawStartTs, ReadRow, ReadAborts, FinishTxn,
       LatchRow, TakeEndTs, WriteRow, Written, UnlatchRow, TxnEnds, EnterValidation,
       CheckSets, LeaveValidation
  <1>4. check'[u] = check[u]
    BY DEF Step, StartTxn, RetryTxn, Begin, ReadRow, ReadAborts, FinishTxn, LatchRow,
       TakeEndTs, WriteRow, Written, UnlatchRow, TxnEnds, EnterValidation, CheckSets,
       LeaveValidation, centralVars
  <1>5. ASSUME NEW r \in Rows PROVE latch'[r] = u <=> latch[r] = u
    <2>1. CASE LatchRow(t)
      <3>1. PICK k \in DOMAIN accesses[t] :
              /\ latch[accesses[t][k].row] = NoThread
              /\ latch' = [latch EXCEPT ![accesses[t][k].row] = t]
        BY <2>1 DEF LatchRow
      <3> QED BY <3>1, ConfigAssumption
    <2>2. CASE UnlatchRow(t)
      <3>1. PICK s \in Rows : latch[s] = t /\ latch' = [latch EXCEPT ![s] = NoThread]
        BY <2>2 DEF UnlatchRow, Held
      <3> QED BY <3>1, ConfigAssumption
    <2>3. CASE ~ LatchRow(t) /\ ~ UnlatchRow(t)
      <3>1. latch' = latch
        BY <2>3 DEF Step, StartTxn, RetryTxn, Begin, ReadRow, ReadAborts, FinishTxn,
           TakeEndTs, WriteRow, Written, TxnEnds, EnterValidation, CheckSets,
           LeaveValidation, rowVars
      <3> QED BY <3>1
    <2> QED BY <2>1, <2>2, <2>3
  <1>6. Held(u)' = Held(u)
    BY <1>5 DEF Held
  <1> QED BY <1>1, <1>2, <1>3, <1>4, <1>5, <1>6

\* The parts of a thread that its place in its query depends on.
LEMMA ProgressFrame ==
  ASSUME NEW u \in Threads, Progress(u), query'[u] = query[u], accesses'[u] = accesses[u],
         pc'[u] = pc[u], txn_cnt'[u] = txn_cnt[u]
  PROVE  Progress(u)'
  BY DEF Progress

\* An attempt begins with no accesses.
LEMMA BeginTypes ==
  ASSUME ThreadInv, NEW t \in Threads, NEW q \in Queries, Begin(t, q),
         pc[t] \in {"idle", "retry"}
  PROVE  ThreadInv'
  <1> USE DEF ThreadInv
  <1>1. /\ query' = [query EXCEPT ![t] = q]
        /\ accesses' = [accesses EXCEPT ![t] = <<>>]
        /\ pc' = [pc EXCEPT ![t] = "run"]
        /\ start_ts' = [start_ts EXCEPT ![t] = timestamp] /\ timestamp' = timestamp + 1
        /\ UNCHANGED <<latch, wts, data, active, history, check, end_ts, rc, txn_cnt>>
    BY DEF Begin, DrawStartTs, Goto, rowVars, centralVars
  <1>2. <<>> \in Seq(Access)
    OBVIOUS
  <1>3. TypeOK'
    BY <1>1, <1>2 DEF TypeOK, PC
  <1>4. CentralTypes'
    BY <1>1 DEF CentralTypes
  <1>5. ASSUME NEW u \in Threads PROVE Progress(u)'
    <2>1. CASE u = t
      <3>1. accesses'[t] = <<>> /\ pc'[t] = "run" /\ query'[t] = q /\ txn_cnt'[t] = txn_cnt[t]
        BY <1>1 DEF TypeOK
      <3>2. Len(q) \in Nat
        BY QueryType
      <3>3. Prefix(<<>>, q) /\ OneEach(<<>>)
        BY <3>2 DEF Prefix, OneEach
      <3> QED BY <2>1, <3>1, <3>3 DEF Progress
    <2>2. CASE u # t
      <3>1. accesses'[u] = accesses[u] /\ pc'[u] = pc[u] /\ query'[u] = query[u]
        BY <1>1, <2>2 DEF TypeOK
      <3> QED BY <1>1, <3>1, ProgressFrame
    <2> QED BY <2>1, <2>2
  <1> QED BY <1>3, <1>4, <1>5

LEMMA ReadTypes ==
  ASSUME ThreadInv, NEW t \in Threads, ReadRow(t) \/ ReadAborts(t) \/ FinishTxn(t)
  PROVE  ThreadInv'
  <1> USE DEF ThreadInv
  <1> DEFINE acc == accesses[t]
  <1>0. /\ acc \in Seq(Access) /\ Len(acc) \in Nat /\ DOMAIN acc = 1..Len(acc)
        /\ Progress(t)
    BY ThreadFacts
  <1>1. /\ UNCHANGED <<timestamp, latch, wts, data, active, history, check, query,
                       start_ts, end_ts, rc, txn_cnt>>
        /\ pc[t] = "run" /\ query[t] \in Queries /\ Prefix(acc, query[t])
    BY <1>0 DEF ReadRow, ReadAborts, FinishTxn, Requests, rowVars, centralVars, Progress
  <1>2. PICK s \in Seq(Access), l \in {"run", "retry", "validate"} :
          /\ accesses' = [accesses EXCEPT ![t] = s]
          /\ pc' = [pc EXCEPT ![t] = l]
          /\ OneEach(s)
          /\ l = "run" => Prefix(s, query[t])
          /\ l = "validate" => Covers(s, query[t])
    <2>1. CASE ReadRow(t)
      <3> DEFINE n == Len(acc) + 1
                 a == [row |-> query[t][n].row, type |-> query[t][n].type,
                       data |-> data[query[t][n].row]]
                 s == Append(acc, a)
      <3>1. /\ accesses' = [accesses EXCEPT ![t] = s] /\ pc' = pc
            /\ Len(acc) < Len(query[t])
        BY <2>1 DEF ReadRow, Requests, Cur
      <3>2. n \in 1..Len(query[t]) /\ Len(query[t]) \in Nat
        BY <1>0, <1>1, <3>1, QueryType
      <3>3. a \in Access /\ a.row = query[t][n].row /\ a.type = query[t][n].type
        <4>1. query[t][n].row \in Rows /\ query[t][n].type \in {"RD", "WR"}
          BY <1>1, <3>2, QueryType
        <4>2. data[query[t][n].row] \in Nat
          BY <4>1 DEF TypeOK
        <4> QED BY <4>1, <4>2 DEF Access
      <3> HIDE DEF a
      <3>4. /\ s \in Seq(Access) /\ Len(s) = n /\ s[n] = a
            /\ \A k \in 1..Len(acc) : s[k] = acc[k]
        BY <1>0, <3>3
      <3>5. \A k \in 1..n : s[k].row = query[t][k].row /\ s[k].type = query[t][k].type
        <4>1. \A k \in 1..Len(acc) : /\ acc[k].row = query[t][k].row
                                    /\ acc[k].type = query[t][k].type
          BY <1>1 DEF Prefix
        <4>2. \A k \in 1..n : k \in 1..Len(acc) \/ k = n
          BY <1>0
        <4> QED BY <3>3, <3>4, <4>1, <4>2
      <3> HIDE DEF s, n
      <3>6. \A j, k \in 1..n : query[t][j].row = query[t][k].row => j = k
        <4>1. \A k \in 1..n : k \in 1..Len(query[t])
          BY <3>2
        <4> QED BY <1>1, <4>1, QueryType
      <3>7. OneEach(s)
        BY <3>4, <3>5, <3>6 DEF OneEach
      <3>8. n <= Len(query[t]) /\ pc' = [pc EXCEPT ![t] = "run"]
        BY <1>1, <3>1, <3>2 DEF TypeOK
      <3> QED BY <3>1, <3>4, <3>5, <3>7, <3>8 DEF Prefix
    <2>2. CASE ReadAborts(t)
      <3>1. <<>> \in Seq(Access) /\ OneEach(<<>>)
        BY DEF OneEach
      <3> QED BY <2>2, <3>1 DEF ReadAborts, Goto
    <2>3. CASE FinishTxn(t)
      <3>1. PICK p \in [DOMAIN acc -> DOMAIN acc] :
              /\ sorted(acc, p) \/ \A k \in DOMAIN p : p[k] = k
              /\ accesses' = [accesses EXCEPT ![t] = [k \in DOMAIN acc |-> acc[p[k]]]]
        BY <2>3 DEF FinishTxn
      <3>2. OneEach(acc) /\ Len(acc) = Len(query[t]) /\ pc' = [pc EXCEPT ![t] = "validate"]
        BY <1>0, <2>3 DEF FinishTxn, Goto, Progress
      <3>3. PICK s \in Seq(Access) :
              /\ accesses' = [accesses EXCEPT ![t] = s] /\ Len(s) = Len(acc) /\ OneEach(s)
              /\ \A i \in 1..Len(s) : \E j \in 1..Len(acc) : s[i] = acc[j]
              /\ \A j \in 1..Len(acc) : \E i \in 1..Len(s) : s[i] = acc[j]
        <4> DEFINE s == [k \in DOMAIN acc |-> acc[p[k]]]
        <4>1. s = [k \in DOMAIN acc |-> acc[p[k]]] /\ accesses' = [accesses EXCEPT ![t] = s]
          BY <3>1
        <4>3. s \in Seq(Access) /\ Len(s) = Len(acc) /\ \A k \in 1..Len(acc) : s[k] = acc[p[k]]
          BY <1>0
        <4> HIDE DEF s, acc
        <4>2. /\ s \in Seq(Access) /\ Len(s) = Len(acc) /\ OneEach(s)
              /\ \A i \in 1..Len(s) : \E j \in 1..Len(acc) : s[i] = acc[j]
              /\ \A j \in 1..Len(acc) : \E i \in 1..Len(s) : s[i] = acc[j]
          BY <1>0, <3>1, <3>2, <4>3, Permuted
        <4> QED BY <4>1, <4>2
      <3>4. \A k \in 1..Len(acc) : /\ acc[k].row = query[t][k].row
                                  /\ acc[k].type = query[t][k].type
        BY <1>1 DEF Prefix
      <3> HIDE DEF acc
      <3>5. Covers(s, query[t])
        <4>1. ASSUME NEW j \in 1..Len(s)
              PROVE  \E k \in 1..Len(query[t]) :
                       s[j].row = query[t][k].row /\ s[j].type = query[t][k].type
          <5>1. PICK k \in 1..Len(acc) : s[j] = acc[k]
            BY <3>3
          <5> QED BY <3>2, <3>4, <5>1
        <4>2. ASSUME NEW k \in 1..Len(query[t])
              PROVE  \E j \in 1..Len(s) :
                       s[j].row = query[t][k].row /\ s[j].type = query[t][k].type
          <5>1. PICK j \in 1..Len(s) : s[j] = acc[k]
            BY <3>2, <3>3
          <5> QED BY <3>2, <3>4, <5>1
        <4> QED BY <4>1, <4>2 DEF Covers
      <3> QED BY <3>2, <3>3, <3>5
    <2> QED BY <2>1, <2>2, <2>3
  <1>3. TypeOK'
    BY <1>1, <1>2 DEF TypeOK, PC
  <1>4. CentralTypes'
    BY <1>1 DEF CentralTypes
  <1>5. ASSUME NEW u \in Threads PROVE Progress(u)'
    <2>1. CASE u = t
      <3>1. accesses'[t] = s /\ pc'[t] = l /\ query'[t] = query[t] /\ txn_cnt'[t] = txn_cnt[t]
        BY <1>1, <1>2 DEF TypeOK
      <3> QED BY <1>0, <1>1, <1>2, <2>1, <3>1 DEF Progress
    <2>2. CASE u # t
      <3>1. accesses'[u] = accesses[u] /\ pc'[u] = pc[u] /\ query'[u] = query[u]
        BY <1>1, <1>2, <2>2 DEF TypeOK
      <3> QED BY <1>1, <3>1, ProgressFrame
    <2> QED BY <2>1, <2>2
  <1> QED BY <1>3, <1>4, <1>5

\* The steps of the validation and the end of a transaction leave accesses or
\* forget some of them.
LEMMA ProgressStep ==
  ASSUME ThreadInv, NEW t \in Threads, Step(t), query'[t] = query[t],
         pc[t] \in {"validate", "check", "write", "leave", "unlatch"},
         pc[t] # "unlatch" => txn_cnt'[t] = txn_cnt[t],
         pc'[t] # "finished" => txn_cnt'[t] < MAX_TXN_PER_PART,
         OneEach(accesses'[t]),
         pc'[t] # "run",
         pc'[t] = "validate" => pc[t] = "validate" /\ accesses'[t] = accesses[t],
         pc'[t] \in {"check", "leave"} => ~ PER_ROW_VALID
  PROVE  \A u \in Threads : Progress(u)'
  <1> SUFFICES ASSUME NEW u \in Threads PROVE Progress(u)'
    OBVIOUS
  <1>1. CASE u = t
    BY <1>1 DEF ThreadInv, Progress
  <1>2. CASE u # t
    BY <1>2, OthersStay, ProgressFrame DEF ThreadInv
  <1> QED BY <1>1, <1>2

LEMMA ValidationTypes ==
  ASSUME ThreadInv, NEW t \in Threads,
         \/ LatchRow(t) \/ TakeEndTs(t) \/ Written(t) \/ UnlatchRow(t)
         \/ EnterValidation(t) \/ CheckSets(t)
  PROVE  ThreadInv'
  <1> USE DEF ThreadInv
  <1>0. /\ accesses[t] \in Seq(Access) /\ Len(accesses[t]) \in Nat
        /\ DOMAIN accesses[t] = 1..Len(accesses[t])
        /\ \A k \in 1..Len(accesses[t]) : accesses[t][k].row \in Rows
        /\ WriteSet(t) \subseteq Rows
        /\ Progress(t) /\ Step(t)
    BY ThreadFacts DEF Step
  <1>1. /\ UNCHANGED <<query, accesses, wts, data, start_ts, txn_cnt, history>>
        /\ pc[t] \in {"validate", "check", "write", "unlatch"}
    BY DEF LatchRow, TakeEndTs, Written, UnlatchRow, EnterValidation, CheckSets, rowVars,
       centralVars
  <1>2. PICK l \in PC \ {"idle", "run", "finished"} :
          /\ pc' = [pc EXCEPT ![t] = l]
          /\ l = "validate" => pc[t] = "validate"
          /\ l \in {"check", "leave"} => ~ PER_ROW_VALID
    <2>1. CASE LatchRow(t) \/ TakeEndTs(t) \/ UnlatchRow(t)
      <3>1. \/ pc' = pc /\ pc[t] \in {"validate", "unlatch"}
            \/ pc' = [pc EXCEPT ![t] = "unlatch"]
            \/ pc' = [pc EXCEPT ![t] = "write"]
        BY <2>1 DEF LatchRow, TakeEndTs, UnlatchRow, Goto
      <3> QED BY <3>1 DEF TypeOK, PC
    <2>2. CASE Written(t) \/ EnterValidation(t) \/ CheckSets(t)
      BY <1>0, <2>2 DEF Written, EnterValidation, CheckSets, Goto, PC, Progress
    <2> QED BY <2>1, <2>2
  <1>3. /\ latch' \in [Rows -> Threads \union {NoThread}]
        /\ timestamp' \in Nat /\ end_ts' \in [Threads -> Nat]
        /\ rc' \in [Threads -> {"RCOK", "Abort"}]
    <2>1. CASE LatchRow(t)
      BY <1>0, <2>1 DEF LatchRow, TypeOK
    <2>2. CASE TakeEndTs(t)
      BY <2>2 DEF TakeEndTs, TypeOK, rowVars
    <2>3. CASE Written(t) \/ UnlatchRow(t)
      BY <2>3 DEF Written, UnlatchRow, TypeOK, rowVars
    <2>4. CASE EnterValidation(t) \/ CheckSets(t)
      BY <2>4 DEF EnterValidation, CheckSets, TypeOK, rowVars
    <2> QED BY <2>1, <2>2, <2>3, <2>4
  <1>4. active' \subseteq Entry /\ CentralTypes'
    <2>1. CASE EnterValidation(t)
      <3>1. [txn |-> t, rows |-> WriteSet(t)] \in Entry
        BY <1>0 DEF Entry
      <3>2. active \subseteq Entry /\ Len(history) \in Nat
        <4>1. history \in Seq(Entry)
          BY DEF TypeOK, Entry
        <4> QED BY <4>1 DEF TypeOK, Entry
      <3>3. active' \subseteq Entry
        BY <2>1, <3>1, <3>2 DEF EnterValidation
      <3>4. IsFiniteSet(active')
        BY <2>1, FS_AddElement DEF EnterValidation, CentralTypes
      <3>5. check' \in [Threads -> [finish_tn : Nat, finish_active : SUBSET Entry]]
        BY <2>1, <3>2 DEF EnterValidation, CentralTypes
      <3> QED BY <3>3, <3>4, <3>5 DEF CentralTypes
    <2>2. CASE ~ EnterValidation(t)
      <3>1. UNCHANGED <<active, check>>
        BY <2>2 DEF LatchRow, TakeEndTs, Written, UnlatchRow, CheckSets, centralVars
      <3> QED BY <3>1 DEF CentralTypes, TypeOK, Entry
    <2> QED BY <2>1, <2>2
  <1>5. TypeOK'
    BY <1>1, <1>2, <1>3, <1>4 DEF TypeOK, Entry
  <1>6. \A u \in Threads : Progress(u)'
    <2>1. pc'[t] = l
      BY <1>2 DEF TypeOK
    <2>2. OneEach(accesses[t]) /\ txn_cnt[t] < MAX_TXN_PER_PART
      BY <1>0, <1>1 DEF Progress
    <2> QED BY <1>0, <1>1, <1>2, <2>1, <2>2, ProgressStep
  <1> QED BY <1>4, <1>5, <1>6

LEMMA WriteTypes ==
  ASSUME ThreadInv, NEW t \in Threads, WriteRow(t)
  PROVE  ThreadInv'
  <1> USE DEF ThreadInv
  <1> DEFINE acc == accesses[t]
  <1>1. /\ UNCHANGED <<timestamp, latch, active, history, check, query, start_ts, end_ts,
                       rc, pc, txn_cnt>>
        /\ accesses' = [accesses EXCEPT ![t] = Front(acc)]
        /\ pc[t] = "write" /\ acc # <<>>
    BY DEF WriteRow, centralVars
  <1>2. acc \in Seq(Access) /\ Progress(t) /\ Step(t)
    BY ThreadFacts DEF Step
  <1> HIDE DEF acc
  <1>3. /\ Front(acc) \in Seq(Access) /\ Len(Front(acc)) = Len(acc) - 1
        /\ \A k \in 1..(Len(acc) - 1) : Front(acc)[k] = acc[k]
        /\ Last(acc) \in Access
    BY <1>1, <1>2, FrontLemma
  <1>4. data' \in [Rows -> Nat] /\ wts' \in [Rows -> Nat]
    <2>1. Last(acc).row \in Rows /\ Last(acc).data \in Nat
      BY <1>3, AccessFields
    <2>2. NewWts(t, Last(acc).row) \in Nat
      BY <2>1 DEF NewWts, TypeOK
    <2>3. data \in [Rows -> Nat] /\ wts \in [Rows -> Nat]
      BY DEF TypeOK
    <2>4. CASE Last(acc).type = "WR"
      <3>1. /\ data' = [data EXCEPT ![Last(acc).row] = Last(acc).data + 1]
            /\ wts' = [wts EXCEPT ![Last(acc).row] = NewWts(t, Last(acc).row)]
        BY <2>4 DEF WriteRow, acc
      <3>2. Last(acc).data + 1 \in Nat
        BY <2>1
      <3> QED BY <2>1, <2>2, <2>3, <3>1, <3>2
    <2>5. CASE Last(acc).type # "WR"
      <3>1. data' = data /\ wts' = wts
        BY <2>5 DEF WriteRow, acc
      <3> QED BY <2>3, <3>1
    <2> QED BY <2>4, <2>5
  <1>5. TypeOK'
    BY <1>1, <1>3, <1>4 DEF TypeOK
  <1>6. CentralTypes'
    BY <1>1 DEF CentralTypes
  <1>7. OneEach(Front(acc))
    <2>1. OneEach(acc) /\ Len(acc) \in Nat
      BY <1>2 DEF Progress, acc
    <2> QED BY <1>3, <2>1 DEF OneEach
  <1>8. accesses'[t] = Front(acc)
    BY <1>1 DEF TypeOK
  <1>9. txn_cnt[t] < MAX_TXN_PER_PART
    BY <1>1, <1>2 DEF Progress
  <1>10. \A u \in Threads : Progress(u)'
    BY <1>1, <1>2, <1>7, <1>8, <1>9, ProgressStep
  <1> QED BY <1>5, <1>6, <1>10

LEMMA EndTypes ==
  ASSUME ThreadInv, NEW t \in Threads, TxnEnds(t)
  PROVE  ThreadInv'
  <1> USE DEF ThreadInv
  <1>1. /\ UNCHANGED <<timestamp, latch, wts, data, active, history, check, query, start_ts,
                       end_ts>>
        /\ accesses' = [accesses EXCEPT ![t] = <<>>]
        /\ rc' = [rc EXCEPT ![t] = "RCOK"]
        /\ pc[t] = "unlatch"
    BY DEF TxnEnds, rowVars, centralVars
  <1>2. Progress(t) /\ Step(t) /\ txn_cnt[t] \in Nat /\ txn_cnt[t] < MAX_TXN_PER_PART
    BY <1>1 DEF Step, Progress, TypeOK
  <1>3. /\ pc' \in [Threads -> PC] /\ txn_cnt' \in [Threads -> 0..MAX_TXN_PER_PART]
        /\ pc'[t] \in {"retry", "idle", "finished"}
        /\ pc'[t] # "finished" => txn_cnt'[t] < MAX_TXN_PER_PART
    <2>1. pc \in [Threads -> PC] /\ txn_cnt \in [Threads -> 0..MAX_TXN_PER_PART]
      BY DEF TypeOK
    <2>2. CASE rc[t] = "Abort"
      <3>1. pc' = [pc EXCEPT ![t] = "retry"] /\ txn_cnt' = txn_cnt
        BY <2>2 DEF TxnEnds, Goto
      <3> QED BY <1>2, <2>1, <3>1 DEF PC
    <2>3. CASE rc[t] # "Abort"
      <3>1. /\ txn_cnt' = [txn_cnt EXCEPT ![t] = txn_cnt[t] + 1]
            /\ pc' = [pc EXCEPT ![t] = IF Done(t) THEN "finished" ELSE "idle"]
        BY <2>3 DEF TxnEnds, Goto
      <3>2. txn_cnt[t] + 1 \in 0..MAX_TXN_PER_PART /\ txn_cnt'[t] = txn_cnt[t] + 1
        BY <1>2, <2>1, <3>1, ConfigAssumption
      <3>3. CASE Done(t)
        <4>1. pc' = [pc EXCEPT ![t] = "finished"]
          BY <3>1, <3>3
        <4> QED BY <2>1, <3>1, <3>2, <4>1 DEF PC
      <3>4. CASE ~ Done(t)
        <4>1. pc' = [pc EXCEPT ![t] = "idle"]
          BY <3>1, <3>4
        <4>2. txn_cnt[t] + 1 < MAX_TXN_PER_PART
          BY <1>2, <3>4, ConfigAssumption DEF Done
        <4> QED BY <2>1, <3>1, <3>2, <4>1, <4>2 DEF PC
      <3> QED BY <3>3, <3>4
    <2> QED BY <2>2, <2>3
  <1>4. <<>> \in Seq(Access) /\ OneEach(<<>>)
    BY DEF OneEach
  <1>5. TypeOK' /\ CentralTypes'
    BY <1>1, <1>3, <1>4 DEF TypeOK, CentralTypes
  <1>6. accesses'[t] = <<>>
    BY <1>1 DEF TypeOK
  <1>7. \A u \in Threads : Progress(u)'
    BY <1>1, <1>2, <1>3, <1>4, <1>6, ProgressStep
  <1> QED BY <1>5, <1>7

LEMMA LeaveTypes ==
  ASSUME ThreadInv, NEW t \in Threads, LeaveValidation(t)
  PROVE  ThreadInv'
  <1> USE DEF ThreadInv
  <1> DEFINE mine == {w \in active : w.txn = t}
  <1>1. /\ UNCHANGED <<timestamp, latch, wts, data, check, query, accesses, start_ts, end_ts,
                       rc, txn_cnt>>
        /\ active' = {w \in active : w.txn # t}
        /\ history' = IF rc[t] = "RCOK" THEN history \o SetToSeq(mine) ELSE history
        /\ pc' = [pc EXCEPT ![t] = "unlatch"] /\ pc[t] = "leave"
    BY DEF LeaveValidation, rowVars, Goto
  <1>2. /\ active' \subseteq active /\ mine \subseteq active /\ active \subseteq Entry
        /\ IsFiniteSet(active) /\ history \in Seq(Entry)
    BY <1>1 DEF TypeOK, CentralTypes, Entry
  <1> HIDE DEF mine
  <1>3. SetToSeq(mine) \in Seq(Entry)
    <2>1. IsFiniteSet(mine)
      BY <1>2, FS_Subset
    <2> DEFINE n == Cardinality(mine)
    <2>2. n \in Nat /\ \E f \in [1..n -> mine] : IsInjective(f)
      BY <2>1, FS_CardinalityType DEF ExistsBijection, Bijection, Injection
    <2>3. SetToSeq(mine) = CHOOSE f \in [1..n -> mine] : IsInjective(f)
      BY DEF SetToSeq
    <2> HIDE DEF n
    <2>4. SetToSeq(mine) \in [1..n -> mine]
      BY <2>2, <2>3
    <2>5. SetToSeq(mine) \in [1..n -> Entry]
      BY <1>2, <2>4
    <2> QED BY <2>2, <2>5
  <1>4. history' \in Seq(Entry)
    <2>1. history \o SetToSeq(mine) \in Seq(Entry)
      BY <1>2, <1>3, ConcatLemma
    <2> QED BY <1>1, <1>2, <2>1
  <1>5. TypeOK'
    <2>1. pc' \in [Threads -> PC]
      BY <1>1 DEF TypeOK, PC
    <2> QED BY <1>1, <1>2, <1>4, <2>1 DEF TypeOK, Entry
  <1>6. CentralTypes'
    <2>1. IsFiniteSet(active')
      BY <1>2, FS_Subset
    <2> QED BY <1>1, <2>1 DEF CentralTypes
  <1>7. pc'[t] = "unlatch" /\ Progress(t) /\ Step(t)
    BY <1>1 DEF TypeOK, Step
  <1>8. \A u \in Threads : Progress(u)'
    <2>1. OneEach(accesses[t]) /\ txn_cnt[t] < MAX_TXN_PER_PART
      BY <1>1, <1>7 DEF Progress
    <2> QED BY <1>1, <1>7, <2>1, ProgressStep
  <1> QED BY <1>5, <1>6, <1>8

LEMMA ThreadStep ==
  ASSUME ThreadInv, NEW t \in Threads, Step(t)
  PROVE  ThreadInv'
  <1>1. CASE StartTxn(t) \/ RetryTxn(t)
    <2>1. PICK q \in Queries : Begin(t, q)
      BY <1>1 DEF StartTxn, RetryTxn, ThreadInv, Progress
    <2>2. pc[t] \in {"idle", "retry"}
      BY <1>1 DEF StartTxn, RetryTxn
    <2> QED BY <2>1, <2>2, BeginTypes
  <1> QED BY <1>1, ReadTypes, ValidationTypes, WriteTypes, EndTypes, LeaveTypes DEF Step

------------------------------------------------------------------------------
(***************************************************************************)
(* What a step changes                                                     *)
(***************************************************************************)

\* A row that t copies back leaves its write set with the value t computed and
\* the timestamp of t; the other rows stay as they are.
LEMMA WriteBack ==
  ASSUME ThreadInv, NEW t \in Threads, WriteRow(t)
  PROVE  /\ RowsOf(t)' \subseteq RowsOf(t) /\ WriteSet(t)' \subseteq WriteSet(t)
         /\ \A s \in WriteSet(t) \ WriteSet(t)' :
              /\ wts'[s] = NewWts(t, s)
              /\ \E k \in 1..Len(accesses[t]) :
                   accesses[t][k].row = s /\ data'[s] = accesses[t][k].data + 1
         /\ \A s \in Rows : s \notin WriteSet(t) \ WriteSet(t)' =>
              data'[s] = data[s] /\ wts'[s] = wts[s]
  <1> DEFINE acc == accesses[t]
             a   == Last(acc)
             n   == Len(acc)
  <1>1. /\ acc \in Seq(Access) /\ acc # <<>> /\ OneEach(acc) /\ n \in Nat
        /\ \A k \in 1..n : acc[k].row \in Rows
        /\ RowsOf(t) = {acc[k].row : k \in 1..n}
        /\ WriteSet(t) = {acc[k].row : k \in {j \in 1..n : acc[j].type = "WR"}}
    BY ThreadFacts DEF WriteRow, ThreadInv, Progress
  <1>2. accesses'[t] = Front(acc)
    BY DEF WriteRow, ThreadInv, TypeOK
  <1>3. /\ a.type = "WR" => /\ data' = [data EXCEPT ![a.row] = a.data + 1]
                            /\ wts' = [wts EXCEPT ![a.row] = NewWts(t, a.row)]
        /\ a.type # "WR" => data' = data /\ wts' = wts
        /\ data \in [Rows -> Nat] /\ wts \in [Rows -> Nat]
    BY DEF WriteRow, ThreadInv, TypeOK
  <1> HIDE DEF acc
  <1>4. /\ Front(acc) \in Seq(Access) /\ Len(Front(acc)) = n - 1
        /\ \A k \in 1..(n - 1) : Front(acc)[k] = acc[k]
        /\ a = acc[n] /\ n \in 1..n
    BY <1>1, FrontLemma
  <1> HIDE DEF a, n
  <1>5. DOMAIN Front(acc) = 1..(n - 1) /\ \A k \in 1..(n - 1) : k \in 1..n /\ k # n
    BY <1>1, <1>4
  <1>6. /\ RowsOf(t)' = {acc[k].row : k \in 1..(n - 1)}
        /\ WriteSet(t)' = {acc[k].row : k \in {j \in 1..(n - 1) : acc[j].type = "WR"}}
    BY <1>2, <1>4, <1>5 DEF RowsOf, WriteSet
  <1>7. RowsOf(t)' \subseteq RowsOf(t) /\ WriteSet(t)' \subseteq WriteSet(t)
    BY <1>1, <1>5, <1>6
  <1>8. \A k \in 1..(n - 1) : acc[k].row # a.row
    BY <1>1, <1>4, <1>5 DEF OneEach, n
  <1>9. WriteSet(t) \ WriteSet(t)' = IF a.type = "WR" THEN {a.row} ELSE {}
    <2>1. \A k \in 1..n : k \in 1..(n - 1) \/ k = n
      BY <1>1
    <2>2. ASSUME NEW s \in WriteSet(t) \ WriteSet(t)' PROVE a.type = "WR" /\ s = a.row
      BY <1>1, <1>4, <1>6, <2>1
    <2>3. a.type = "WR" => a.row \in WriteSet(t)
      BY <1>1, <1>4
    <2>4. a.row \notin WriteSet(t)'
      BY <1>6, <1>8
    <2> QED BY <2>2, <2>3, <2>4
  <1>10. a.row \in Rows
    BY <1>1, <1>4
  <1>11. \A s \in WriteSet(t) \ WriteSet(t)' :
           /\ wts'[s] = NewWts(t, s)
           /\ \E k \in 1..n : acc[k].row = s /\ data'[s] = acc[k].data + 1
    BY <1>3, <1>4, <1>9, <1>10
  <1>12. \A s \in Rows : s \notin WriteSet(t) \ WriteSet(t)' =>
           data'[s] = data[s] /\ wts'[s] = wts[s]
    BY <1>3, <1>9, <1>10
  <1> QED BY <1>7, <1>11, <1>12 DEF acc, n

\* Only the thread that copies it back changes a row.
LEMMA RowsStay ==
  ASSUME NEW t \in Threads, Step(t), ~ WriteRow(t)
  PROVE  data' = data /\ wts' = wts
  BY DEF Step, StartTxn, RetryTxn, Begin, ReadRow, ReadAborts, FinishTxn, LatchRow,
     TakeEndTs, Written, UnlatchRow, TxnEnds, EnterValidation, CheckSets, LeaveValidation,
     rowVars

\* Timestamps are drawn in increasing order.
LEMMA DrawnStep ==
  ASSUME ThreadInv, Drawn, NEW t \in Threads, Step(t)
  PROVE  Drawn'
  <1>1. /\ timestamp \in Nat /\ start_ts \in [Threads -> Nat] /\ end_ts \in [Threads -> Nat]
        /\ wts \in [Rows -> Nat]
    BY DEF ThreadInv, TypeOK
  <1>2. CASE StartTxn(t) \/ RetryTxn(t)
    <2>1. /\ start_ts' = [start_ts EXCEPT ![t] = timestamp] /\ timestamp' = timestamp + 1
          /\ end_ts' = end_ts /\ wts' = wts
      BY <1>2 DEF StartTxn, RetryTxn, Begin, DrawStartTs, rowVars
    <2> QED BY <1>1, <2>1 DEF Drawn
  <1>3. CASE TakeEndTs(t)
    <2>1. /\ end_ts' = [end_ts EXCEPT ![t] = timestamp] /\ timestamp' = timestamp + 1
          /\ start_ts' = start_ts /\ wts' = wts
      BY <1>3 DEF TakeEndTs, rowVars
    <2> QED BY <1>1, <2>1 DEF Drawn
  <1>4. CASE WriteRow(t)
    <2>1. timestamp' = timestamp /\ start_ts' = start_ts /\ end_ts' = end_ts
      BY <1>4 DEF WriteRow
    <2>2. \A s \in Rows : wts'[s] = wts[s] \/ wts'[s] = end_ts[t]
      BY <1>4, WriteBack DEF NewWts
    <2> QED BY <1>1, <2>1, <2>2 DEF Drawn
  <1>5. CASE ~ (StartTxn(t) \/ RetryTxn(t) \/ TakeEndTs(t) \/ WriteRow(t))
    <2>1. UNCHANGED <<timestamp, start_ts, end_ts>>
      BY <1>5 DEF Step, ReadRow, ReadAborts, FinishTxn, LatchRow, Written, UnlatchRow,
         TxnEnds, EnterValidation, CheckSets, LeaveValidation
    <2>2. wts' = wts
      BY <1>5, RowsStay
    <2> QED BY <2>1, <2>2 DEF Drawn
  <1> QED BY <1>2, <1>3, <1>4, <1>5

\* With PER_ROW_VALID a row is changed by the thread that has its latch, with a
\* timestamp later than the start of every transaction that has copied it.
LEMMA HolderWrites ==
  ASSUME ThreadInv, NEW t \in Threads, Latches(t), PER_ROW_VALID, Step(t), NEW s \in Rows,
         data'[s] # data[s] \/ wts'[s] # wts[s]
  PROVE  WriteRow(t) /\ pc[t] = "write" /\ latch[s] = t /\ wts'[s] = end_ts[t]
  <1>1. WriteRow(t)
    BY RowsStay
  <1>2. pc[t] = "write" /\ RowsOf(t) \subseteq Held(t)
    BY <1>1 DEF WriteRow, Latches
  <1>3. WriteSet(t) \subseteq RowsOf(t)
    BY ThreadFacts DEF ThreadInv
  <1>4. s \in WriteSet(t) /\ wts'[s] = NewWts(t, s)
    BY <1>1, WriteBack
  <1> QED BY <1>1, <1>2, <1>3, <1>4 DEF NewWts, Held

------------------------------------------------------------------------------
(***************************************************************************)
(* Latches                                                                 *)
(***************************************************************************)

\* The next row that t latches is the next of its accesses.
LEMMA LatchNext ==
  ASSUME ThreadInv, NEW t \in Threads, Latches(t), LatchRow(t)
  PROVE  Latches(t)'
  <1>1. /\ accesses[t] \in Seq(Access) /\ Len(accesses[t]) \in Nat
        /\ DOMAIN accesses[t] = 1..Len(accesses[t])
        /\ \A k \in 1..Len(accesses[t]) : accesses[t][k].row \in Rows
        /\ OneEach(accesses[t]) /\ latch \in [Rows -> Threads \union {NoThread}]
        /\ RowsOf(t) = {accesses[t][k].row : k \in 1..Len(accesses[t])}
    BY ThreadFacts DEF ThreadInv, Progress, TypeOK
  <1>2. /\ PER_ROW_VALID /\ pc[t] = "validate"
        /\ UNCHANGED <<accesses, wts, start_ts>>
        /\ Ascending(accesses[t]) /\ LatchedPrefix(t)
        /\ \A s \in Held(t) : valid_at(start_ts[t], s)
    BY DEF LatchRow, Latches
  <1>3. PICK k \in 1..Len(accesses[t]) :
          LET r == accesses[t][k].row
          IN /\ k = Cardinality(Held(t)) + 1
             /\ latch[r] = NoThread
             /\ latch' = [latch EXCEPT ![r] = t]
             /\ IF valid_at(start_ts[t], r)
                THEN UNCHANGED <<rc, pc>>
                ELSE rc' = [rc EXCEPT ![t] = "Abort"] /\ Goto(t, "unlatch")
    BY <1>1 DEF LatchRow
  <1> DEFINE r == accesses[t][k].row
  <1>4. CASE ~ valid_at(start_ts[t], r)
    <2>1. pc' = [pc EXCEPT ![t] = "unlatch"]
      BY <1>3, <1>4 DEF Goto
    <2>2. pc'[t] = "unlatch"
      BY <2>1 DEF ThreadInv, TypeOK
    <2> QED BY <2>2 DEF Latches
  <1>5. CASE valid_at(start_ts[t], r)
    <2>1. pc' = pc /\ r \in Rows /\ latch[r] = NoThread /\ latch' = [latch EXCEPT ![r] = t]
      BY <1>1, <1>3, <1>5
    <2>2. NoThread # t
      BY ConfigAssumption
    <2>3. Held(t)' = Held(t) \union {r} /\ r \notin Held(t)
      BY <1>1, <2>1, <2>2 DEF Held
    <2>4. /\ IsFiniteSet(Held(t)) /\ Cardinality(Held(t)) \in Nat
          /\ Cardinality(Held(t)') = Cardinality(Held(t)) + 1 /\ IsFiniteSet(Held(t)')
      <3>1. IsFiniteSet(Held(t))
        BY <1>2 DEF LatchedPrefix
      <3> QED BY <2>3, <3>1, FS_AddElement, FS_CardinalityType
    <2>5. Held(t)' \subseteq RowsOf(t) /\ RowsOf(t)' = RowsOf(t)
      BY <1>1, <1>2, <2>3 DEF LatchedPrefix, RowsOf
    <2>6. ASSUME NEW j \in 1..Len(accesses[t])
          PROVE  latch'[accesses[t][j].row] = t <=> j <= Cardinality(Held(t)')
      <3>1. latch[accesses[t][j].row] = t <=> j <= Cardinality(Held(t))
        BY <1>2 DEF LatchedPrefix
      <3>2. k = Cardinality(Held(t)) + 1 /\ k = Cardinality(Held(t)')
        BY <1>3, <2>4
      <3>3. CASE j = k
        BY <1>1, <2>1, <3>2, <3>3
      <3>4. CASE j # k
        <4>1. accesses[t][j].row # r /\ accesses[t][j].row \in Rows
          BY <1>1, <3>4 DEF OneEach
        <4>2. latch'[accesses[t][j].row] = latch[accesses[t][j].row]
          BY <2>1, <4>1
        <4> QED BY <2>4, <3>1, <3>2, <3>4, <4>2
      <3> QED BY <3>3, <3>4
    <2>7. LatchedPrefix(t)'
      BY <1>2, <2>4, <2>5, <2>6 DEF LatchedPrefix
    <2>8. \A s \in Held(t)' : valid_at(start_ts[t], s)'
      BY <1>2, <1>5, <2>3 DEF valid_at
    <2> QED BY <1>2, <2>1, <2>7, <2>8 DEF Latches
  <1> QED BY <1>4, <1>5

\* A transaction that finishes has its accesses in the order of their latches.
LEMMA FinishFacts ==
  ASSUME ThreadInv, NEW t \in Threads, FinishTxn(t)
  PROVE  /\ accesses'[t] \in Seq(Access) /\ Len(accesses'[t]) = Len(accesses[t])
         /\ \A i \in 1..Len(accesses[t]) : \E j \in 1..Len(accesses[t]) :
              accesses'[t][i] = accesses[t][j]
         /\ \A j \in 1..Len(accesses[t]) : \E i \in 1..Len(accesses[t]) :
              accesses'[t][i] = accesses[t][j]
         /\ PER_ROW_VALID => Ascending(accesses'[t])
  <1> DEFINE acc == accesses[t]
  <1>1. /\ acc \in Seq(Access) /\ Len(acc) \in Nat /\ DOMAIN acc = 1..Len(acc)
        /\ OneEach(acc) /\ accesses \in [Threads -> Seq(Access)]
    BY ThreadFacts DEF ThreadInv, Progress, TypeOK
  <1>2. PICK p \in [DOMAIN acc -> DOMAIN acc] :
          /\ IF PER_ROW_VALID THEN sorted(acc, p) ELSE \A i \in DOMAIN p : p[i] = i
          /\ accesses' = [accesses EXCEPT ![t] = [i \in DOMAIN acc |-> acc[p[i]]]]
    BY DEF FinishTxn
  <1> DEFINE s == [i \in DOMAIN acc |-> acc[p[i]]]
  <1>3. s \in Seq(Access) /\ Len(s) = Len(acc) /\ \A i \in 1..Len(acc) : s[i] = acc[p[i]]
    BY <1>1
  <1>4. accesses'[t] = s
    BY <1>1, <1>2
  <1> HIDE DEF s, acc
  <1>5. sorted(acc, p) \/ \A i \in DOMAIN p : p[i] = i
    BY <1>2
  <1>6. /\ \A i \in 1..Len(s) : \E j \in 1..Len(acc) : s[i] = acc[j]
        /\ \A j \in 1..Len(acc) : \E i \in 1..Len(s) : s[i] = acc[j]
        /\ sorted(acc, p) => Ascending(s)
    BY <1>1, <1>3, <1>5, Permuted
  <1>7. PER_ROW_VALID => Ascending(s)
    BY <1>2, <1>6
  <1>8. /\ s \in Seq(Access) /\ Len(s) = Len(acc)
        /\ \A i \in 1..Len(acc) : \E j \in 1..Len(acc) : s[i] = acc[j]
        /\ \A j \in 1..Len(acc) : \E i \in 1..Len(acc) : s[i] = acc[j]
    BY <1>3, <1>6
  <1> QED BY <1>4, <1>7, <1>8 DEF acc

\* The latches of every thread stay as its place in the transaction says.
LEMMA LatchesStep ==
  ASSUME ThreadInv, NEW t \in Threads, Step(t), \A u \in Threads : Latches(u),
         NEW u \in Threads
  PROVE  Latches(u)'
  <1>0. TypeOK /\ CentralTypes /\ Progress(t) /\ Latches(t) /\ pc \in [Threads -> PC]
    BY DEF ThreadInv, TypeOK
  <1>1. CASE u # t
    <2>1. /\ pc'[u] = pc[u] /\ accesses'[u] = accesses[u] /\ start_ts'[u] = start_ts[u]
          /\ Held(u)' = Held(u) /\ \A r \in Rows : latch'[r] = u <=> latch[r] = u
          /\ RowsOf(u)' = RowsOf(u)
      BY <1>0, <1>1, OthersStay DEF RowsOf
    <2>2. LatchedPrefix(u) => LatchedPrefix(u)'
      <3>1. \A k \in 1..Len(accesses[u]) : accesses[u][k].row \in Rows
        BY <1>0, ThreadFacts
      <3> QED BY <2>1, <3>1 DEF LatchedPrefix
    <2>3. ASSUME PER_ROW_VALID, NEW r \in Held(u), valid_at(start_ts[u], r)
          PROVE  valid_at(start_ts[u], r)'
      <3>1. wts'[r] = wts[r]
        BY <1>0, <1>1, <2>3, HolderWrites DEF Held
      <3> QED BY <2>1, <2>3, <3>1 DEF valid_at
    <2>4. Latches(u)
      OBVIOUS
    <2>5. ASSUME pc[u] = "validate", PER_ROW_VALID
          PROVE  /\ Ascending(accesses[u])' /\ LatchedPrefix(u)'
                 /\ \A r \in Held(u)' : valid_at(start_ts[u], r)'
      <3>1. \A r \in Held(u) : valid_at(start_ts[u], r)
        BY <2>4, <2>5 DEF Latches
      <3>2. \A r \in Held(u)' : valid_at(start_ts[u], r)'
        BY <2>1, <2>3, <2>5, <3>1
      <3>3. Ascending(accesses[u])' /\ LatchedPrefix(u)'
        BY <2>1, <2>2, <2>4, <2>5 DEF Latches, Ascending
      <3> QED BY <3>2, <3>3
    <2> QED BY <2>1, <2>4, <2>5 DEF Latches
  <1>2. CASE u = t
    <2>1. CASE StartTxn(t) \/ RetryTxn(t)
      <3>1. latch' = latch /\ pc'[t] = "run" /\ pc[t] \in {"idle", "retry"}
        BY <1>0, <2>1 DEF StartTxn, RetryTxn, Begin, Goto, rowVars
      <3> QED BY <1>0, <1>2, <3>1 DEF Latches, Held
    <2>2. CASE ReadRow(t) \/ ReadAborts(t)
      <3>1. latch' = latch /\ pc'[t] \in {"run", "retry"} /\ pc[t] = "run"
        BY <1>0, <2>2 DEF ReadRow, ReadAborts, Requests, Goto, rowVars
      <3> QED BY <1>0, <1>2, <3>1 DEF Latches, Held
    <2>3. CASE FinishTxn(t)
      <3>1. latch' = latch /\ pc'[t] = "validate" /\ pc[t] = "run"
        BY <1>0, <2>3 DEF FinishTxn, Goto, rowVars
      <3>2. Held(t) = {} /\ Held(t)' = {}
        BY <1>0, <3>1 DEF Latches, Held
      <3>3. /\ Len(accesses'[t]) = Len(accesses[t])
            /\ \A k \in 1..Len(accesses'[t]) : accesses'[t][k].row \in Rows
            /\ PER_ROW_VALID => Ascending(accesses'[t])
        <4>1. \A k \in 1..Len(accesses[t]) : accesses[t][k].row \in Rows
          BY <1>0, ThreadFacts
        <4>2. /\ Len(accesses'[t]) = Len(accesses[t])
              /\ \A i \in 1..Len(accesses[t]) : \E j \in 1..Len(accesses[t]) :
                   accesses'[t][i] = accesses[t][j]
              /\ PER_ROW_VALID => Ascending(accesses'[t])
          BY <2>3, FinishFacts
        <4> QED BY <4>1, <4>2
      <3>4. IsFiniteSet({}) /\ Cardinality({}) = 0
        BY FS_EmptySet
      <3>5. LatchedPrefix(t)'
        <4>1. \A k \in 1..Len(accesses'[t]) : latch'[accesses'[t][k].row] # t
          BY <3>1, <3>2, <3>3 DEF Held
        <4> QED BY <3>2, <3>4, <4>1 DEF LatchedPrefix
      <3> QED BY <1>2, <3>1, <3>2, <3>3, <3>5 DEF Latches
    <2>4. CASE LatchRow(t)
      BY <1>0, <1>2, <2>4, LatchNext
    <2>5. CASE TakeEndTs(t)
      <3>1. Held(t) = RowsOf(t) /\ UNCHANGED <<latch, accesses>> /\ pc'[t] = "write"
        BY <1>0, <2>5 DEF TakeEndTs, Goto, rowVars
      <3> QED BY <1>2, <3>1 DEF Latches, Held, RowsOf
    <2>6. CASE WriteRow(t)
      <3>1. latch' = latch /\ pc' = pc /\ pc[t] = "write"
        BY <2>6 DEF WriteRow
      <3>2. RowsOf(t)' \subseteq RowsOf(t)
        BY <2>6, WriteBack
      <3> QED BY <1>0, <1>2, <3>1, <3>2 DEF Latches, Held
    <2>7. CASE Written(t) \/ UnlatchRow(t) \/ EnterValidation(t) \/ LeaveValidation(t)
      <3>1. pc'[t] \in {"unlatch", "leave", "check"}
        BY <1>0, <2>7 DEF Written, UnlatchRow, EnterValidation, LeaveValidation, Goto
      <3> QED BY <1>2, <3>1 DEF Latches
    <2>8. CASE CheckSets(t)
      <3>1. pc'[t] \in {"write", "leave"} /\ ~ PER_ROW_VALID
        BY <1>0, <2>8 DEF CheckSets, Goto, Progress
      <3> QED BY <1>2, <3>1 DEF Latches
    <2>9. CASE TxnEnds(t)
      <3>1. Held(t) = {} /\ latch' = latch /\ pc'[t] \in {"retry", "finished", "idle"}
        BY <1>0, <2>9 DEF TxnEnds, Goto, rowVars
      <3> QED BY <1>2, <3>1 DEF Latches, Held
    <2> QED BY <2>1, <2>2, <2>3, <2>4, <2>5, <2>6, <2>7, <2>8, <2>9 DEF Step
  <1> QED BY <1>1, <1>2

------------------------------------------------------------------------------
(***************************************************************************)
(* Validation row by row                                                   *)
(***************************************************************************)

\* The end of u, drawn when u has all its latches, is later than the start of
\* whoever copied one of its rows before; nobody copies a latched row.
LEMMA StartedStep ==
  ASSUME ThreadInv, Drawn, NEW t \in Threads, Step(t), Latches(t), PER_ROW_VALID,
         NEW v \in Threads, NEW u \in Threads, StartedBefore(v, u)
  PROVE  StartedBefore(v, u)'
  <1>0. TypeOK /\ CentralTypes /\ Progress(t) /\ pc \in [Threads -> PC]
    BY DEF ThreadInv, TypeOK
  <1>1. SUFFICES ASSUME pc'[u] = "write", pc'[v] \in {"run", "validate"},
                        NEW k \in 1..Len(accesses'[v]), latch'[accesses'[v][k].row] = u
                 PROVE  start_ts'[v] < end_ts'[u]
    BY DEF StartedBefore
  <1>2. u # v
    BY <1>1
  <1>3. /\ accesses[v] \in Seq(Access) /\ Len(accesses[v]) \in Nat
        /\ DOMAIN accesses[v] = 1..Len(accesses[v])
        /\ \A j \in 1..Len(accesses[v]) : accesses[v][j].row \in Rows
        /\ accesses \in [Threads -> Seq(Access)]
    BY <1>0, ThreadFacts DEF TypeOK
  <1>4. CASE t = u
    <2>1. /\ accesses'[v] = accesses[v] /\ pc'[v] = pc[v] /\ start_ts'[v] = start_ts[v]
      BY <1>0, <1>2, <1>4, OthersStay
    <2>2. CASE TakeEndTs(t)
      <3>1. end_ts'[u] = timestamp
        BY <1>4, <2>2 DEF TakeEndTs, ThreadInv, TypeOK
      <3> QED BY <2>1, <3>1 DEF Drawn
    <2>3. CASE WriteRow(t)
      <3>1. latch' = latch /\ pc' = pc /\ end_ts' = end_ts
        BY <2>3 DEF WriteRow
      <3> QED BY <1>1, <2>1, <3>1 DEF StartedBefore
    <2>4. CASE ~ TakeEndTs(t) /\ ~ WriteRow(t)
      <3>1. ~ CheckSets(t)
        BY <1>0 DEF CheckSets, Progress
      <3>2. ~ LatchRow(t)
        BY <1>0, <1>1, <1>4 DEF LatchRow, Goto
      <3>3. ~ UnlatchRow(t)
        BY <1>1, <1>4 DEF UnlatchRow
      <3>4. pc'[t] # "write"
        BY <1>0, <2>4, <3>1, <3>2, <3>3 DEF Step, StartTxn, RetryTxn, Begin, ReadRow, ReadAborts,
           Requests, FinishTxn, Written, TxnEnds, EnterValidation, LeaveValidation, Goto
      <3> QED BY <1>1, <1>4, <3>4
    <2> QED BY <2>2, <2>3, <2>4
  <1>5. CASE t # u
    <2>1. /\ pc'[u] = pc[u] /\ end_ts'[u] = end_ts[u]
          /\ \A r \in Rows : latch'[r] = u <=> latch[r] = u
      BY <1>0, <1>5, OthersStay
    <2>2. CASE t # v
      <3>1. /\ accesses'[v] = accesses[v] /\ pc'[v] = pc[v] /\ start_ts'[v] = start_ts[v]
        BY <1>0, <2>2, OthersStay
      <3> QED BY <1>1, <1>3, <2>1, <3>1 DEF StartedBefore
    <2>3. CASE t = v
      <3>1. CASE StartTxn(t) \/ RetryTxn(t)
        <4>1. accesses'[v] = <<>>
          BY <1>3, <2>3, <3>1 DEF StartTxn, RetryTxn, Begin
        <4> QED BY <1>1, <4>1
      <3>2. CASE ReadRow(t)
        <4> DEFINE a == [row |-> Cur(v).row, type |-> Cur(v).type,
                         data |-> data[Cur(v).row]]
        <4>1. pc[v] = "run" /\ start_ts' = start_ts
          BY <2>3, <3>2 DEF ReadRow, Requests
        <4>6. accesses'[v] = Append(accesses[v], a) /\ latch[Cur(v).row] = NoThread
          BY <1>3, <2>3, <3>2 DEF ReadRow
        <4>7. a.row = Cur(v).row
          OBVIOUS
        <4> HIDE DEF a
        <4>2. accesses'[v] = Append(accesses[v], a) /\ latch[a.row] = NoThread
          BY <4>6, <4>7
        <4>3. latch' = latch
          BY <3>2 DEF ReadRow, rowVars
        <4>4. latch'[accesses'[v][k].row] # NoThread
          BY <1>1, ConfigAssumption
        <4>5. k \in 1..Len(accesses[v]) /\ accesses'[v][k] = accesses[v][k]
          BY <1>1, <1>3, <4>2, <4>3, <4>4
        <4> QED BY <1>1, <2>1, <4>1, <4>3, <4>5 DEF StartedBefore
      <3>3. CASE FinishTxn(t)
        <4>1. pc[v] = "run" /\ latch' = latch /\ start_ts' = start_ts
          BY <2>3, <3>3 DEF FinishTxn, rowVars
        <4>3. /\ Len(accesses'[t]) = Len(accesses[t])
              /\ \A i \in 1..Len(accesses[t]) : \E j \in 1..Len(accesses[t]) :
                   accesses'[t][i] = accesses[t][j]
          BY <3>3, FinishFacts
        <4>2. \E j \in 1..Len(accesses[v]) : accesses'[v][k] = accesses[v][j]
          BY <1>1, <2>3, <4>3
        <4> QED BY <1>1, <2>1, <4>1, <4>2 DEF StartedBefore
      <3>4. CASE LatchRow(t)
        <4>1. pc[v] = "validate" /\ accesses' = accesses /\ start_ts' = start_ts
          BY <2>3, <3>4 DEF LatchRow
        <4> QED BY <1>1, <1>3, <2>1, <4>1 DEF StartedBefore
      <3>5. CASE ~ (StartTxn(t) \/ RetryTxn(t) \/ ReadRow(t) \/ FinishTxn(t) \/ LatchRow(t))
        <4>1. pc'[t] \notin {"run", "validate"}
          <5>1. ~ UnlatchRow(t) /\ ~ WriteRow(t)
            BY <1>1, <2>3 DEF UnlatchRow, WriteRow
          <5> QED BY <1>0, <3>5, <5>1 DEF Step, ReadAborts, TakeEndTs, Written, TxnEnds, EnterValidation,
                 CheckSets, LeaveValidation, Goto
        <4> QED BY <1>1, <2>3, <4>1
      <3> QED BY <3>1, <3>2, <3>3, <3>4, <3>5
    <2> QED BY <2>2, <2>3
  <1> QED BY <1>4, <1>5

\* What t copied stays current for as long as it is valid: who changes the row
\* leaves a timestamp that makes t abort.
LEMMA CopyStep ==
  ASSUME ThreadInv, NEW t \in Threads, Step(t), Latches(t), PER_ROW_VALID,
         NEW v \in Threads, StartedBefore(v, t), CopyCurrent(v)
  PROVE  CopyCurrent(v)'
  <1>0. TypeOK /\ CentralTypes /\ Progress(t) /\ pc \in [Threads -> PC]
    BY DEF ThreadInv, TypeOK
  <1>1. SUFFICES ASSUME pc'[v] \in {"run", "validate"}, NEW k \in 1..Len(accesses'[v]),
                        ~ (start_ts'[v] < wts'[accesses'[v][k].row])
                 PROVE  data'[accesses'[v][k].row] = accesses'[v][k].data
    BY DEF CopyCurrent, valid_at
  <1>2. /\ accesses[v] \in Seq(Access) /\ Len(accesses[v]) \in Nat
        /\ DOMAIN accesses[v] = 1..Len(accesses[v])
        /\ \A j \in 1..Len(accesses[v]) : accesses[v][j].row \in Rows
        /\ accesses \in [Threads -> Seq(Access)]
    BY <1>0, ThreadFacts DEF TypeOK
  <1>3. pc[v] \in {"run", "validate"} =>
          \A j \in 1..Len(accesses[v]) :
            ~ (start_ts[v] < wts[accesses[v][j].row])
              => data[accesses[v][j].row] = accesses[v][j].data
    BY DEF CopyCurrent, valid_at
  <1>4. CASE t # v
    <2>1. /\ accesses'[v] = accesses[v] /\ pc'[v] = pc[v] /\ start_ts'[v] = start_ts[v]
      BY <1>0, <1>4, OthersStay
    <2> DEFINE r == accesses[v][k].row
    <2>2. r \in Rows
      BY <1>1, <1>2, <2>1
    <2>3. CASE data'[r] # data[r] \/ wts'[r] # wts[r]
      <3>1. pc[t] = "write" /\ latch[r] = t /\ wts'[r] = end_ts[t]
        BY <2>2, <2>3, HolderWrites
      <3>2. start_ts[v] < end_ts[t]
        BY <1>1, <2>1, <3>1 DEF StartedBefore
      <3> QED BY <1>1, <2>1, <3>1, <3>2
    <2>4. CASE data'[r] = data[r] /\ wts'[r] = wts[r]
      BY <1>1, <1>3, <2>1, <2>4
    <2> QED BY <2>3, <2>4
  <1>5. CASE t = v
    <2>1. CASE StartTxn(t) \/ RetryTxn(t)
      <3>1. accesses'[v] = <<>>
        BY <1>2, <1>5, <2>1 DEF StartTxn, RetryTxn, Begin
      <3> QED BY <1>1, <3>1
    <2>2. CASE ReadRow(t)
      <3>1. pc[v] = "run" /\ start_ts' = start_ts /\ data' = data /\ wts' = wts
        BY <1>5, <2>2 DEF ReadRow, Requests, rowVars
      <3>2. PICK a : accesses'[v] = Append(accesses[v], a) /\ data[a.row] = a.data
        BY <1>2, <1>5, <2>2 DEF ReadRow
      <3> QED BY <1>1, <1>2, <1>3, <3>1, <3>2
    <2>3. CASE FinishTxn(t)
      <3>1. pc[v] = "run" /\ start_ts' = start_ts /\ data' = data /\ wts' = wts
        BY <1>5, <2>3 DEF FinishTxn, rowVars
      <3>3. /\ Len(accesses'[t]) = Len(accesses[t])
            /\ \A i \in 1..Len(accesses[t]) : \E j \in 1..Len(accesses[t]) :
                 accesses'[t][i] = accesses[t][j]
        BY <2>3, FinishFacts
      <3>2. \E j \in 1..Len(accesses[v]) : accesses'[v][k] = accesses[v][j]
        BY <1>1, <1>5, <3>3
      <3> QED BY <1>1, <1>3, <3>1, <3>2
    <2>4. CASE LatchRow(t)
      <3>1. pc[v] = "validate" /\ UNCHANGED <<accesses, start_ts, data, wts>>
        BY <1>5, <2>4 DEF LatchRow
      <3> QED BY <1>1, <1>3, <3>1
    <2>5. CASE ~ (StartTxn(t) \/ RetryTxn(t) \/ ReadRow(t) \/ FinishTxn(t) \/ LatchRow(t))
      <3>1. pc'[t] \notin {"run", "validate"}
        <4>1. ~ UnlatchRow(t) /\ ~ WriteRow(t)
          BY <1>1, <1>5 DEF UnlatchRow, WriteRow
        <4> QED BY <1>0, <2>5, <4>1 DEF Step, ReadAborts, TakeEndTs, Written, TxnEnds,
               EnterValidation, CheckSets, LeaveValidation, Goto
      <3> QED BY <1>1, <1>5, <3>1
    <2> QED BY <2>1, <2>2, <2>3, <2>4, <2>5
  <1> QED BY <1>4, <1>5

LEMMA PerRowStep ==
  ASSUME ThreadInv, Drawn, \A u \in Threads : Latches(u), PerRow, NEW t \in Threads, Step(t)
  PROVE  PerRow'
  BY StartedStep, CopyStep DEF PerRow

------------------------------------------------------------------------------
(***************************************************************************)
(* Central validation                                                      *)
(***************************************************************************)

\* A thread under validation is either entering it, or was and writes no more.
LEMMA Validating ==
  ASSUME ThreadInv, NEW t \in Threads, Step(t), ~ PER_ROW_VALID,
         pc'[t] \in {"check", "write"}
  PROVE  \/ /\ EnterValidation(t) /\ pc'[t] = "check"
            /\ RowsOf(t)' = RowsOf(t) /\ WriteSet(t)' = WriteSet(t)
         \/ /\ pc[t] \in {"check", "write"} /\ check'[t] = check[t] /\ active' = active
            /\ RowsOf(t)' \subseteq RowsOf(t) /\ WriteSet(t)' \subseteq WriteSet(t)
            /\ pc[t] = "write" \/ (pc'[t] = "write" /\ central_valid(t))
  <1>0. TypeOK /\ CentralTypes /\ Progress(t) /\ pc \in [Threads -> PC]
    BY DEF ThreadInv, TypeOK
  <1>1. CASE EnterValidation(t)
    <2>1. accesses' = accesses /\ pc'[t] = "check"
      BY <1>0, <1>1 DEF EnterValidation, Goto
    <2> QED BY <1>1, <2>1 DEF RowsOf, WriteSet
  <1>2. CASE CheckSets(t)
    <2>1. accesses' = accesses /\ UNCHANGED <<active, check>> /\ pc[t] = "check"
      BY <1>2 DEF CheckSets, centralVars
    <2>2. pc'[t] = "write" /\ central_valid(t)
      BY <1>0, <1>2 DEF CheckSets, Goto
    <2> QED BY <2>1, <2>2 DEF RowsOf, WriteSet
  <1>3. CASE WriteRow(t)
    <2>1. UNCHANGED <<active, check, pc>> /\ pc[t] = "write"
      BY <1>3 DEF WriteRow, centralVars
    <2> QED BY <1>3, <2>1, WriteBack
  <1>4. CASE ~ (EnterValidation(t) \/ CheckSets(t) \/ WriteRow(t))
    <2>1. ~ UnlatchRow(t) /\ ~ ReadRow(t)
      BY DEF UnlatchRow, ReadRow, Requests
    <2>2. pc'[t] \notin {"check", "write"}
      BY <1>0, <1>4, <2>1 DEF Step, StartTxn, RetryTxn, Begin, ReadAborts, FinishTxn,
         LatchRow, TakeEndTs, Written, TxnEnds, LeaveValidation, Goto
    <2> QED BY <2>2
  <1> QED BY <1>1, <1>2, <1>3, <1>4

\* Only a thread itself takes its write set out of the active ones.
LEMMA StaysActive ==
  ASSUME ThreadInv, NEW t \in Threads, Step(t), NEW w \in active, w.txn # t
  PROVE  w \in active'
  <1>1. CASE EnterValidation(t)
    BY <1>1 DEF EnterValidation
  <1>2. CASE LeaveValidation(t)
    BY <1>2 DEF LeaveValidation
  <1>3. CASE ~ (EnterValidation(t) \/ LeaveValidation(t))
    <2>1. active' = active
      BY <1>3 DEF Step, StartTxn, RetryTxn, Begin, ReadRow, ReadAborts, FinishTxn, LatchRow,
         TakeEndTs, WriteRow, Written, UnlatchRow, TxnEnds, CheckSets, centralVars
    <2> QED BY <2>1
  <1> QED BY <1>1, <1>2, <1>3

\* Set w still stands for the rows of u when u has fewer of them.
LEMMA StandsLess ==
  ASSUME NEW w, NEW u, Stands(w, u), WriteSet(u)' \subseteq WriteSet(u)
  PROVE  Stands(w, u)'
  BY DEF Stands

LEMMA EnteredStep ==
  ASSUME ThreadInv, NEW t \in Threads, Step(t), ~ PER_ROW_VALID,
         NEW u \in Threads, Entered(u)
  PROVE  Entered(u)'
  <1>0. TypeOK /\ CentralTypes
    BY DEF ThreadInv
  <1>1. CASE u # t
    <2>1. /\ pc'[u] = pc[u] /\ check'[u] = check[u] /\ accesses'[u] = accesses[u]
          /\ RowsOf(u)' = RowsOf(u) /\ WriteSet(u)' = WriteSet(u)
      BY <1>0, <1>1, OthersStay DEF RowsOf, WriteSet
    <2>2. ASSUME NEW w \in active, Stands(w, u) PROVE w \in active' /\ Stands(w, u)'
      <3>1. w.txn # t
        BY <1>1, <2>2 DEF Stands
      <3> QED BY <2>1, <2>2, <3>1, StaysActive, StandsLess
    <2> QED BY <2>1, <2>2 DEF Entered
  <1>2. CASE u = t /\ pc'[t] \in {"check", "write"}
    <2>1. CASE EnterValidation(t) /\ pc'[t] = "check" /\ WriteSet(t)' = WriteSet(t)
      <3> DEFINE w == [txn |-> t, rows |-> WriteSet(t)]
      <3>1. WriteSet(t) # {} => w \in active'
        BY <2>1 DEF EnterValidation
      <3>2. w.txn = t /\ w.rows = WriteSet(t)
        OBVIOUS
      <3>3. Stands(w, t)'
        BY <2>1, <3>2 DEF Stands
      <3> QED BY <1>2, <2>1, <3>1, <3>3 DEF Entered
    <2>2. CASE /\ pc[t] \in {"check", "write"} /\ check'[t] = check[t] /\ active' = active
               /\ RowsOf(t)' \subseteq RowsOf(t) /\ WriteSet(t)' \subseteq WriteSet(t)
               /\ pc[t] = "write" \/ (pc'[t] = "write" /\ central_valid(t))
      <3>1. \A w \in check[t].finish_active : w.rows \intersect RowsOf(t) = {}
        BY <1>2, <2>2 DEF Entered, central_valid
      <3>2. WriteSet(t)' # {} => \E w \in active : Stands(w, t)'
        BY <1>2, <2>2, StandsLess DEF Entered
      <3> QED BY <1>2, <2>2, <3>1, <3>2 DEF Entered
    <2> QED BY <1>2, <2>1, <2>2, Validating
  <1>3. CASE u = t /\ pc'[t] \notin {"check", "write"}
    BY <1>3 DEF Entered
  <1> QED BY <1>1, <1>2, <1>3

\* Whoever enters the validation finds the write sets of those who are in it.
LEMMA OneChecksStep ==
  ASSUME ThreadInv, NEW t \in Threads, Step(t), ~ PER_ROW_VALID,
         NEW u \in Threads, u # t, Entered(u), OneChecks(t, u) \/ OneChecks(u, t)
  PROVE  OneChecks(t, u)' /\ OneChecks(u, t)'
  <1>0. TypeOK /\ CentralTypes
    BY DEF ThreadInv
  <1>1. /\ pc'[u] = pc[u] /\ check'[u] = check[u] /\ accesses'[u] = accesses[u]
        /\ WriteSet(u)' = WriteSet(u)
    BY <1>0, OthersStay DEF WriteSet
  <1>2. SUFFICES ASSUME pc'[t] \in {"check", "write"}, WriteSet(t)' # {},
                        pc'[u] \in {"check", "write"}, WriteSet(u)' # {}
                 PROVE  \/ \E w \in check'[t].finish_active : Stands(w, u)'
                        \/ \E w \in check'[u].finish_active : Stands(w, t)'
    BY DEF OneChecks
  <1>3. CASE EnterValidation(t)
    <2>1. PICK w \in active : Stands(w, u)
      BY <1>1, <1>2 DEF Entered
    <2>2. check'[t].finish_active = active
      BY <1>0, <1>3 DEF EnterValidation, CentralTypes
    <2>3. Stands(w, u)'
      BY <1>1, <2>1, StandsLess
    <2> QED BY <2>1, <2>2, <2>3
  <1>4. CASE /\ pc[t] \in {"check", "write"} /\ check'[t] = check[t]
             /\ WriteSet(t)' \subseteq WriteSet(t)
    <2>1. \/ \E w \in check[t].finish_active : Stands(w, u)
          \/ \E w \in check[u].finish_active : Stands(w, t)
      BY <1>1, <1>2, <1>4 DEF OneChecks
    <2> QED BY <1>1, <1>4, <2>1, StandsLess
  <1> QED BY <1>2, <1>3, <1>4, Validating

LEMMA CentralStep ==
  ASSUME ThreadInv, Central, NEW t \in Threads, Step(t)
  PROVE  Central'
  <1>1. SUFFICES ASSUME ~ PER_ROW_VALID
                 PROVE  /\ \A u \in Threads : Entered(u)'
                        /\ \A v, u \in Threads : v # u => OneChecks(v, u)'
    BY DEF Central
  <1>2. /\ \A u \in Threads : Entered(u)
        /\ \A v, u \in Threads : v # u => OneChecks(v, u)
    BY <1>1 DEF Central
  <1>3. \A u \in Threads : Entered(u)'
    BY <1>1, <1>2, EnteredStep
  <1>4. ASSUME NEW v \in Threads, NEW u \in Threads, v # u
        PROVE  OneChecks(v, u)'
    <2>1. CASE v = t \/ u = t
      BY <1>1, <1>2, <1>4, <2>1, OneChecksStep
    <2>2. CASE v # t /\ u # t
      <3>1. TypeOK /\ CentralTypes
        BY DEF ThreadInv
      <3>2. /\ pc'[u] = pc[u] /\ check'[u] = check[u] /\ WriteSet(u)' = WriteSet(u)
            /\ pc'[v] = pc[v] /\ check'[v] = check[v] /\ WriteSet(v)' = WriteSet(v)
        BY <2>2, <3>1, OthersStay DEF WriteSet
      <3>3. OneChecks(v, u)
        BY <1>2, <1>4
      <3> QED BY <3>2, <3>3 DEF OneChecks, Stands
    <2> QED BY <2>1, <2>2
  <1> QED BY <1>3, <1>4

------------------------------------------------------------------------------
(***************************************************************************)
(* The invariant and what follows from it                                  *)
(***************************************************************************)

LEMMA InitInv ==
  ASSUME Init PROVE IInv
  <1>1. TypeOK
    <2>1. <<>> \in Seq(Access) /\ <<>> \in Seq([txn : Threads, rows : SUBSET Rows])
      OBVIOUS
    <2>2. 0 \in 0..MAX_TXN_PER_PART
      BY ConfigAssumption
    <2> QED BY <2>1, <2>2 DEF Init, TypeOK, PC
  <1>2. CentralTypes
    <2>1. IsFiniteSet({})
      BY FS_EmptySet
    <2> QED BY <2>1 DEF Init, CentralTypes, NoCheck, Entry
  <1>3. \A t \in Threads : Progress(t)
    <2>1. 0 < MAX_TXN_PER_PART /\ OneEach(<<>>)
      BY ConfigAssumption DEF OneEach
    <2> QED BY <2>1 DEF Init, Progress
  <1>4. Drawn
    BY DEF Init, Drawn
  <1>5. \A t \in Threads : Latches(t)
    BY ConfigAssumption DEF Init, Latches, Held
  <1>6. PerRow /\ Central
    BY DEF Init, PerRow, Central, StartedBefore, CopyCurrent, Entered, OneChecks
  <1> QED BY <1>1, <1>2, <1>3, <1>4, <1>5, <1>6 DEF IInv, ThreadInv

LEMMA NextInv ==
  ASSUME IInv, [Next]_vars PROVE IInv'
  <1> USE DEF IInv
  <1>1. CASE \E t \in Threads : Step(t)
    <2>1. PICK t \in Threads : Step(t)
      BY <1>1
    <2>2. ThreadInv' /\ Drawn'
      BY <2>1, ThreadStep, DrawnStep
    <2>3. \A u \in Threads : Latches(u)'
      BY <2>1, LatchesStep
    <2>4. PerRow' /\ Central'
      BY <2>1, PerRowStep, CentralStep
    <2> QED BY <2>2, <2>3, <2>4
  <1>2. CASE UNCHANGED vars
    <2>1. UNCHANGED <<timestamp, latch, wts, data, active, history, check, query, accesses,
                      start_ts, end_ts, rc, pc, txn_cnt>>
      BY <1>2 DEF vars, rowVars, centralVars
    <2>2. ThreadInv' /\ Drawn'
      BY <2>1 DEF ThreadInv, TypeOK, CentralTypes, Progress, Drawn
    <2>3. ASSUME NEW u \in Threads PROVE Latches(u)'
      <3>1. Held(u)' = Held(u) /\ RowsOf(u)' = RowsOf(u)
        BY <2>1 DEF Held, RowsOf
      <3>2. Latches(u)
        OBVIOUS
      <3> QED BY <2>1, <3>1, <3>2 DEF Latches, LatchedPrefix, Ascending, valid_at
    <2>4. PerRow'
      BY <2>1 DEF PerRow, StartedBefore, CopyCurrent, valid_at
    <2>5. ASSUME NEW u \in Threads
          PROVE  /\ Entered(u) => Entered(u)'
                 /\ \A v \in Threads : OneChecks(u, v) => OneChecks(u, v)'
      <3>1. \A v \in Threads : WriteSet(v)' = WriteSet(v) /\ RowsOf(v)' = RowsOf(v)
        BY <2>1 DEF WriteSet, RowsOf
      <3> QED BY <2>1, <3>1 DEF Entered, OneChecks, Stands
    <2>6. Central'
      BY <2>5 DEF Central
    <2> QED BY <2>2, <2>3, <2>4, <2>6
  <1> QED BY <1>1, <1>2 DEF Next, Terminated

\* The inductive invariant, under both schemes of OptCC.
THEOREM Invariance == Spec => []IInv
  <1>1. Init => IInv
    BY InitInv
  <1>2. IInv /\ [Next]_vars => IInv'
    BY NextInv
  <1> QED BY <1>1, <1>2, PTL DEF Spec

\* Every variable keeps the type of the field it stands for, in both schemes.
THEOREM TypeCorrect == Spec => []TypeOK
  <1>1. IInv => TypeOK
    BY DEF IInv, ThreadInv
  <1> QED BY <1>1, Invariance, PTL

\* A copy whose row may still be validated has the value of the row.
THEOREM CopiesAlwaysCurrent == Spec => []CopiesCurrent
  <1>1. ASSUME IInv PROVE CopiesCurrent
    <2>1. SUFFICES ASSUME PER_ROW_VALID, NEW t \in Threads, NEW i \in DOMAIN accesses[t],
                          pc[t] \in {"run", "validate"},
                          valid_at(start_ts[t], accesses[t][i].row)
                   PROVE  data[accesses[t][i].row] = accesses[t][i].data
      BY DEF CopiesCurrent
    <2>2. i \in 1..Len(accesses[t])
      BY <1>1, ThreadFacts DEF IInv, ThreadInv
    <2> QED BY <1>1, <2>1, <2>2 DEF IInv, PerRow, CopyCurrent
  <1> QED BY <1>1, Invariance, PTL

\* Threads that wait for a latch do not wait in a circle: the row a thread waits
\* for has a greater key than those it has latched, so the thread whose next row
\* is greatest waits for none of them.
THEOREM LatchesOrdered == Spec => []NoLatchCycle
  <1>1. ASSUME IInv PROVE NoLatchCycle
    <2> SUFFICES ASSUME PER_ROW_VALID, NEW S \in SUBSET Threads, S # {},
                        \A t \in S :
                          /\ pc[t] = "validate"
                          /\ \E u \in S \ {t}, i \in DOMAIN accesses[t] :
                               i = Cardinality(Held(t)) + 1 /\ latch[accesses[t][i].row] = u
                 PROVE  FALSE
      BY DEF NoLatchCycle
    <2>0. TypeOK /\ \A t \in S : /\ DOMAIN accesses[t] = 1..Len(accesses[t])
                                 /\ \A k \in 1..Len(accesses[t]) : accesses[t][k].row \in Rows
                                 /\ RowsOf(t) = {accesses[t][k].row : k \in 1..Len(accesses[t])}
      BY <1>1, ThreadFacts DEF IInv, ThreadInv
    <2>1. \A t \in S : Ascending(accesses[t]) /\ LatchedPrefix(t)
      BY <1>1 DEF IInv, Latches
    <2> DEFINE Place(t) == Cardinality(Held(t)) + 1
               Wanted(t) == accesses[t][Place(t)].row
    <2>2. \A t \in S : /\ Place(t) \in 1..Len(accesses[t]) /\ Wanted(t) \in Rows
                       /\ Key[Wanted(t)] \in Nat
                       /\ \E u \in S : latch[Wanted(t)] = u
      BY <2>0, KeyAssumption
    <2> DEFINE f == [t \in S |-> Key[Wanted(t)]]
    <2>3. f \in [S -> Nat] /\ \A t \in S : f[t] = Key[Wanted(t)]
      BY <2>2
    <2>4. IsFiniteSet(S)
      BY ConfigAssumption, FS_Subset
    <2> HIDE DEF f
    <2>5. PICK t \in S : \A u \in S : ~ (f[t] < f[u])
      BY <2>3, <2>4, GreatestLemma
    <2>6. PICK u \in S : latch[Wanted(t)] = u
      BY <2>2
    <2>7. Wanted(t) \in Held(u) /\ Held(u) \subseteq RowsOf(u)
      BY <2>1, <2>2, <2>6 DEF Held, LatchedPrefix
    <2>8. PICK k \in 1..Len(accesses[u]) : accesses[u][k].row = Wanted(t)
      <3>1. RowsOf(u) = {accesses[u][k].row : k \in 1..Len(accesses[u])}
        BY <2>0
      <3> HIDE DEF Wanted
      <3> QED BY <2>7, <3>1
    <2>9. k <= Cardinality(Held(u)) /\ Cardinality(Held(u)) \in Nat
      <3>1. IsFiniteSet(Held(u)) /\ (latch[accesses[u][k].row] = u <=> k <= Cardinality(Held(u)))
        BY <2>1 DEF LatchedPrefix
      <3> QED BY <2>6, <2>8, <3>1, FS_CardinalityType
    <2>10. k < Place(u) /\ Place(u) \in 1..Len(accesses[u])
      BY <2>2, <2>9
    <2>11. Key[Wanted(t)] < Key[Wanted(u)]
      <3>1. Key[accesses[u][k].row] < Key[accesses[u][Place(u)].row]
        BY <2>1, <2>10 DEF Ascending
      <3> QED BY <2>8, <3>1
    <2> QED BY <2>3, <2>5, <2>11
  <1> QED BY <1>1, Invariance, PTL

LEMMA Exclusion ==
  ASSUME IInv PROVE WritersExclude
  <1> SUFFICES ASSUME NEW t \in Threads, NEW u \in Threads, t # u,
                      pc[t] = "write", pc[u] = "write",
                      NEW r \in WriteSet(t), r \in WriteSet(u)
               PROVE  FALSE
    BY DEF WritersExclude
  <1>1. WriteSet(t) \subseteq RowsOf(t) /\ WriteSet(u) \subseteq RowsOf(u)
    BY ThreadFacts DEF IInv, ThreadInv
  <1>2. CASE PER_ROW_VALID
    <2>1. RowsOf(t) \subseteq Held(t) /\ RowsOf(u) \subseteq Held(u)
      BY <1>2 DEF IInv, Latches
    <2>2. latch[r] = t /\ latch[r] = u
      BY <1>1, <2>1 DEF Held
    <2> QED BY <2>2
  <1>3. CASE ~ PER_ROW_VALID
    <2>1. Entered(t) /\ Entered(u) /\ OneChecks(t, u)
      BY <1>3 DEF IInv, Central
    <2>2. \/ \E w \in check[t].finish_active : Stands(w, u)
          \/ \E w \in check[u].finish_active : Stands(w, t)
      BY <2>1 DEF OneChecks
    <2>3. CASE \E w \in check[t].finish_active : Stands(w, u)
      BY <1>1, <2>1, <2>3 DEF Entered, Stands
    <2>4. CASE \E w \in check[u].finish_active : Stands(w, t)
      BY <1>1, <2>1, <2>4 DEF Entered, Stands
    <2> QED BY <2>2, <2>3, <2>4
  <1> QED BY <1>2, <1>3

\* Transactions that copy back at the same time write different rows: row by row
\* because each has the latch of what it writes, and centrally because one found
\* the write set of the other among those it checked.
THEOREM WritersAlwaysExclude == Spec => []WritersExclude
  <1> QED BY Exclusion, Invariance, PTL

------------------------------------------------------------------------------
(***************************************************************************)
(* With PER_ROW_VALID, OCC implements the store that runs one transaction  *)
(* at a time: a transaction commits when it draws end_ts                   *)
(***************************************************************************)

\* The committed value of a row that t has yet to copy back is the one in its
\* accesses; that of any other row is in the row.
CommittedIs(r) ==
  /\ \A t \in Threads : Pending(t, r) =>
       \A k \in 1..Len(accesses[t]) :
         accesses[t][k].row = r => CommittedData[r] = accesses[t][k].data + 1
  /\ (\A t \in Threads : ~ Pending(t, r)) => CommittedData[r] = data[r]

CommittedAll == CommittedData \in [Rows -> Nat] /\ \A r \in Rows : CommittedIs(r)

LEMMA Committed == IInv => CommittedAll
  <1> SUFFICES ASSUME IInv PROVE CommittedAll
    OBVIOUS
  <1>0. TypeOK /\ data \in [Rows -> Nat] /\ (\A u \in Threads : OneEach(accesses[u]))
    BY DEF IInv, ThreadInv, TypeOK, Progress
  <1>1. ASSUME NEW s \in Rows, ~ \E t \in Threads : Pending(t, s)
        PROVE  CommittedData[s] = data[s]
    BY <1>1 DEF CommittedData
  <1>2. ASSUME NEW s \in Rows, \E t \in Threads : Pending(t, s)
        PROVE  \E u \in Threads : \E i \in 1..Len(accesses[u]) :
                 /\ Pending(u, s) /\ accesses[u][i].row = s
                 /\ CommittedData[s] = accesses[u][i].data + 1
    <2> DEFINE u == CHOOSE t \in Threads : Pending(t, s)
               i == CHOOSE j \in DOMAIN accesses[u] : accesses[u][j].row = s
    <2>1. u \in Threads /\ Pending(u, s)
      BY <1>2
    <2>2. CommittedData[s] = accesses[u][i].data + 1
      BY <1>2 DEF CommittedData
    <2> HIDE DEF u
    <2>3. \E j \in DOMAIN accesses[u] : accesses[u][j].row = s
      BY <1>0, <2>1, ThreadFacts DEF Pending
    <2>4. i \in DOMAIN accesses[u] /\ accesses[u][i].row = s
      BY <2>3
    <2> HIDE DEF i
    <2>5. i \in 1..Len(accesses[u])
      BY <1>0, <2>1, <2>4, ThreadFacts
    <2> QED BY <2>1, <2>2, <2>4, <2>5
  <1>3. ASSUME NEW s \in Rows PROVE CommittedData[s] \in Nat
    <2>1. CASE \E t \in Threads : Pending(t, s)
      <3>1. PICK u \in Threads : \E i \in 1..Len(accesses[u]) :
              CommittedData[s] = accesses[u][i].data + 1
        BY <1>2, <2>1
      <3>2. \A i \in 1..Len(accesses[u]) : accesses[u][i].data \in Nat
        BY <1>0, ThreadFacts
      <3> QED BY <3>1, <3>2
    <2>2. CASE ~ \E t \in Threads : Pending(t, s)
      BY <1>0, <1>1, <2>2
    <2> QED BY <2>1, <2>2
  <1>4. CommittedData \in [Rows -> Nat]
    BY <1>3 DEF CommittedData
  <1>5. ASSUME NEW r \in Rows, NEW t \in Threads, Pending(t, r), NEW k \in 1..Len(accesses[t]),
               accesses[t][k].row = r
        PROVE  CommittedData[r] = accesses[t][k].data + 1
    <2>0. PICK u \in Threads : \E i \in 1..Len(accesses[u]) :
            /\ Pending(u, r) /\ accesses[u][i].row = r
            /\ CommittedData[r] = accesses[u][i].data + 1
      BY <1>2, <1>5
    <2>1. PICK i \in 1..Len(accesses[u]) :
            /\ Pending(u, r) /\ accesses[u][i].row = r
            /\ CommittedData[r] = accesses[u][i].data + 1
      BY <2>0
    <2>2. u = t
      BY <1>5, <2>1, Exclusion DEF WritersExclude, Pending
    <2>3. i = k
      BY <1>0, <1>5, <2>1, <2>2 DEF OneEach
    <2> QED BY <2>1, <2>2, <2>3
  <1> QED BY <1>1, <1>4, <1>5 DEF CommittedAll, CommittedIs

LEMMA CommittedNext == IInv' => CommittedAll'
  BY Committed, PTL

HasAccess(t, r) ==
  \E k \in 1..Len(accesses[t]) : accesses[t][k].row = r /\ accesses[t][k].type = "WR"

\* What t has yet to copy back is among its accesses.
LEMMA PendingAccess ==
  ASSUME ThreadInv, NEW t \in Threads, NEW r, Pending(t, r)
  PROVE  HasAccess(t, r)
  BY ThreadFacts DEF ThreadInv, Pending, HasAccess

LEMMA PendingAccessNext ==
  ASSUME NEW t \in Threads, NEW r
  PROVE  ThreadInv' /\ Pending(t, r)' => HasAccess(t, r)'
  <1>1. ThreadInv /\ Pending(t, r) => HasAccess(t, r)
    BY PendingAccess
  <1> QED BY <1>1, PTL

\* A row has the same committed value if who is to copy it back has the same one
\* for it, and if it stays as it is when there is nobody.
LEMMA CommittedSame ==
  ASSUME IInv, IInv', NEW r \in Rows,
         \A u \in Threads : Pending(u, r)' <=> Pending(u, r),
         \A u \in Threads : Pending(u, r)' => \A k \in 1..Len(accesses'[u]) :
           k \in 1..Len(accesses[u]) /\ accesses'[u][k] = accesses[u][k],
         (\A u \in Threads : ~ Pending(u, r)) => data'[r] = data[r]
  PROVE  CommittedData'[r] = CommittedData[r]
  <1>1. CASE \E u \in Threads : Pending(u, r)
    <2>1. PICK u \in Threads : Pending(u, r) /\ Pending(u, r)'
      BY <1>1
    <2>2. PICK k \in 1..Len(accesses'[u]) : accesses'[u][k].row = r
      <3>1. ThreadInv'
        BY DEF IInv
      <3> QED BY <2>1, <3>1, PendingAccessNext DEF HasAccess
    <2>3. k \in 1..Len(accesses[u]) /\ accesses'[u][k] = accesses[u][k]
      BY <2>1, <2>2
    <2>4. CommittedData[r] = accesses[u][k].data + 1
      BY <2>1, <2>2, <2>3, Committed DEF CommittedAll, CommittedIs
    <2>5. CommittedData'[r] = accesses'[u][k].data + 1
      BY <2>1, <2>2, CommittedNext DEF CommittedAll, CommittedIs
    <2> QED BY <2>3, <2>4, <2>5
  <1>2. CASE ~ \E u \in Threads : Pending(u, r)
    <2>1. CommittedData[r] = data[r] /\ CommittedData'[r] = data'[r]
      BY <1>2, Committed, CommittedNext DEF CommittedAll, CommittedIs
    <2> QED BY <1>2, <2>1
  <1> QED BY <1>1, <1>2

\* The commit of t is the transaction of the store.
LEMMA CommitStep ==
  ASSUME IInv, IInv', NEW t \in Threads, TakeEndTs(t)
  PROVE  Serial!Commit(t, query[t]) /\ query[t] \in Queries
  <1> DEFINE q   == query[t]
             acc == accesses[t]
  <1>1. /\ PER_ROW_VALID /\ pc[t] = "validate" /\ Held(t) = RowsOf(t)
        /\ UNCHANGED <<data, accesses>> /\ pc' = [pc EXCEPT ![t] = "write"]
        /\ out' = [out EXCEPT ![t] =
                     [query |-> q,
                      saw |-> [k \in DOMAIN q |-> acc[Saw(t)[k]].data]]]
    BY DEF TakeEndTs, Goto, Commits, rowVars
  <1>2. /\ q \in Queries /\ Covers(acc, q) /\ ThreadInv
        /\ Len(acc) \in Nat /\ DOMAIN acc = 1..Len(acc)
        /\ \A k \in 1..Len(acc) : acc[k].row \in Rows
        /\ RowsOf(t) = {acc[k].row : k \in 1..Len(acc)}
        /\ WriteSet(t) = {acc[k].row : k \in {j \in 1..Len(acc) : acc[j].type = "WR"}}
        /\ WriteSet(t) \subseteq RowsOf(t)
    BY <1>1, ThreadFacts DEF IInv, ThreadInv, Progress
  <1>3. /\ Len(q) \in Nat /\ DOMAIN q = 1..Len(q)
        /\ \A k \in 1..Len(q) : q[k].row \in Rows
        /\ \A j, k \in 1..Len(q) : q[j].row = q[k].row => j = k
    BY <1>2, QueryType
  <1>4. /\ pc'[t] = "write" /\ \A u \in Threads \ {t} : pc'[u] = pc[u]
        /\ \A u \in Threads : WriteSet(u)' = WriteSet(u)
    BY <1>1 DEF IInv, ThreadInv, TypeOK, WriteSet
  <1>5. ASSUME NEW k \in 1..Len(acc)
        PROVE  /\ \A u \in Threads : ~ Pending(u, acc[k].row)
               /\ CommittedData[acc[k].row] = data[acc[k].row]
               /\ data[acc[k].row] = acc[k].data
    <2>1. acc[k].row \in Rows /\ acc[k].row \in Held(t) /\ latch[acc[k].row] = t
      BY <1>1, <1>2 DEF Held
    <2>2. ASSUME NEW u \in Threads, Pending(u, acc[k].row) PROVE FALSE
      <3>1. pc[u] = "write" /\ acc[k].row \in RowsOf(u)
        BY <1>2, <2>2, ThreadFacts DEF Pending, ThreadInv
      <3>2. RowsOf(u) \subseteq Held(u)
        BY <1>1, <3>1 DEF IInv, Latches
      <3> QED BY <1>1, <2>1, <3>1, <3>2 DEF Held
    <2>3. valid_at(start_ts[t], acc[k].row)
      BY <1>1, <2>1 DEF IInv, Latches
    <2> QED BY <1>1, <2>1, <2>2, <2>3, Committed DEF CommittedAll, CommittedIs, IInv, PerRow, CopyCurrent
  <1>6. ASSUME NEW r \in Rows PROVE r \in WriteSet(t) <=> Serial!Writes(q, r)
    <2>1. r \in WriteSet(t) <=> \E j \in 1..Len(acc) : acc[j].row = r /\ acc[j].type = "WR"
      BY <1>2
    <2>2. Serial!Writes(q, r) <=> \E k \in 1..Len(q) : q[k].row = r /\ q[k].type = "WR"
      BY <1>3 DEF Serial!Writes
    <2> HIDE DEF acc, q
    <2>3. ASSUME NEW j \in 1..Len(acc), acc[j].row = r, acc[j].type = "WR"
          PROVE  Serial!Writes(q, r)
      <3>1. \E k \in 1..Len(q) : acc[j].row = q[k].row /\ acc[j].type = q[k].type
        BY <1>2 DEF Covers
      <3> QED BY <2>2, <2>3, <3>1
    <2>4. ASSUME NEW k \in 1..Len(q), q[k].row = r, q[k].type = "WR"
          PROVE  r \in WriteSet(t)
      <3>1. \E j \in 1..Len(acc) : acc[j].row = q[k].row /\ acc[j].type = q[k].type
        BY <1>2 DEF Covers
      <3> QED BY <2>1, <2>4, <3>1
    <2> QED BY <2>1, <2>2, <2>3, <2>4
  <1>7. ASSUME NEW r \in Rows
        PROVE  CommittedData'[r] = IF Serial!Writes(q, r) THEN CommittedData[r] + 1
                                   ELSE CommittedData[r]
    <2>1. CASE r \in WriteSet(t)
      <3>1. PICK k \in 1..Len(acc) : acc[k].row = r
        BY <1>2, <2>1
      <3>2. Pending(t, r)'
        BY <1>4, <2>1 DEF Pending
      <3>3. CommittedData'[r] = acc[k].data + 1
        BY <1>1, <3>1, <3>2, CommittedNext DEF CommittedAll, CommittedIs
      <3> QED BY <1>5, <1>6, <2>1, <3>1, <3>3
    <2>2. CASE r \notin WriteSet(t)
      <3>1. \A u \in Threads : Pending(u, r)' <=> Pending(u, r)
        BY <1>1, <1>4, <2>2 DEF Pending
      <3>2. \A u \in Threads : Pending(u, r)' => \A k \in 1..Len(accesses'[u]) :
              k \in 1..Len(accesses[u]) /\ accesses'[u][k] = accesses[u][k]
        BY <1>1
      <3> QED BY <1>1, <1>6, <2>2, <3>1, <3>2, CommittedSame
    <2> QED BY <2>1, <2>2
  <1>8. CommittedData' = [r \in Rows |-> IF Serial!Writes(q, r) THEN CommittedData[r] + 1
                                         ELSE CommittedData[r]]
    <2>1. CommittedData' \in [Rows -> Nat]
      BY CommittedNext DEF CommittedAll
    <2> QED BY <1>7, <2>1
  <1>9. ASSUME NEW k \in DOMAIN q PROVE acc[Saw(t)[k]].data = CommittedData[q[k].row]
    <2> DEFINE i == CHOOSE j \in DOMAIN acc : acc[j].row = q[k].row
    <2>1. Saw(t)[k] = i
      BY DEF Saw
    <2>2. \E j \in DOMAIN acc : acc[j].row = q[k].row
      BY <1>2, <1>3 DEF Covers
    <2>3. i \in DOMAIN acc /\ acc[i].row = q[k].row
      BY <2>2
    <2> HIDE DEF i
    <2>4. i \in 1..Len(acc)
      BY <1>2, <2>3
    <2> QED BY <1>5, <2>1, <2>3, <2>4
  <1>10. [k \in DOMAIN q |-> acc[Saw(t)[k]].data] = [k \in DOMAIN q |-> CommittedData[q[k].row]]
    BY <1>9
  <1> QED BY <1>1, <1>2, <1>8, <1>10 DEF Serial!Commit

\* Copying a row back makes its committed value the one of the row.
LEMMA WriteRowStep ==
  ASSUME IInv, IInv', PER_ROW_VALID, NEW t \in Threads, WriteRow(t)
  PROVE  CommittedData' = CommittedData
  <1> DEFINE acc == accesses[t]
  <1>1. /\ acc \in Seq(Access) /\ acc # <<>> /\ Len(acc) \in Nat /\ ThreadInv
        /\ pc[t] = "write" /\ pc' = pc
        /\ accesses' = [accesses EXCEPT ![t] = Front(acc)]
        /\ accesses \in [Threads -> Seq(Access)]
    BY ThreadFacts DEF WriteRow, IInv, ThreadInv, TypeOK
  <1>2. /\ accesses'[t] = Front(acc)
        /\ \A u \in Threads \ {t} : accesses'[u] = accesses[u] /\ WriteSet(u)' = WriteSet(u)
    BY <1>1 DEF WriteSet
  <1>3. \A k \in 1..Len(accesses'[t]) : k \in 1..Len(acc) /\ accesses'[t][k] = acc[k]
    <2> HIDE DEF acc
    <2>1. Len(Front(acc)) = Len(acc) - 1 /\ \A k \in 1..(Len(acc) - 1) : Front(acc)[k] = acc[k]
      BY <1>1, FrontLemma
    <2>2. \A k \in 1..(Len(acc) - 1) : k \in 1..Len(acc)
      BY <1>1
    <2> QED BY <1>2, <2>1, <2>2
  <1>4. /\ WriteSet(t)' \subseteq WriteSet(t) /\ WriteSet(t) \subseteq Rows
        /\ \A s \in WriteSet(t) \ WriteSet(t)' :
              \E k \in 1..Len(acc) : acc[k].row = s /\ data'[s] = acc[k].data + 1
        /\ \A s \in Rows : s \notin WriteSet(t) \ WriteSet(t)' => data'[s] = data[s]
    BY <1>1, WriteBack, ThreadFacts DEF ThreadInv
  <1>5. ASSUME NEW r \in Rows PROVE CommittedData'[r] = CommittedData[r]
    <2>1. CASE r \in WriteSet(t) \ WriteSet(t)'
      <3>1. Pending(t, r) /\ ~ Pending(t, r)'
        BY <1>1, <2>1 DEF Pending
      <3>2. \A u \in Threads : ~ Pending(u, r)'
        <4>1. \A u \in Threads \ {t} : ~ Pending(u, r)
          BY <3>1, Exclusion DEF WritersExclude, Pending
        <4> QED BY <1>1, <1>2, <3>1, <4>1 DEF Pending
      <3>3. PICK k \in 1..Len(acc) : acc[k].row = r /\ data'[r] = acc[k].data + 1
        BY <1>4, <2>1
      <3>4. CommittedData[r] = acc[k].data + 1
        BY <3>1, <3>3, Committed DEF CommittedAll, CommittedIs
      <3>5. CommittedData'[r] = data'[r]
        BY <3>2, CommittedNext DEF CommittedAll, CommittedIs
      <3> QED BY <3>3, <3>4, <3>5
    <2>2. CASE r \notin WriteSet(t) \ WriteSet(t)'
      <3>1. \A u \in Threads : Pending(u, r)' <=> Pending(u, r)
        BY <1>1, <1>2, <1>4, <2>2 DEF Pending
      <3>2. \A u \in Threads : Pending(u, r)' => \A k \in 1..Len(accesses'[u]) :
              k \in 1..Len(accesses[u]) /\ accesses'[u][k] = accesses[u][k]
        BY <1>2, <1>3
      <3>3. data'[r] = data[r]
        BY <1>4, <2>2
      <3> QED BY <3>1, <3>2, <3>3, CommittedSame
    <2> QED BY <2>1, <2>2
  <1> QED BY <1>5, Committed, CommittedNext DEF CommittedAll

\* No other step changes what is committed.
LEMMA QuietStep ==
  ASSUME IInv, IInv', PER_ROW_VALID, NEW t \in Threads, Step(t), ~ TakeEndTs(t), ~ WriteRow(t)
  PROVE  CommittedData' = CommittedData /\ out' = out
  <1>0. TypeOK /\ CentralTypes /\ Progress(t) /\ pc \in [Threads -> PC] /\ ThreadInv
    BY DEF IInv, ThreadInv, TypeOK
  <1>1. ~ CheckSets(t)
    BY <1>0 DEF CheckSets, Progress
  <1>2. out' = out
    BY <1>1 DEF Step, StartTxn, RetryTxn, Begin, ReadRow, ReadAborts, FinishTxn, LatchRow,
       Written, UnlatchRow, TxnEnds, EnterValidation, LeaveValidation
  <1>3. ASSUME NEW r \in Rows PROVE ~ Pending(t, r) /\ ~ Pending(t, r)'
    <2>1. CASE Written(t)
      <3>1. pc'[t] # "write" /\ Len(accesses[t]) = 0
        BY <1>0, <2>1 DEF Written, Goto
      <3> QED BY <1>0, <3>1, PendingAccess DEF Pending, HasAccess
    <2>2. CASE ~ Written(t)
      <3>1. pc[t] # "write" /\ pc'[t] # "write"
        BY <1>0, <1>1, <2>2 DEF Step, StartTxn, RetryTxn, Begin, ReadRow, ReadAborts, FinishTxn,
           Requests, LatchRow, UnlatchRow, TxnEnds, EnterValidation, LeaveValidation, Goto
      <3> QED BY <3>1 DEF Pending
    <2> QED BY <2>1, <2>2
  <1>4. ASSUME NEW r \in Rows PROVE CommittedData'[r] = CommittedData[r]
    <2>1. \A u \in Threads \ {t} : accesses'[u] = accesses[u] /\ pc'[u] = pc[u]
      BY <1>0, OthersStay
    <2>2. \A u \in Threads : Pending(u, r)' <=> Pending(u, r)
      BY <1>3, <2>1 DEF Pending, WriteSet
    <2>3. \A u \in Threads : Pending(u, r)' => \A k \in 1..Len(accesses'[u]) :
            k \in 1..Len(accesses[u]) /\ accesses'[u][k] = accesses[u][k]
      BY <1>3, <2>1
    <2>4. data' = data
      BY RowsStay
    <2> QED BY <2>2, <2>3, <2>4, CommittedSame
  <1> QED BY <1>2, <1>4, Committed, CommittedNext DEF CommittedAll

LEMMA SerialStep ==
  ASSUME PER_ROW_VALID
  PROVE  IInv /\ [Next]_vars => [Serial!Next]_(Serial!vars)
  <1> SUFFICES ASSUME IInv, [Next]_vars PROVE [Serial!Next]_(Serial!vars)
    OBVIOUS
  <1>0. IInv'
    BY NextInv
  <1>1. ASSUME NEW t \in Threads, Step(t) PROVE [Serial!Next]_(Serial!vars)
    <2>1. CASE TakeEndTs(t)
      BY <1>0, <2>1, CommitStep DEF Serial!Next
    <2>2. CASE WriteRow(t)
      <3>1. out' = out
        BY <2>2 DEF WriteRow
      <3> QED BY <1>0, <2>2, <3>1, WriteRowStep DEF Serial!vars
    <2>3. CASE ~ TakeEndTs(t) /\ ~ WriteRow(t)
      BY <1>0, <1>1, <2>3, QuietStep DEF Serial!vars
    <2> QED BY <2>1, <2>2, <2>3
  <1>2. CASE UNCHANGED vars
    <2>1. UNCHANGED <<accesses, pc, data, out>>
      BY <1>2 DEF vars, rowVars
    <2>2. \A r \in Rows : CommittedData'[r] = CommittedData[r]
      <3>1. \A r \in Rows, u \in Threads : Pending(u, r)' <=> Pending(u, r)
        BY <2>1 DEF Pending, WriteSet
      <3> QED BY <1>0, <2>1, <3>1, CommittedSame
    <2>3. CommittedData' = CommittedData
      BY <1>0, <2>2, Committed, CommittedNext DEF CommittedAll
    <2> QED BY <2>1, <2>3 DEF Serial!vars
  <1> QED BY <1>1, <1>2 DEF Next, Terminated

LEMMA SerialInit == Init => Serial!Init
  <1> SUFFICES ASSUME Init PROVE Serial!Init
    OBVIOUS
  <1>1. CommittedData = [r \in Rows |-> 0]
    BY DEF Init, CommittedData, Pending
  <1> QED BY <1>1 DEF Init, Serial!Init, NoOutput, Serial!NoOutput

\* Transactions validated row by row are serializable in the order of their
\* end_ts.  (Those validated centrally are not.)
THEOREM Refinement == ASSUME PER_ROW_VALID PROVE Spec => Serializable
  <1>1. Init => IInv
    BY InitInv
  <1>2. IInv /\ [Next]_vars => IInv' /\ [Serial!Next]_(Serial!vars)
    BY NextInv, SerialStep
  <1> QED BY <1>1, <1>2, SerialInit, PTL DEF Spec, Serializable, Serial!Spec

==============================================================================
