-------------------------------- MODULE PLock --------------------------------
(***************************************************************************)
(* Partition locking in DBx1000 (CC_ALG = HSTORE): the manager of a        *)
(* partition (PartMan), the lock of all partitions of a transaction        *)
(* (Plock) and the part of the worker loop that uses it.                   *)
(*                                                                         *)
(* A transaction asks for all its partitions before it waits for any.  A   *)
(* partition that is owned by an older transaction puts it in a queue; one *)
(* that is owned by a younger one makes it give up the others.  Meanwhile  *)
(* partitions may be handed to it.  PartMan::lock and unlock run under the *)
(* latch of the partition and are one action each.                         *)
(*                                                                         *)
(* Of timestamps only the order matters: ts is the rank of a thread's      *)
(* timestamp among those of all threads.                                   *)
(***************************************************************************)
EXTENDS Naturals, FiniteSets, SequencesExt

CONSTANTS Threads,            \* worker threads
          Parts,              \* partitions
          Queries,            \* sequences of [row, type], no partition twice
          MAX_TXN_PER_PART,   \* bound: commits of a thread
          NoThread            \* the owner of a free partition

ASSUME QueriesAssumption ==
  \A q \in Queries :
     /\ q \in Seq([row : Parts, type : {"RD", "WR"}])
     /\ \A i, j \in DOMAIN q : q[i].row = q[j].row => i = j

ASSUME ConfigAssumption ==
  IsFiniteSet(Threads) /\ NoThread \notin Threads /\ MAX_TXN_PER_PART \in Nat \ {0}

VARIABLES
  \* PartMan
  owner,        \* partition -> the thread that owns it
  waiters,      \* partition -> the threads that wait for it, in order
  \* txn_man and thread_t
  ts,           \* thread -> rank of its timestamp
  ready_part,   \* thread -> number of partitions it still waits for
  query,        \* thread -> the query it runs
  i,            \* thread -> partitions it has been through in its loop
  upto,         \* thread -> how many it has asked for
  pc,
  txn_cnt,
  \* rows, one per partition
  data,         \* partition -> its value, updated in place
  saw,          \* thread -> what it has read so far
  out           \* history: what the last committed transaction of a thread read

lockVars == <<owner, waiters, ready_part>>
dataVars == <<data, saw, out>>
vars == <<lockVars, ts, query, i, upto, pc, txn_cnt, dataVars>>

PC == {"idle", "retry", "lock", "spin", "run", "unlock", "abort", "finished"}

NoOutput == [query |-> <<>>, saw |-> <<>>]

Init ==
  /\ owner = [p \in Parts |-> NoThread]
  /\ waiters = [p \in Parts |-> <<>>]
  /\ ready_part = [t \in Threads |-> 0]
  /\ ts \in [Threads -> 1..Cardinality(Threads)]
  /\ \A t, u \in Threads : ts[t] = ts[u] => t = u
  /\ query = [t \in Threads |-> <<>>]
  /\ i = [t \in Threads |-> 0]
  /\ upto = [t \in Threads |-> 0]
  /\ pc = [t \in Threads |-> "idle"]
  /\ txn_cnt = [t \in Threads |-> 0]
  /\ data = [p \in Parts |-> 0]
  /\ saw = [t \in Threads |-> <<>>]
  /\ out = [t \in Threads |-> NoOutput]

Goto(t, label) == pc' = [pc EXCEPT ![t] = label]

\* The timestamp of t becomes the greatest.
get_next_ts(t) ==
  ts' = [u \in Threads |-> IF u = t THEN Cardinality(Threads)
                           ELSE IF ts[u] > ts[t] THEN ts[u] - 1 ELSE ts[u]]

\* The worker takes the next query or the aborted one again.
StartTxn(t) ==
  /\ pc[t] \in {"idle", "retry"}
  /\ get_next_ts(t)
  /\ \E q \in (IF pc[t] = "idle" THEN Queries ELSE {query[t]}) :
       query' = [query EXCEPT ![t] = q]
  /\ i' = [i EXCEPT ![t] = 0]
  /\ saw' = [saw EXCEPT ![t] = <<>>]
  /\ Goto(t, "lock")
  /\ UNCHANGED <<lockVars, upto, txn_cnt, data, out>>

\* The partition at which the loop of t is.
Part(t) == query[t][i[t] + 1].row

Asks(t) == pc[t] = "lock" /\ i[t] < Len(query[t])

NextPart(t) == i' = [i EXCEPT ![t] = @ + 1]

------------------------------------------------------------------------------
(***************************************************************************)
(* PartMan                                                                 *)
(***************************************************************************)

\* The partition is free.
LockFree(t) ==
  /\ Asks(t) /\ owner[Part(t)] = NoThread
  /\ owner' = [owner EXCEPT ![Part(t)] = t]
  /\ NextPart(t)
  /\ UNCHANGED <<waiters, ready_part, ts, query, upto, pc, txn_cnt, dataVars>>

\* Mutant of Before: a waiter goes to the head of the queue.
Before_All(t, p) == 0

\* How many waiters of partition p stay before t.
Before(t, p) == Cardinality({k \in DOMAIN waiters[p] : ts[waiters[p][k]] < ts[t]})

\* Mutant of MayWait: a transaction waits for whoever owns the partition.
MayWait_Always(t, p) == TRUE

\* A transaction waits for an older one only.
MayWait(t, p) == ts[owner[p]] < ts[t]

\* It is owned by an older transaction: t is queued by timestamp.
LockWaits(t) ==
  /\ Asks(t) /\ owner[Part(t)] # NoThread /\ MayWait(t, Part(t))
  /\ waiters' = [waiters EXCEPT ![Part(t)] = InsertAt(@, Before(t, Part(t)) + 1, t)]
  /\ ready_part' = [ready_part EXCEPT ![t] = @ + 1]
  /\ NextPart(t)
  /\ UNCHANGED <<owner, ts, query, upto, pc, txn_cnt, dataVars>>

\* It is owned by a younger one: Plock::lock gives the others back.
LockAborts(t) ==
  /\ Asks(t) /\ owner[Part(t)] # NoThread /\ ~ MayWait(t, Part(t))
  /\ upto' = [upto EXCEPT ![t] = i[t]]
  /\ i' = [i EXCEPT ![t] = 0]
  /\ Goto(t, "abort")
  /\ UNCHANGED <<lockVars, ts, query, txn_cnt, dataVars>>

\* Mutant of unlock: a thread that waits stays in the queue.
unlock_Leaves(t, p) ==
  IF t = owner[p]
  THEN IF waiters[p] = <<>>
       THEN owner' = [owner EXCEPT ![p] = NoThread] /\ UNCHANGED <<waiters, ready_part>>
       ELSE /\ owner' = [owner EXCEPT ![p] = Head(waiters[p])]
            /\ waiters' = [waiters EXCEPT ![p] = Tail(@)]
            /\ ready_part' = [ready_part EXCEPT ![Head(waiters[p])] = @ - 1]
  ELSE UNCHANGED lockVars

\* PartMan::unlock hands the partition of an owner on, or takes a thread out of
\* the queue, where it must be.
unlock(t, p) ==
  IF t # owner[p]
  THEN /\ \E k \in DOMAIN waiters[p] :
            /\ waiters[p][k] = t
            /\ waiters' = [waiters EXCEPT ![p] = RemoveAt(@, k)]
       /\ ready_part' = [ready_part EXCEPT ![t] = @ - 1]
       /\ UNCHANGED owner
  ELSE IF waiters[p] = <<>>
  THEN owner' = [owner EXCEPT ![p] = NoThread] /\ UNCHANGED <<waiters, ready_part>>
  ELSE /\ owner' = [owner EXCEPT ![p] = Head(waiters[p])]
       /\ waiters' = [waiters EXCEPT ![p] = Tail(@)]
       /\ ready_part' = [ready_part EXCEPT ![Head(waiters[p])] = @ - 1]

------------------------------------------------------------------------------
(***************************************************************************)
(* Plock and thread_t::run                                                 *)
(***************************************************************************)

\* Mutant of Ready: the last partition counts as had.
Ready_Early(t) == ready_part[t] <= 1

Ready(t) == ready_part[t] <= 0

\* All partitions were asked for; the thread runs when it has them.
EnterSpin(t) ==
  /\ pc[t] = "lock" /\ i[t] = Len(query[t])
  /\ Goto(t, "spin")
  /\ UNCHANGED <<lockVars, ts, query, i, upto, txn_cnt, dataVars>>

LeaveSpin(t) ==
  /\ pc[t] = "spin" /\ Ready(t)
  /\ i' = [i EXCEPT ![t] = 0]
  /\ Goto(t, "run")
  /\ UNCHANGED <<lockVars, ts, query, upto, txn_cnt, dataVars>>

\* The transaction works on the rows themselves.
UseRow(t) ==
  /\ pc[t] = "run" /\ i[t] < Len(query[t])
  /\ saw' = [saw EXCEPT ![t] = Append(@, data[Part(t)])]
  /\ data' = [data EXCEPT ![Part(t)] =
                IF query[t][i[t] + 1].type = "WR" THEN @ + 1 ELSE @]
  /\ NextPart(t)
  /\ UNCHANGED <<lockVars, ts, query, upto, pc, txn_cnt, out>>

\* run_txn has ended.
FinishTxn(t) ==
  /\ pc[t] = "run" /\ i[t] = Len(query[t])
  /\ out' = [out EXCEPT ![t] = [query |-> query[t], saw |-> saw[t]]]
  /\ upto' = [upto EXCEPT ![t] = Len(query[t])]
  /\ i' = [i EXCEPT ![t] = 0]
  /\ Goto(t, "unlock")
  /\ UNCHANGED <<lockVars, ts, query, txn_cnt, data, saw>>

\* The loops of Plock::unlock and of the abort in Plock::lock.
UnlockPart(t) ==
  /\ pc[t] \in {"unlock", "abort"} /\ i[t] < upto[t]
  /\ unlock(t, Part(t))
  /\ NextPart(t)
  /\ UNCHANGED <<ts, query, upto, pc, txn_cnt, dataVars>>

\* Mutant of Done: the thread runs one transaction too many.
Done_Late(t) == txn_cnt[t] >= MAX_TXN_PER_PART

\* The commit that t is about to count is its last.
Done(t) == txn_cnt[t] + 1 >= MAX_TXN_PER_PART

TxnCommitted(t) ==
  /\ pc[t] = "unlock" /\ i[t] = upto[t]
  /\ txn_cnt' = [txn_cnt EXCEPT ![t] = @ + 1]
  /\ Goto(t, IF Done(t) THEN "finished" ELSE "idle")
  /\ UNCHANGED <<lockVars, ts, query, i, upto, dataVars>>

TxnAborted(t) ==
  /\ pc[t] = "abort" /\ i[t] = upto[t]
  /\ Goto(t, "retry")
  /\ UNCHANGED <<lockVars, ts, query, i, upto, txn_cnt, dataVars>>

Step(t) == \/ StartTxn(t) \/ LockFree(t) \/ LockWaits(t) \/ LockAborts(t)
           \/ EnterSpin(t) \/ LeaveSpin(t) \/ UseRow(t) \/ FinishTxn(t)
           \/ UnlockPart(t) \/ TxnCommitted(t) \/ TxnAborted(t)

Terminated == (\A t \in Threads : pc[t] = "finished") /\ UNCHANGED vars

Next == (\E t \in Threads : Step(t)) \/ Terminated

Spec == Init /\ [][Next]_vars

\* Worker threads keep running; nothing else is assumed.
FairSpec == Spec /\ \A t \in Threads : WF_vars(Step(t))

------------------------------------------------------------------------------
(***************************************************************************)
(* Correctness                                                             *)
(***************************************************************************)

\* Every variable has the type of the field it stands for, and no two threads
\* the same timestamp.
TypeOK ==
  /\ owner \in [Parts -> Threads \union {NoThread}]
  /\ waiters \in [Parts -> Seq(Threads)]
  /\ ts \in [Threads -> 1..Cardinality(Threads)]
  /\ \A t, u \in Threads : ts[t] = ts[u] => t = u
  /\ ready_part \in [Threads -> Nat]
  /\ query \in [Threads -> Queries \union {<<>>}]
  /\ \A t \in Threads : i[t] \in 0..Len(query[t]) /\ upto[t] \in Nat
  /\ pc \in [Threads -> PC] /\ txn_cnt \in [Threads -> 0..MAX_TXN_PER_PART]
  /\ data \in [Parts -> Nat] /\ saw \in [Threads -> Seq(Nat)]

WaitsAt(t) == {p \in Parts : \E k \in DOMAIN waiters[p] : waiters[p][k] = t}

\* A thread's counter is the number of queues it is in, although the threads
\* that hand partitions to it count it down while it counts up: it starts when
\* it owns all its partitions and not before (plock.cpp:39, 59, 69, 107).
ReadyCount == \A t \in Threads : ready_part[t] = Cardinality(WaitsAt(t))

\* The partitions a thread has asked for and not given back.
Asked(t) ==
  {query[t][k].row : k \in
     CASE pc[t] = "lock" -> 1..i[t]
       [] pc[t] \in {"spin", "run"} -> DOMAIN query[t]
       [] pc[t] \in {"unlock", "abort"} -> (i[t] + 1)..upto[t]
       [] OTHER -> {}}

\* A thread owns or waits for exactly the partitions it has asked for and not
\* given back: one that is refused a partition leaves no queue with its entry
\* and no partition without owner (plock.cpp:96-104).
InQueues ==
  \A t \in Threads :
    /\ Asked(t) = WaitsAt(t) \union {p \in Parts : owner[p] = t}
    /\ \A p \in WaitsAt(t) : owner[p] # t
    /\ \A p \in Parts : owner[p] = NoThread => waiters[p] = <<>>

\* The waiters of a partition are younger than its owner and in ascending order
\* (the assertion of PartMan::unlock, plock.cpp:55), so that nobody waits for a
\* younger transaction and there is no deadlock, although partitions are handed
\* over in any order.
OldestFirst ==
  \A p \in Parts :
    /\ \A k \in DOMAIN waiters[p] : owner[p] # NoThread /\ ts[owner[p]] < ts[waiters[p][k]]
    /\ \A j, k \in DOMAIN waiters[p] : j < k => ts[waiters[p][j]] < ts[waiters[p][k]]

\* What the running transaction t has written to partition p is not committed.
Unfinished(t, p) ==
  pc[t] = "run" /\ \E k \in 1..i[t] : query[t][k] = [row |-> p, type |-> "WR"]

CommittedData ==
  [p \in Parts |->
     IF \E t \in Threads : Unfinished(t, p) THEN data[p] - 1 ELSE data[p]]

Serial == INSTANCE SerialStore WITH store <- CommittedData, Rows <- Parts

\* Transactions that own their partitions are serializable without locks on
\* rows: they implement the store that runs one transaction at a time.
Serializable == Serial!Spec

\* A thread that waits for its partitions gets them: those ahead of it run or
\* give up.
WaitEnds == \A t \in Threads : pc[t] = "spin" ~> pc[t] = "run"

\* No transaction asks for partitions in another order than another one.
InOneOrder ==
  ~ \E t, u \in Threads : \E j, k \in DOMAIN query[t] : \E m, n \in DOMAIN query[u] :
      /\ j < k /\ m < n
      /\ query[t][j].row = query[u][n].row /\ query[t][k].row = query[u][m].row

\* If the transactions ask for their partitions in one order, every worker
\* finishes, although one that is refused starts again with a younger timestamp.
\* Otherwise threads may refuse each other for ever.
InOrderFinish == []InOneOrder => <>(\A t \in Threads : pc[t] = "finished")
==============================================================================
