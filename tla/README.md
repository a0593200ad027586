# Verification of QURO / DBx1000 in TLA+

This directory holds TLA+ specifications of the program in `src/`, TLC
configurations that check them on small instances, and proofs that the TLAPS
proof system checks for every value of the constants.

## 1. The system

The repository has four parts.

* `src/DBx1000/code`: an in-memory database for OLTP benchmarks. Worker threads
  run transactions one after the other; the concurrency control scheme that keeps
  them apart is chosen at compile time (`CC_ALG`). This is the core of the repository.
* `src/quro/code`: a Clang tool that reorders the queries of a transaction so that
  the contended ones come late (and their locks are held for less time).
* `src/ILPsolvers/code`: drivers that print the ordering problem as an integer
  program for Gurobi or lp_solve.
* `src/quro_experiments/code`: the TPC-E kit (data generator and drivers for an
  external database server), vendored.

### Inventory of DBx1000

| component | state | operations | what makes it correct |
|---|---|---|---|
| `Row_lock` (row_lock.cpp) | per row: owner list, waiter list, `lock_type`, latch | `lock_get`, `lock_release` | no two conflicting owners; no waiter that could run; no lost hand-over; no entry left behind; the wait-die and FIFO orders |
| `row_t`, `txn_man`, `thread_t` (row.cpp, txn.cpp, thread.cpp) | the rows; per thread `lock_ready`, `lock_abort`, the accesses, `rc` | `get_row`, `return_row`, `finish`, `cleanup`, `run` | committed transactions are serializable, aborted ones leave nothing |
| `DL_detect` (dl_detect.cpp) | the waits-for graph, one node per thread | `add_dep`, `detect_cycle`, `clear_dep` | every deadlock is broken |
| `Row_ts` (row_ts.cpp) | `rts`, `wts`, three buffers of requests and their minimum timestamps | `access` | reads and writes take effect in timestamp order; every buffered request is released |
| `Row_mvcc` (row_mvcc.cpp) | write and read history, prewrite and read buffers | `access`, history recycling | a reader sees the version of its timestamp; no version still needed is recycled |
| `OptCC`, `Row_occ` (occ.cpp, row_occ.cpp) | `wts` and latch per row; read and write sets | `access`, `validate` | serial in the order of validation; latches taken in one order |
| `Plock`, `PartMan` (plock.cpp) | per partition an owner and waiters by timestamp; per transaction `ready_part` | `lock`, `unlock` | one owner; a refused transaction is in no queue; no deadlock |
| `VLLMan`, `Row_vll` (vll.cpp) | a queue of transactions, two counters per row | `beginTxn`, `execute`, `finishTxn` | a free transaction conflicts with nobody ahead of it |
| `Manager` (manager.cpp) | the timestamp counter, `all_ts`, `min_ts`, central row latches | `get_ts`, `add_ts`, `get_min_ts` | timestamps are unique; the minimum is not too great |
| `IndexHash`, `index_btree` | buckets and nodes | read, insert | a key inserted is found; latch coupling |
| workloads YCSB, TPC-C, TEST | tables | `run_txn` | the invariants of the benchmark |
| allocator, statistics, parser, catalog | | | |

The threads share the rows and their managers. A thread calls `run_txn`, which calls
`txn_man::get_row` for each access, which calls `row_t::get_row`, which asks the
manager of the row; a thread that must wait spins on a flag of its own `txn_man`
(`lock_ready`, `ts_ready`, `ready_part`) that another thread sets while it holds the
latch of the row. At the end `finish` calls `cleanup`, which returns the rows from
the last access to the first. An aborted transaction waits for a random time and
starts again.

What is hard: the flags are written under a latch by one thread and read without
one by another; a request can be granted while its owner gives up; writes are made in
place and undone on abort; the order of the lists decides about deadlock and starvation.

`PROJECT.json` lists every component with what is and is not modelled, and the
hazards, each at its line and with the properties that would catch it.

### Inventory of the reorderer

`CBlocks` and `QueryBlock` keep for each statement of a transaction the variables it
defines and uses; `setDepBlocks` and `propagateDep` compute which statement must
stay before which; `reorderCode` schedules the queries by their contention index
subject to these dependencies, puts the other statements back, and renames
variables where an anti-dependency was broken. It is correct when the new order keeps
every true dependency. It is sequential; the hard part is the data-flow analysis.

## 2. How it was built, and what is left

1. `RowLock`: locking, with the access path and the run loop, and the proofs about it.
2. `DLDetect`: the waits-for graph and its search, under the spin loop of `get_row`.
3. `SerialStore` and `TimestampStore`: what the locking and optimistic schemes, and what
   the timestamp schemes promise. Every scheme is shown to implement one of them.
4. `RowTS`, then `RowMVCC`, with `MinTs` for the minimum of the active timestamps.
5. `OCC` with both validation schemes.
6. `PLock`: H-Store's partition locks.
7. `Reorder`: the ordering of statements by QURO.
8. Proofs, component by component: `RowLockProofs`, `PLockProofs`, `OCCProofs`,
   `DLDetectProofs`, `RowTSProofs`, `RowMVCCProofs` (with `MinTs`), `ReorderProofs`, with what
   they share about sequences and finite sets in `SeqLemmas`. Every invariant that a passing run
   checks is also a theorem.

Left to do: the renaming of variables that follows the ordering in QURO.

## 3. The modules

| module | is |
|---|---|
| `SerialStore` | abstract: transactions run one at a time |
| `TimestampStore` | abstract: transactions are serial in the order of their timestamps |
| `RowLock` | row locks (NO_WAIT, WAIT_DIE, DL_DETECT), access path, run loop |
| `DLDetect` | the deadlock detector under the spin loop |
| `OCC` | optimistic concurrency control, both validations |
| `RowTS` | basic timestamp ordering |
| `RowMVCC` | multi-version timestamp ordering |
| `MinTs` | `get_ts`, `add_ts`, `get_min_ts` of the `Manager` |
| `PLock` | H-Store partition locks |
| `Reorder` | `reorderCode` of QURO |
| `MC...` | the constants of the runs |
| `RowLockProofs` | theorems about `RowLock` |
| `PLockProofs`, `OCCProofs`, `DLDetectProofs`, `RowTSProofs`, `ReorderProofs` | theorems about the module they are named after |
| `RowMVCCProofs` | theorems about `RowMVCC` and, at its end, about `MinTs` |
| `SeqLemmas` | lemmas about sequences and finite sets |

All models of the database share conventions. A thread has one `txn_man` for its whole
life, so a thread *is* its transaction, and the fields of `txn_man` are functions of
threads. `pc` says where in the code a thread is. What runs under one latch is one action;
what happens without a latch is split at every read or write of shared state. The data of a
row is a number, a write adds one to what the transaction has read (as TPC-C does with
`D_NEXT_O_ID` or `W_YTD`), so a lost update, a dirty read or two views of one row show up in
the values. A transaction is a sequence of accesses, no row twice. Memory is sequentially
consistent: the flags are `volatile`, the rest is touched under a mutex. Statistics, the
warm-up and inserted rows are left out.

A transaction works on the row that `get_row` returns, as TPC-C does. YCSB does not: its
writes go to the original row instead (ycsb_txn.cpp:76, `row` where the read has
`row_local`). That is the same row under the locking schemes and HSTORE, but passes by the
copy and the validation of the others, so what is said of those about the data is not said of
YCSB's writes.

### SerialStore and TimestampStore

`SerialStore` has a counter per row. `Commit(t, q)` runs `q` alone: it reads every row it
accesses and adds one to each row it writes; `out[t]` is what the last committed transaction
of `t` read. In `TimestampStore` the state is the set of committed transactions, and one that
commits with a timestamp must have read, of each row, the writes of the transactions with
smaller timestamps, even if it commits later than others with greater ones.

### RowLock

The state follows the classes: `owners`, `waiters` and `lock_type` are the fields of the
`Row_lock` of each row (`owners` is a set, since nothing depends on its order); `data` is
the tuple; `lock_ready`, `lock_abort`, `accesses` and `query` are fields of the `txn_man`;
`rc`, `txn_cnt` and `sim_done` are the variables of the run loop.

| `pc` | the thread is |
|---|---|
| `idle` | before `get_next_query` |
| `run` | in `run_txn`, before its next access |
| `granted` | `lock_get` returned `RCOK`, or the wait ended well |
| `wait` | `lock_get` returned `WAIT`, `lock_abort` not yet cleared (row.cpp:145) |
| `spin` | in the loop of row.cpp:147 |
| `leave` | after the loop, before `lock_ready` is read again (row.cpp:184) |
| `giveup` | decided to abort, before `return_row` takes the latch (row.cpp:188) |
| `cleanup` | in the loop of `cleanup` |
| `penalty` | in the pause after an abort |
| `finished` | returned from `run` |

Every `lock_get` and `lock_release` runs under the latch of the row and is one action
(`LockGranted`, `LockWaits`, `LockAborts`; `lock_release` inside `GiveUp` and `ReturnRow`,
with the loop that hands the lock to the waiters). `EnterSpin`, `LeaveSpin`, `Timeout` and
`AfterSpin` are the steps without it. Work on a row that is locked is one action, `UseRow`:
nobody else may touch the row, and that this is so is what `Serializable` tests.

The deadlock detector may pick any running transaction at any time (`Victim`), and a timeout
may fire at any time: safety is checked for every detector, also for one better or worse than
that of `DLDetect`.

`Ts` is a constant: `txn_man::timestamp` is read by WAIT_DIE but never written for it. In
the code as it is all timestamps are 0 (`CodeTs`); the scheme is meant for distinct ones
(`DistinctTs`). Both are checked, and the proofs hold for every `Ts` unless they say
otherwise. Retries are unbounded; the data is bounded because an aborted write is undone.

### DLDetect

Row_lock is reduced to what the detector depends on: `LockWaits(t, W)` puts `t` behind any
transactions `W` that have not given their locks back, and `lock_ready` is set once all of
them have. That nobody gets ahead of a waiter afterwards is `NoBarging` of `RowLock`. Locks
are given back row by row (`ReturnRow`): each row frees some of those that wait for the
transaction, and `EndTxn`, which clears the node, comes when nobody waits for it any more.
Turn by turn the spin loop enters the dependencies (`AddDep`), then searches (`TakeTurn`). The
recursion of `nextNode` is a stack of calls, each with the copy of a node's dependencies it
took under the latch of the node; `LookAt` is one turn of the loop of `nextNode`, so other
threads may move between any two. `CheckVictim` and `AbortVictim` are the two steps of
`detect_cycle` after a loop was found; the flag may hit the next wait of the thread.

A transaction number that was copied matters by whether its thread still runs that
transaction, so a set of numbers is the set of the threads of those that are current, and
`EndTxn(t)` takes `t` out of all of them. Of the number itself its size matters: `nextNode`
compares it with that of the node through 32 bits with a sign (dl_detect.cpp:67), and from
2^31 on it never equals itself (`SameTxn32`). `large[t]` says whether the transaction of `t`
has such a number; numbers grow, so a thread that has reached them stays there, and `Sizes`
says which threads can. A number on the recursion stack that is not found to be equal counts
as visited, as in the code.

`num_locks` is not modelled: any transaction on the loop may be the one with the fewest
locks. The timeout (`TIMEOUT`, 100 s) is left out here, since the question is whether the
detector breaks deadlocks without it; `RowLock` has it.

### OCC

`PER_ROW_VALID` chooses the scheme. Per row: latch the rows in the order of their keys
(`LatchRow`, one row at a time), validate against `wts`, draw `end_ts`, write, unlatch.
Central: two critical sections with the comparison between them (`EnterValidation`,
`CheckSets`, `LeaveValidation`). A latch taken with `pthread_mutex_lock` blocks the thread
inside the action. Timestamps are drawn from the common counter. Under central validation
`Row_occ::write` copies the row back without its latch (row_occ.cpp:45-52), where the model
copies in one step: what a reader gets of a row that is being copied is not modelled. The
property checked and proved there, `WritersExclude`, does not depend on it.

### RowTS

The four requests of `Row_ts::access` (`MayPrewrite`/`Prewrite`, `ReadRow`/`ReadWaits`/
`ReadAborts`, `W_REQ`, `XP_REQ`) with the buffers, their minima and `update_buffer`, which
lets the buffered requests through by turns. `min_wts` and `preq_len` are written and never
read. Every write of this code comes with a read of the row, so `rts` is never below `wts`
(in `TypeOK`), no W_REQ has ever to be buffered, and Thomas' write rule (`TS_TWR`) makes no
difference; the branches are modelled all the same.

### RowMVCC and MinTs

A row keeps its versions, the timestamps that read it, and the buffered prewrites and reads.
A thread that reads holds a pointer to a version until it ends; `Deref` gives the value
behind it now, or none if the version was recycled. At the end of `access` old history is cut
off (`Recycled`) below what `get_min_ts` returns, which is any value up to the least entry of
`all_ts`. That this is what `get_min_ts` may return is the business of `MinTs`: there the
entries are read one by one while other threads draw and register timestamps and other scans
go on, and a scan may store its result after a later one. (The assertion `min >= min_ts` of
manager.cpp:63 fails then, and the build keeps assertions; the value itself is smaller than it
might be, which is safe.)

`FirstTs` is what `all_ts` holds when the run begins. The program begins with `UINT64_MAX` in
every entry (`Cold`; `WARMUP` is 0), after a warm-up each thread has the timestamp of its
last transaction. With the start of the program there is a window: a thread's first
transaction is in nobody's minimum between drawing its timestamp (thread.cpp:75) and
registering it (thread.cpp:88), since its entry is still `UINT64_MAX`. A version that this
transaction needs may be recycled in it, and run `mvcc_cold` reports `TimestampOrder`
violated. `Registering(t)` says that `t` is in that window. `OnTimeSpec` is `Spec` with one
thing taken away:

* in `RowMVCC`, no history is cut while some thread is in it;
* in `MinTs`, no scan reads the entry of a thread while that one is in it.

The passing runs `mvcc` and `mints` begin `Cold` under `OnTimeSpec`: the window is all that is
wrong with the start. After a warm-up the window is empty, and `OnTimeSpec` is `Spec`
(theorem `WarmOnTime`). What does not depend on the minimum, that no wake-up of a buffered
read is lost, is proved of `Spec`, with histories cut at any time.

Inside the window the model's minimum is too careful: the code may use a stored one that is
greater than the entries are by now. That adds to what goes wrong under `Spec`; it is nothing
that `OnTimeSpec` allows, and the properties about buffers do not depend on it.

`PTS_BOUND` is the constant `1 << 32` that `debuffer_req` starts its search from
(row_mvcc.cpp:133). Timestamps stay below it in the runs. A read past it is let through by
nobody once nothing is announced any more: with `PTS_BOUND = 3` and `MAX_TS = 6` TLC finds
`NoLostWakeup` violated.

### PLock

`Plock::lock` asks for the partitions one after the other (`LockFree`, `LockWaits`,
`LockAborts`), without waiting in between; `ready_part` counts those it is queued for, up by
itself and down by the threads that hand partitions over. A refused transaction gives back,
and leaves the queues of, all partitions asked for so far (`UnlockPart`). Then it spins on
the counter. The transaction itself runs without any latch. Of timestamps only their order
matters, so `ts` is a rank and a new timestamp moves the others down.

### Reorder

QURO's `reorderCode` with `SORT_QUERIES`, on what the Clang front end and the analysis of
reaching definitions leave of a transaction without branches and loops: the blocks in their
order, and for each the blocks that define what it uses. The queries are ordered by
`conflict_index` as far as `map_parent` allows (`SortQuery`; `std::sort` leaves the order of
equals open), then emitted one after the other with the statements they need (`WantBlock`,
`PopBlock`: a queue of blocks that wait for their definers, which joins them `InOrder`), the query and the statements
that can follow it (`EmitQuery`), and at the end the rest.

## 4. The runs

| run | instance | checks |
|---|---|---|
| `waitdie` | WAIT_DIE, 3 threads, 2 rows, distinct timestamps, fair | `TypeOK`, `StrictTwoPhase`, `HeadMustWait`, `WaitsForYounger`, `NoDeadlock`, `Serializable`, `WritersFinish` |
| `dldetect` | DL_DETECT, 3 threads, 2 rows, timeouts and victims | `WakeupNotLost`, `NoLeakedEntry`, `NoBarging` |
| `dlgraph` | 3 threads, one of which waits twice in a transaction and has numbers past 2^31, fair | `FirstAlarmRight`, `DeadlockBroken` |
| `occ_perrow` | 2 threads, 2 rows, 2 commits each, fair | `TypeOK`, `CopiesCurrent`, `NoLatchCycle`, `WritersExclude`, `Serializable`, `AllFinish` |
| `rowts` | 3 threads, 2 rows, 3 transactions, fair | `TypeOK`, `NoOrphanPrewrite`, `NoLostWakeup`, `TimestampOrder`, `WaitEnds` |
| `mvcc` | 2 threads, 2 rows, 4 transactions from the start of the program, `OnTimeSpec`, fair | `TypeOK`, `VersionsKept`, `NoLostWakeup`, `TimestampOrder`, `WaitEnds` |
| `mints` | 3 threads, 5 timestamps from the start of the program, `OnTimeSpec` | `MinSafe` |
| `plock` | 3 threads, 2 partitions, fair | `TypeOK`, `ReadyCount`, `InQueues`, `OldestFirst`, `Serializable`, `WaitEnds`, `InOrderFinish` |
| `reorder` | all programs of 4 blocks, 2 levels of contention | `DefinersFirst`, `ContendedLast`, `QueriesOnce`, `NothingLost` |
| `codets` | WAIT_DIE, all timestamps 0 | `NoDeadlock` is violated |
| `occ_lost` | central validation | `Serializable` is violated |
| `mvcc_cold` | as `mvcc`, histories cut at any time | `TimestampOrder` is violated |

NO_WAIT has no run of its own: its invariants are covered by the theorems, which hold for each
`CC_ALG`, and its actions are those of the other schemes without the wait.

Each property has a mutant of the code, named in `PROJECT.json` and defined beside what it
replaces (`LastTxn_Late`, ...), under which its run fails.

### Bounds, and why they are enough

* Two rows are enough for a cycle of waits and for a rollback of more than one access; three
  threads for a waiter list with two entries behind an owner, the least that can be out of
  order, promoted together or withdrawn from the middle. The queries of each instance have
  writers in opposite orders, a read before a write, and reads only.
* `MAX_TXN_PER_PART` bounds committed transactions as in the code; retries are unbounded,
  except where each draws a timestamp: `MAX_TS` in `RowTS`, `RowMVCC` and `MinTs`.
* `mvcc`: a version is recycled once two are older than all entries of `all_ts`. With two
  threads this takes four transactions and then happens under a reader.
  With three threads it takes five, which is more than TLC can explore here; three threads
  with buffers are in `rowts`.
* `rowts` has `TS_TWR` off, as configured; the theorems hold for both values.
* `dlgraph`: `MAX_WAITS` lets a transaction of one thread wait twice, so that its node keeps
  dependencies that are over; `MAX_SEARCHES` allows one search at a time, during which all
  other steps may happen. Three threads have loops of two and three and a way to a loop that
  is not part of it; with large numbers in one thread there are loops that have one and loops
  that have none. The theorem `FirstAlarm` has any number of searches at a time, and numbers
  that become large at any time.
* `mints`: three threads allow two overlapping scans while a third registers.
* `reorder`: four blocks hold two queries with a chain of two statements between them, and two
  chains that share a statement.

The symmetric run (`dldetect`) treats threads alike and checks safety only, so permuting
threads is sound. `reorder` ends, so deadlock is not checked there.

### The properties

* `StrictTwoPhase`: from its access until cleanup returns it, a transaction owns the row in a
  sufficient mode, and an exclusive owner is alone.
* `WakeupNotLost` (RowLock), `NoLostWakeup` (RowTS, RowMVCC): whoever spins is in the list
  that will release it, or has been released; in every order of hand-over, timeout and abort.
* `NoLeakedEntry`, `NoOrphanPrewrite`, `InQueues`: nothing that a transaction put into a list
  outlives it, whichever way it ended.
* `HeadMustWait`: the head of a waiter list conflicts with the owners. `NoBarging`: first
  come, first served under DL_DETECT.
* `WaitsForYounger`, `NoDeadlock`, `OldestFirst`, `NoLatchCycle`: the orders of waiting, and
  that they exclude a circle.
* `FirstAlarmRight`: until some transaction has given up, the victim is on a loop of
  transactions that do wait for each other. Afterwards the graph may show a loop that is
  gone. `DeadlockBroken`: no deadlock with a number below 2^31 on it stays.
* `CopiesCurrent`: what can still be validated is current. `WritersExclude`: no two
  transactions copy the same row back at once.
* `ReadyCount`: the counter of a thread is the number of queues it is in.
* `VersionsKept`, `MinSafe`: no version is recycled that a running transaction may read.
* `Serializable`: implements `SerialStore`, under a mapping `CommittedData` of the rows that
  leaves out what can still abort. `TimestampOrder`: implements `TimestampStore`.
* `WaitEnds`, `WritersFinish`, `AllFinish`, `InOrderFinish`: liveness.
* `DefinersFirst`: the new program defines before it uses. `ContendedLast`: a contended query
  comes before a less contended one only where the program needs it. `QueriesOnce`: no query is
  in the new program twice, though nothing in the emission forbids it and statements are.
  `NothingLost`: QURO ends and every statement is in the new program.

### Fairness

Worker threads are operating system threads: one that can always take a step is not stopped
for ever, hence weak fairness of each thread's `Step`. Nothing is assumed of who gets a latch
first or when a timeout fires, with two exceptions. In `OCC` a thread blocks on mutexes that
others take again and again, and strong fairness says it gets one at last. In `DLDetect` the
bound on the number of searches would keep a thread from its turn, which strong fairness of
`TakeTurn` makes up for. `Reorder` is sequential and does not stop before its end. In `mvcc`
the premise `OnTime` bars steps only while a thread is about to register, which it does at
last, so it makes no fairness condition impossible to meet. `occ_perrow` has the steps of a
worker with `PER_ROW_VALID` (`PerRowWorker`); those of central validation are in `occ_lost`
and in the theorems, which are about both.

### What the violated properties mean

* `codets` is a bug of the code: nothing ever sets the timestamps that WAIT_DIE compares
  (thread.cpp:72-76 does it for the other schemes only), so every conflict waits and
  transactions that lock in opposite orders deadlock. With distinct timestamps `NoDeadlock`
  holds in the `waitdie` run; by proof, equal timestamps are the only way to a deadlock,
  whatever the others are.
* `occ_lost` is a bug of the code: central validation looks at the transactions that committed
  after `start_ts`, but compares this timestamp with transaction numbers, which count
  committed writers only and are far smaller. The history is not looked at, and updates are
  lost. What is left of the scheme, the exclusion of simultaneous writers, holds: the
  theorem `WritersAlwaysExclude`.
* `mvcc_cold` is a bug of the code: with `WARMUP` 0 a first transaction is not registered when
  others compute the minimum (section 3), and a version it has to read or a read that its
  write must respect is forgotten. Apart from that window `TimestampOrder` holds, in the `mvcc`
  run and by proof.

Beside these, some comments and assertions of row_lock say something else than the code: the
head of the waiter list is the youngest transaction, not the oldest (row_lock.h:33); the rule
of wait-die is stated in reverse (row_lock.cpp:86); the assertion of row_lock.cpp:206 fails
with equal timestamps. The code's own rule (wait only for younger transactions) is sound.

### What does not hold

* A deadlock of transactions whose numbers are all 2^31 or more is found by nobody: `nextNode`
  casts the number to `SInt32` where it compares it with the 64-bit one of the node
  (dl_detect.cpp:67; the comparison in line 75 casts to `SInt64`). Numbers grow by the number
  of threads with every attempt. Only `TIMEOUT`, 100 s, ends such a deadlock. So
  `DeadlockBroken` has the exception `large[t]`; without it, and with large numbers in all
  threads, TLC finds it violated.
* The MVCC constant `1 << 32` and the assertion of manager.cpp:63 (section 3).
* With readers, not every thread finishes under WAIT_DIE even with distinct timestamps: an old
  writer waits for a row in shared mode that two younger readers keep by turns. So liveness is
  claimed for writers (`WritersFinish`).
* Under TIMESTAMP transactions can abort for ever: an aborted reader leaves its `rts`, which
  aborts the writer, which ... So `WaitEnds` is claimed, not that all finish. Likewise MVCC.
* Under HSTORE threads that ask for partitions in opposite orders can refuse each
  other for ever, hence the premise of `InOrderFinish`.
* Two threads that search the graph at the same time may each choose another victim of the same
  loop, and both transactions abort; nothing keeps this from happening again and again.
* QURO may emit a statement twice: when a query uses A, A uses B and B uses D (none of them
  queries), A asks for B, B waits behind D, A is looked at again before and asks for B once
  more, and `PopBlock` emits whatever it pops and finds ready, so B comes twice. A merged block (a loop) that uses what it defines itself would wait in the queue
  for ever. `last_use` (CBlocks.cpp:1028) ends up with the first use. The first is in the model
  (`DefinersFirst` and `ContendedLast` are true of every occurrence, and `QueriesOnce` says
  that it happens to statements only), the others are outside.

## 5. What is proved

`RowLock`, for any `Threads`, `Rows`, `Queries`, `Ts` and each of the three schemes, from the
assumptions in the module (queries are sequences of accesses with no row twice; the
timestamps are natural numbers; at least one commit per thread):

* `RowLockProofs!Inductive`: `Spec => []IInv`. `IInv` says that the lists of a row are
  a function of where the threads are: a thread is an owner of exactly the rows it
  `Has` (an access not yet returned, or a request that was granted), and it has
  exactly one waiter entry, for the row it is `Pending` on. Beside these are the mode
  of each row (`ModeFits`) and the rule that the first waiter conflicts (`Blocked`).
  None of the checked invariants is inductive alone: that a release finds the entry it
  removes needs `NoLeakedEntry`, which needs that a withdrawn request was not granted
  meanwhile, which is `WakeupNotLost`. The heart is `LetJoinLemma` and `ReleaseLemma`:
  what the loop of `lock_release` does to a row, for owners and withdrawn waiters alike.
* `TypeCorrect`, `TwoPhase`, `NoLostWakeup`, `NoLeak`, `NoIdleWait` follow from it.
* `FirstServed`: `NoBarging`, an action property. A waiter that a release hands the lock to
  stood before all that stay, and a newcomer under DL_DETECT is queued behind them.
* `Refinement`: `Spec => Serializable`. What a transaction saved before it wrote is the
  committed value of the row (`Saved`), and the values it saw are still the committed ones
  when it commits (`Begun`), both because it owns the rows; so the commit is the step
  `Commit` of `SerialStore` and everything else, rollbacks included, is a stutter.
* `RowLockProofs!OnlyForYounger`: `WaitsForYounger` is preserved by grants, insertions
  and releases; it holds whatever the timestamps, equal ones included.
* `RowLockProofs!DeadlockFree`: with finitely many threads under WAIT_DIE, whatever their
  timestamps, every deadlock has in it a set of threads with one timestamp that wait for each
  other (`TiedDeadlock`). Nothing is assumed of `Ts`: with those of the code, all 0, it says
  what `codets` shows, with distinct ones it says `NoDeadlock`. Of any finite set of threads
  the ones with the greatest timestamp wait for none of the others (`GreatestLemma`, by
  well-founded descent over subsets).
* `RowLockProofs!KeyOrderDeadlockFree`: if every query asks for its rows in the order of some
  keys, as YCSB's do with `KEY_ORDER` (ycsb_query.cpp:137-147), then `NoDeadlock` holds under
  each of the three schemes and with any timestamps, those of the code included. `KEY_ORDER`
  switches the detector off (`NO_DL`, config.h:71), and this is why it may.

`PLock`, for any finite set of threads and any partitions and queries:

* `TypeCorrect`, `CounterRight` (`ReadyCount`), `InQueuesAlways` (`InQueues`),
  `OldestFirstAlways` (`OldestFirst`) and `Refinement` (`Serializable`). The invariant ties
  three views of a wait together: the queue of the partition, the partitions the thread has
  asked for so far, and its counter `ready_part`, which is the number of its queue entries.
  The counter alone is not inductive: that a hand-over lowers the right one needs that the
  queues hold a thread once, in the order of the timestamps. With all partitions of its query
  owned, a transaction is alone on their rows, which gives the refinement.

`OCC`, for any finite set of threads (threads of a process are finitely many) and any rows and
queries:

* `Invariance`, under either scheme, is the inductive invariant. `TypeCorrect` and
  `WritersAlwaysExclude` follow. Under central validation two writers exclude each other
  because the later one has the earlier one's write set among those it compares with
  (`Entered`, `OneChecks`).
* With `PER_ROW_VALID`: `CopiesAlwaysCurrent` (`CopiesCurrent`), `LatchesOrdered`
  (`NoLatchCycle`) and `Refinement` (`Serializable`). A copy whose timestamp would pass the
  validation is the committed value (`CopyCurrent`), the latches a thread has are those of
  the first of its rows in the order of their keys (`Latches`), and of a finite set of threads
  that wait for each other the one at the greatest key waits for none of them. The refinement
  has the hypothesis `PER_ROW_VALID`, since central validation loses updates (`occ_lost`).

`DLDetect`, for any threads and any number of waits and simultaneous searches:

* `Inductive` and `FirstAlarm` (`FirstAlarmRight`). Until the first transaction gives up, a
  dependency in a node that is still current is a wait that lasts, so a path of such
  dependencies that a search has followed (`SearchInv`) is a path of waits now, although its
  parts were read at different times. What the search has put away is on no loop
  (`Unlooped`).

`RowTS`, for any threads, rows and queries, both values of `TS_TWR` and any bound on the
timestamps, without further hypotheses:

* `Inductive`: the buffers of a row are those of its announcers and waiters, and each waiter
  has an announcer before it (`Buffers`). Its `rts` is past every read, and no write is
  announced below it (`Reading`). It holds the writes of the log up to `wts`; the committed
  writes after that are still announced (`Writing`). Per thread: where it is in its query
  (`Progress`), and that what it read is the number of writes before its timestamp (`Seen`).
* Why `update_buffer` needs no induction over its turns: a writer reads the row before it
  writes, so by then it is the first of the announced ones and no older reader is left. Its
  `W_REQ` is performed at once (`WriteAtOnce`) and `writereq` stays empty. One turn lets
  through all the reads there are to let through, and the next ones change nothing
  (`UpdateFacts`, `TurnTwice`). That the buffer of writes is never used is itself a result
  about the code: `get_row` follows every prewrite by a read (row.cpp:213-218), so that part
  of row_ts.cpp is dead.
* `TypeCorrect`, `PrewritesOwned` (`NoOrphanPrewrite`), `NoWakeupLost` (`NoLostWakeup`) and
  `Refinement` (`TimestampOrder`) follow.

`RowMVCC`, for any threads, rows and queries, any `HIS_RECYCLE_LEN`, and any start (`FirstTs`),
that of the program included:

* The inductive invariant is in two parts. `BufferInductive`: `Spec => []BufferInv`. Where
  each thread is in its query (`Progress`), and that the buffers of a row are those of its
  announcers and waiters, each waiter with an announcer before it up to `PTS_BOUND`
  (`Buffered`), do not depend on what is recycled.
* `Inductive`: `OnTimeSpec => []IInv`, which adds `HistoryInv`. A row knows of every read, by
  `readhis` or because all transactions as old are over, and no announced write is before a
  read (`Reading`). Its versions hold the writes of the log, but for those that are still to
  be returned and those below a version that is older than every transaction (`Writing`). Per
  thread: its pointers lead to the last version before its timestamp (`Pointers`), and what it
  read is the number of writes before its timestamp (`Seen`). `VersionsKept` is not
  inductive: that nothing slips in below a reader needs `Reading`, and that what is cut off
  lies below what it reads needs that the version itself, not only its timestamp, is on
  record.
* `TypeCorrect`, `VersionsAlwaysKept` (`VersionsKept`) and `Refinement` (`TimestampOrder`)
  follow, for `OnTimeSpec`. The premise is needed: `mvcc_cold` shows what happens without it.
* `NoWakeupLost`: `Spec => [](timestamp <= PTS_BOUND + 1 => NoLostWakeup)`. No premise on the
  start, on what is recycled, or on how far timestamps get in the end: as long as those drawn
  are not past the constant, the property holds. After that it can be violated (section 3).
* `WarmOnTime`: when every thread has registered a timestamp (`Warmed`, as after a warm-up),
  `Spec => OnTimeSpec`, so that the theorems above hold of `Spec`.

`MinTs`, for any number of threads, any start and any bound on the timestamps, in
`RowMVCCProofs`, which takes `MinTs` with its constants and variables of its own for it
(`Scan == INSTANCE MinTs`):

* `MinIsSafe`: `Scan!OnTimeSpec => []Scan!MinSafe`. The inductive invariant `MinInv` has that a
  thread never runs below its own entry (`EntryInv`) and that every minimum, finished or half
  way through its scan, is below the floors of all threads that went into it (`BelowInv`). The
  `Floor` of a thread is what it has registered, or else what it has drawn, or else what it
  will draw next at the least, so it only grows. A scan that passed a thread before its first
  timestamp was drawn is below that floor because it also reads its own entry, an older one;
  a scan that passes between drawing and registering is what `OnTime` excludes.
  `ThreadsNumbered` is the assumption of `MinTs` that threads are numbered from 0, as the scan
  goes through them by number.

`Reorder`, for programs of any number of blocks and any values of `conflict_index`, without
further hypotheses:

* `Inductive`: the order of the queries has every query once, behind all its parents, and the
  less contended of two in front unless its parents forbid it (`Sorted`). The new program has
  each block behind its definers, and the queries in that order (`Emitted`). Only statements
  are ever queued, and no query is left among their ancestors (`Queued`). `DefinersFirst` is
  not inductive alone: that all definers of the next query are there at its turn needs that
  the queries among its ancestors are its parents, so they have had theirs (`ParentsLemma`).
* `DefinersAlwaysFirst`, `ContendedAlwaysLast` and `NoQueryTwice` (`QueriesOnce`) follow.
* Towards `NothingLost`: `SortAlwaysGoesOn`, the loop that orders the queries never runs round
  without picking one, and `CompleteAtEnd`, at the end the new program has exactly the blocks
  of the old one.
* The model computes with recursion over the program (`Ancestors`), a fold (`Followers`) and a
  choice (`InOrder`). What they return for every program is proved without an induction
  theorem: a property of all blocks by looking at the least block that lacks it (`UpTo`), and
  that the recursive functions exist by the same argument for those on `1..n`
  (`AncestorsDef`, `FollowersDef`).

Only model-checked:

* Liveness (`WritersFinish`, `WaitEnds`, `AllFinish`, `InOrderFinish`, `DeadlockBroken`,
  `NothingLost`): fairness and ENABLED are out of reach of the prover. Of the last one the
  theorems leave open only that the program ends.

## 6. Not modelled

* VLL (vll.cpp, row_vll.cpp) is unfinished in this commit. `beginTxn` never enters the
  transaction in its queue entry (vll.cpp:88; `getQEntry` leaves NULL), so `vllMainLoop` never
  runs a blocked transaction: it stays in the queue, its row counters stay raised, and what
  conflicts with it blocks too. The mutex is never initialised, the size of the queue never
  changed, and `finishTxn` frees the `txn_man` that its thread goes on using. A model would
  show the first conflict to be the last; there is no property it could have.
* The indexes: transactions insert into none (index inserts in tpcc_txn.cpp are commented
  out), so they are built by the loaders and only read while transactions run.
* The other timestamp allocators (`TS_MUTEX`, `TS_CLOCK`, batches): the models need unique
  timestamps that grow, and use the configured one, `TS_CAS`. `CENTRAL_MAN`, off by default,
  puts several rows under one latch, which makes fewer interleavings.
* In QURO: the front end, the analysis of definitions, the merging of branches and loops,
  the renaming of variables, and the input it writes for the ILP solver (`GENERATE_ILP_INPUT`). The ILP drivers print a
  problem for an external solver.
* The memory allocator, statistics, option parsing, catalog and tables: sequential support
  code. The TPC-E kit (by far most of the lines of the repository) is vendored and talks to an
  external database server.
